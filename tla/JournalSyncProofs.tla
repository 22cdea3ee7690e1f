-------------------------- MODULE JournalSyncProofs --------------------------
(***************************************************************************)
(* Proofs about JournalSync, for every value of its constants.             *)
(***************************************************************************)
EXTENDS JournalSync, FiniteSetTheorems, TLAPS

Active(c) == Working(c) \/ pc[c] = "apply"

\* The steps have five shapes.  What the device does to its own journal,
SourceStep ==
  /\ source' \in [Seqs -> Payloads \cup {None}]
  /\ fails' \in 0..MaxFail
  /\ UNCHANGED <<replicaVars, callVars, cursor>>

\* the start of a call,
StartStep(c, new) ==
  /\ new \in Call
  /\ new.kind = "batch" =>
       /\ new.start = cursor[c]
       /\ \A k \in 1..Len(new.entries) : new.entries[k].seq = cursor[c] + k - 1
  /\ Start(c, new)

\* the choice to apply an entry,
ChooseStep(c) ==
  /\ Working(c) /\ Current(c).payload # Garbled
  /\ pc' = [pc EXCEPT ![c] = "apply"]
  /\ UNCHANGED <<source, replicaVars, call, pos, synced, errors, cursor, fails>>

\* an entry that is done with: recorded now, found recorded, or failed,
Recorded(e) ==
  /\ rows[e.seq] = None
  /\ rows' = [rows EXCEPT ![e.seq] = e.payload]
  /\ effects' = [effects EXCEPT ![e.seq] = @ + 1]

EntryStep(c, ok) ==
  /\ Active(c)
  /\ Counted(c, ok)
  /\ fails' \in 0..MaxFail
  /\ \/ ok /\ Recorded(Current(c)) /\ Current(c).payload # Garbled
     \/ ok /\ rows[Current(c).seq] = Current(c).payload /\ UNCHANGED replicaVars
     \/ ~ok /\ UNCHANGED replicaVars

\* and the end of a call.
LeaveStep(c) ==
  /\ pc[c] # "idle"
  /\ Leave(c)
  /\ fails' \in 0..MaxFail
  /\ \/ UNCHANGED cursor
     \/ /\ Finished(c) /\ call[c].kind = "batch" /\ errors[c] = 0
        /\ cursor' = [cursor EXCEPT ![c] = call[c].start + Len(call[c].entries)]

LEMMA ExportType ==
  ASSUME TypeOK, NEW c \in Callers, NEW n \in 0..MaxBatch, StopsAfter(cursor[c], n)
  PROVE  /\ Export(cursor[c], n) \in Seq(Entry) /\ Len(Export(cursor[c], n)) = n
         /\ \A k \in 1..n : Export(cursor[c], n)[k].seq = cursor[c] + k - 1
  <1> DEFINE from == cursor[c]
  <1>1. from \in Nat /\ n \in Nat
    BY BatchAssumption DEF TypeOK
  <1>2. ASSUME NEW k \in 1..n
        PROVE  [seq |-> from + k - 1, payload |-> source[from + k - 1]] \in Entry
    <2>1. k - 1 \in 0..(n - 1) /\ from + (k - 1) = from + k - 1
      BY <1>1
    <2>2. from + k - 1 \in Seqs /\ source[from + k - 1] # None
      BY <2>1 DEF StopsAfter
    <2>3. source[from + k - 1] \in Payloads
      BY <2>2 DEF TypeOK
    <2> QED
      BY <2>2, <2>3 DEF Entry
  <1> HIDE DEF from
  <1>3. [k \in 1..n |-> [seq |-> from + k - 1, payload |-> source[from + k - 1]]] \in Seq(Entry)
    BY <1>1, <1>2
  <1>4. Len([k \in 1..n |-> [seq |-> from + k - 1, payload |-> source[from + k - 1]]]) = n
    BY <1>1
  <1> QED
    BY <1>3, <1>4 DEF Export, from

LEMMA StepShapes ==
  ASSUME TypeOK, CallInv, [Next]_vars
  PROVE  \/ SourceStep
         \/ \E c \in Callers : \/ \E new \in Call : StartStep(c, new)
                               \/ ChooseStep(c)
                               \/ \E ok \in BOOLEAN : EntryStep(c, ok)
                               \/ LeaveStep(c)
  <1>0. fails \in 0..MaxFail
    BY DEF TypeOK
  <1>f. Fail => fails' \in 0..MaxFail
    BY BoundAssumption DEF TypeOK, Fail
  <1>1. CASE UNCHANGED vars
    BY <1>1 DEF vars, TypeOK, SourceStep
  <1>2. ASSUME NEW s \in Seqs, NEW p \in Payloads, RecordRow(s, p) PROVE SourceStep
    BY <1>2 DEF RecordRow, TypeOK, SourceStep
  <1>3. ASSUME NEW s \in Seqs, NEW p \in Payloads \cup {None}, DamageJournal(s, p) PROVE SourceStep
    BY <1>3, <1>f DEF DamageJournal, TypeOK, SourceStep
  <1>4. ASSUME NEW c \in Callers, SyncBatch(c) PROVE \E new \in Call : StartStep(c, new)
    <2>1. PICK n \in 0..MaxBatch :
            /\ StopsAfter(cursor[c], n)
            /\ Start(c, [kind |-> "batch", start |-> cursor[c], entries |-> Export(cursor[c], n)])
      BY <1>4 DEF SyncBatch
    <2> DEFINE new == [kind |-> "batch", start |-> cursor[c], entries |-> Export(cursor[c], n)]
    <2>2. /\ Export(cursor[c], n) \in Seq(Entry) /\ Len(Export(cursor[c], n)) = n
          /\ \A k \in 1..n : Export(cursor[c], n)[k].seq = cursor[c] + k - 1
      BY <2>1, ExportType
    <2>3. new \in Call
      BY <2>2 DEF Call, TypeOK
    <2>4. new.start = cursor[c] /\ new.entries = Export(cursor[c], n)
      OBVIOUS
    <2> HIDE DEF new
    <2>5. Start(c, new)
      BY <2>1 DEF new
    <2> QED
      BY <2>2, <2>3, <2>4, <2>5 DEF StartStep
  <1>5. ASSUME NEW c \in Callers, Request(c) PROVE \E new \in Call : StartStep(c, new)
    <2>1. PICK a \in Seqs, b \in Seqs, bad \in 0..2 : ProcessSyncRequest(c, a, <<a, b>>, bad)
      BY <1>5 DEF Request
    <2> DEFINE entry(k) == [seq |-> <<a, b>>[k],
                            payload |-> IF bad = k THEN Garbled ELSE source[<<a, b>>[k]]]
               new == [kind |-> "request", start |-> a, entries |-> [k \in DOMAIN <<a, b>> |-> entry(k)]]
    <2>2. DOMAIN <<a, b>> = 1..2
      OBVIOUS
    <2>3. ASSUME NEW k \in 1..2 PROVE entry(k) \in Entry
      <3>1. <<a, b>>[k] \in Seqs /\ source[<<a, b>>[k]] # None
        BY <2>1, <2>2 DEF ProcessSyncRequest
      <3> QED
        BY <3>1 DEF Entry, TypeOK
    <2>4. Start(c, new)
      BY <2>1 DEF ProcessSyncRequest
    <2> HIDE DEF entry
    <2>5. [k \in 1..2 |-> entry(k)] \in Seq(Entry)
      BY <2>3
    <2>6. new \in Call /\ new.kind # "batch"
      BY <2>2, <2>5 DEF Call, Seqs
    <2> QED
      BY <2>4, <2>6 DEF StartStep
  <1>6. ASSUME NEW c \in Callers, DecodeFails(c) PROVE EntryStep(c, FALSE)
    BY <1>0, <1>6 DEF DecodeFails, EntryStep, Active
  <1>7. ASSUME NEW c \in Callers, CheckApplied(c)
        PROVE  ChooseStep(c) \/ EntryStep(c, TRUE) \/ EntryStep(c, FALSE)
    BY <1>0, <1>7 DEF CheckApplied, ChooseStep, EntryStep, Active, Counted
  <1>8. ASSUME NEW c \in Callers, ApplyTransaction(c)
        PROVE  EntryStep(c, TRUE) \/ EntryStep(c, FALSE)
    BY <1>0, <1>8 DEF ApplyTransaction, EntryStep, Active, Counted, Recorded, CallInv
  <1>9. ASSUME NEW c \in Callers, ApplyFails(c) PROVE EntryStep(c, FALSE)
    BY <1>f, <1>9 DEF ApplyFails, EntryStep, Active
  <1>10. ASSUME NEW c \in Callers, Return(c) PROVE LeaveStep(c)
    BY <1>0, <1>10 DEF Return, LeaveStep, Finished, NextSequence
  <1>11. ASSUME NEW c \in Callers, Crash(c) PROVE LeaveStep(c)
    BY <1>f, <1>11 DEF Crash, LeaveStep
  <1> QED
    BY <1>1, <1>2, <1>3, <1>4, <1>5, <1>6, <1>7, <1>8, <1>9, <1>10, <1>11 DEF Next, Step

-----------------------------------------------------------------------------
\* Type correctness.
LEMMA ActiveType ==
  ASSUME TypeOK, NEW c \in Callers, Active(c)
  PROVE  /\ call[c] \in Call /\ pc[c] # "idle"
         /\ pos[c] \in 1..Len(call[c].entries)
         /\ Current(c) \in Entry
  <1>1. call[c] \in Call /\ pc[c] # "idle" /\ pos[c] \in 1..Len(call[c].entries)
    <2>1. pc[c] # "idle"
      BY DEF Active, Working
    <2>2. call[c] \in Call
      BY <2>1 DEF TypeOK
    <2>3. Len(call[c].entries) \in Nat
      BY <2>2 DEF Call
    <2>4. CASE Working(c)
      <3>1. pos[c] \in 1..(Len(call[c].entries) + (IF pc[c] = "next" THEN 1 ELSE 0))
        BY <2>1 DEF TypeOK
      <3> QED
        BY <2>1, <2>2, <2>3, <2>4, <3>1 DEF Working
    <2>5. CASE pc[c] = "apply"
      <3>1. pos[c] \in 1..(Len(call[c].entries) + (IF pc[c] = "next" THEN 1 ELSE 0))
        BY <2>1 DEF TypeOK
      <3> QED
        BY <2>1, <2>2, <2>3, <2>5, <3>1
    <2> QED
      BY <2>1, <2>2, <2>4, <2>5 DEF Active
  <1>2. Current(c) \in Entry
    BY <1>1 DEF Current, Call
  <1> QED
    BY <1>1, <1>2

LEMMA TypeNext == ASSUME TypeOK, CallInv, [Next]_vars PROVE TypeOK'
  <1>1. CASE SourceStep
    BY <1>1 DEF SourceStep, TypeOK, replicaVars, callVars
  <1>2. ASSUME NEW c \in Callers, NEW new \in Call, StartStep(c, new) PROVE TypeOK'
    <2>1. /\ source' \in [Seqs -> Payloads \cup {None}]
          /\ rows' \in [Seqs -> Payloads \cup {None}]
          /\ effects' \in [Seqs -> Nat]
          /\ cursor' \in [Callers -> Nat \ {0}]
          /\ fails' \in 0..MaxFail
      BY <1>2 DEF StartStep, Start, TypeOK, replicaVars
    <2>2. /\ pc' \in [Callers -> {"idle", "next", "apply"}]
          /\ call' \in [Callers -> Call \cup {None}]
          /\ pos' \in [Callers -> Nat]
          /\ synced' \in [Callers -> Nat] /\ errors' \in [Callers -> Nat]
      BY <1>2 DEF StartStep, Start, TypeOK
    <2>3. Len(new.entries) \in Nat
      BY DEF Call
    <2>4. ASSUME NEW d \in Callers, pc'[d] # "idle"
          PROVE  /\ call'[d] \in Call
                 /\ pos'[d] \in 1..(Len(call'[d].entries) + (IF pc'[d] = "next" THEN 1 ELSE 0))
                 /\ synced'[d] + errors'[d] = pos'[d] - 1
      <3>1. CASE d = c
        BY <1>2, <2>3, <3>1 DEF StartStep, Start, TypeOK
      <3>2. CASE d # c
        BY <1>2, <2>4, <3>2 DEF StartStep, Start, TypeOK
      <3> QED
        BY <3>1, <3>2
    <2> QED
      BY <2>1, <2>2, <2>4 DEF TypeOK
  <1>3. ASSUME NEW c \in Callers, ChooseStep(c) PROVE TypeOK'
    <2>1. pos[c] \in 1..Len(call[c].entries) /\ pc[c] # "idle" /\ call[c] \in Call
      BY <1>3, ActiveType DEF ChooseStep, Active
    <2>2. ASSUME NEW d \in Callers, pc'[d] # "idle"
          PROVE  /\ call'[d] \in Call
                 /\ pos'[d] \in 1..(Len(call'[d].entries) + (IF pc'[d] = "next" THEN 1 ELSE 0))
                 /\ synced'[d] + errors'[d] = pos'[d] - 1
      <3>1. CASE d = c
        <4>1. pc'[c] = "apply" /\ UNCHANGED <<call, pos, synced, errors>>
          BY <1>3 DEF ChooseStep, TypeOK
        <4>2. synced[c] + errors[c] = pos[c] - 1
          BY <2>1 DEF TypeOK
        <4>3. Len(call[c].entries) \in Nat
          BY <2>1 DEF Call
        <4> QED
          BY <2>1, <3>1, <4>1, <4>2, <4>3
      <3>2. CASE d # c
        BY <1>3, <2>2, <3>2 DEF ChooseStep, TypeOK
      <3> QED
        BY <3>1, <3>2
    <2> QED
      BY <1>3, <2>2 DEF ChooseStep, TypeOK, replicaVars
  <1>4. ASSUME NEW c \in Callers, NEW ok \in BOOLEAN, EntryStep(c, ok) PROVE TypeOK'
    <2>1. /\ call[c] \in Call /\ pc[c] # "idle"
          /\ pos[c] \in 1..Len(call[c].entries)
          /\ Current(c) \in Entry
      BY <1>4, ActiveType DEF EntryStep
    <2>2. rows' \in [Seqs -> Payloads \cup {None}] /\ effects' \in [Seqs -> Nat]
      <3>1. CASE UNCHANGED replicaVars
        BY <3>1 DEF TypeOK, replicaVars
      <3>2. CASE Recorded(Current(c)) /\ Current(c).payload # Garbled
        BY <2>1, <3>2 DEF Recorded, TypeOK, Entry
      <3> QED
        BY <1>4, <3>1, <3>2 DEF EntryStep
    <2>3. /\ source' \in [Seqs -> Payloads \cup {None}]
          /\ cursor' \in [Callers -> Nat \ {0}]
          /\ fails' \in 0..MaxFail
          /\ pc' \in [Callers -> {"idle", "next", "apply"}]
          /\ call' \in [Callers -> Call \cup {None}]
      BY <1>4 DEF EntryStep, Counted, TypeOK
    <2>c. /\ pos' \in [Callers -> Nat]
          /\ synced' \in [Callers -> Nat] /\ errors' \in [Callers -> Nat]
      <3>1. \A d \in Callers : pos[d] + 1 \in Nat /\ synced[d] + 1 \in Nat /\ errors[d] + 1 \in Nat
        BY DEF TypeOK
      <3> QED
        BY <1>4, <3>1 DEF EntryStep, Counted, TypeOK
    <2>4. ASSUME NEW d \in Callers, pc'[d] # "idle"
          PROVE  /\ call'[d] \in Call
                 /\ pos'[d] \in 1..(Len(call'[d].entries) + (IF pc'[d] = "next" THEN 1 ELSE 0))
                 /\ synced'[d] + errors'[d] = pos'[d] - 1
      <3>1. CASE d = c
        <4>1. /\ pc'[c] = "next" /\ call'[c] = call[c] /\ pos'[c] = pos[c] + 1
              /\ synced'[c] + errors'[c] = synced[c] + errors[c] + 1
          BY <1>4 DEF EntryStep, Counted, TypeOK
        <4>2. synced[c] + errors[c] = pos[c] - 1 
          BY <2>1 DEF TypeOK
        <4>3. Len(call[c].entries) \in Nat
          BY <2>1 DEF Call
        <4> QED
          BY <2>1, <3>1, <4>1, <4>2, <4>3
      <3>2. CASE d # c
        BY <1>4, <2>4, <3>2 DEF EntryStep, Counted, TypeOK
      <3> QED
        BY <3>1, <3>2
    <2> QED
      BY <2>2, <2>3, <2>4, <2>c DEF TypeOK
  <1>5. ASSUME NEW c \in Callers, LeaveStep(c) PROVE TypeOK'
    <2>1. cursor' \in [Callers -> Nat \ {0}]
      <3>1. CASE UNCHANGED cursor
        BY <3>1 DEF TypeOK
      <3>2. CASE /\ call[c].kind = "batch"
                 /\ cursor' = [cursor EXCEPT ![c] = call[c].start + Len(call[c].entries)]
        <4>1. call[c].start = cursor[c] /\ call[c] \in Call
          BY <1>5, <3>2 DEF LeaveStep, CallInv, TypeOK
        <4>2. Len(call[c].entries) \in Nat
          BY <4>1 DEF Call
        <4> QED
          BY <3>2, <4>1, <4>2 DEF TypeOK
      <3> QED
        BY <1>5, <3>1, <3>2 DEF LeaveStep
    <2>2. ASSUME NEW d \in Callers, pc'[d] # "idle"
          PROVE  /\ call'[d] \in Call
                 /\ pos'[d] \in 1..(Len(call'[d].entries) + (IF pc'[d] = "next" THEN 1 ELSE 0))
                 /\ synced'[d] + errors'[d] = pos'[d] - 1
      BY <1>5, <2>2 DEF LeaveStep, Leave, TypeOK
    <2>3. /\ pc' \in [Callers -> {"idle", "next", "apply"}]
          /\ call' \in [Callers -> Call \cup {None}]
          /\ pos' \in [Callers -> Nat]
          /\ synced' \in [Callers -> Nat] /\ errors' \in [Callers -> Nat]
          /\ source' \in [Seqs -> Payloads \cup {None}]
          /\ rows' \in [Seqs -> Payloads \cup {None}]
          /\ effects' \in [Seqs -> Nat]
          /\ fails' \in 0..MaxFail
      BY <1>5 DEF LeaveStep, Leave, TypeOK, replicaVars
    <2> QED
      BY <2>1, <2>2, <2>3 DEF TypeOK
  <1> QED
    BY <1>1, <1>2, <1>3, <1>4, <1>5, StepShapes

-----------------------------------------------------------------------------
\* The replica: every entry step that records a row replays it in the same step.
LEMMA ReplayedNext ==
  ASSUME TypeOK, CallInv, ReplayedOnce, [Next]_vars
  PROVE  /\ ReplayedOnce'
         /\ \A s \in Seqs : rows[s] # None => rows'[s] = rows[s]
  <1> DEFINE Goal == /\ ReplayedOnce'
                     /\ \A s \in Seqs : rows[s] # None => rows'[s] = rows[s]
  <1>1. CASE UNCHANGED replicaVars
    BY <1>1 DEF ReplayedOnce, replicaVars
  <1>2. ASSUME NEW c \in Callers, Active(c), Recorded(Current(c)), Current(c).payload # Garbled
        PROVE  Goal
    <2>1. Current(c) \in Entry
      BY <1>2, ActiveType
    <2> QED
      BY <1>2, <2>1, SentinelAssumption DEF Recorded, Entry, ReplayedOnce, TypeOK
  <1>3. UNCHANGED replicaVars \/ \E c \in Callers :
          Active(c) /\ Recorded(Current(c)) /\ Current(c).payload # Garbled
    BY StepShapes DEF SourceStep, StartStep, Start, ChooseStep, EntryStep, LeaveStep, Leave
  <1> QED
    BY <1>1, <1>2, <1>3

\* The calls under way.
LEMMA CallNext == ASSUME TypeOK, CallInv, [Next]_vars PROVE CallInv'
  <1> DEFINE OK(d) ==
        /\ pc[d] = "apply" => Current(d).payload # Garbled
        /\ call[d].kind = "batch" =>
             /\ call[d].start = cursor[d]
             /\ \A k \in 1..Len(call[d].entries) : call[d].entries[k].seq = cursor[d] + k - 1
  <1> SUFFICES ASSUME NEW d \in Callers, pc'[d] # "idle" PROVE OK(d)'
    BY DEF CallInv
  <1>0. ASSUME UNCHANGED <<pc[d], call[d], pos[d], cursor[d]>> PROVE OK(d)'
    BY <1>0 DEF CallInv, Current
  <1>1. CASE SourceStep
    BY <1>0, <1>1 DEF SourceStep, callVars
  <1>2. ASSUME NEW c \in Callers, NEW new \in Call, StartStep(c, new) PROVE OK(d)'
    <2>1. CASE d = c
      BY <1>2, <2>1 DEF StartStep, Start, TypeOK
    <2>2. CASE d # c
      BY <1>0, <1>2, <2>2 DEF StartStep, Start, TypeOK
    <2> QED
      BY <2>1, <2>2
  <1>3. ASSUME NEW c \in Callers, ChooseStep(c) PROVE OK(d)'
    <2>1. CASE d = c
      BY <1>3, <2>1 DEF ChooseStep, Working, TypeOK, CallInv, Current
    <2>2. CASE d # c
      BY <1>0, <1>3, <2>2 DEF ChooseStep, TypeOK
    <2> QED
      BY <2>1, <2>2
  <1>4. ASSUME NEW c \in Callers, NEW ok \in BOOLEAN, EntryStep(c, ok) PROVE OK(d)'
    <2>1. CASE d = c
      BY <1>4, <2>1, ActiveType DEF EntryStep, Counted, TypeOK, CallInv
    <2>2. CASE d # c
      BY <1>0, <1>4, <2>2 DEF EntryStep, Counted, TypeOK
    <2> QED
      BY <2>1, <2>2
  <1>5. ASSUME NEW c \in Callers, LeaveStep(c) PROVE OK(d)'
    <2>1. d # c
      BY <1>5 DEF LeaveStep, Leave, TypeOK
    <2> QED
      BY <1>0, <1>5, <2>1 DEF LeaveStep, Leave, TypeOK
  <1> QED
    BY <1>1, <1>2, <1>3, <1>4, <1>5, StepShapes

-----------------------------------------------------------------------------
\* The entries that a call is done with and that are on the replica.
Replayed(c) ==
  {k \in 1..(pos[c] - 1) : rows[call[c].entries[k].seq] = call[c].entries[k].payload}

LEMMA ReplayedType ==
  ASSUME TypeOK, NEW c \in Callers, pc[c] # "idle"
  PROVE  /\ Replayed(c) \subseteq 1..(pos[c] - 1)
         /\ IsFiniteSet(Replayed(c)) /\ Cardinality(Replayed(c)) \in Nat
         /\ IsFiniteSet(1..(pos[c] - 1)) /\ Cardinality(1..(pos[c] - 1)) = pos[c] - 1
         /\ pos[c] - 1 \in Nat /\ pos[c] - 1 <= Len(call[c].entries)
         /\ \A k \in 1..(pos[c] - 1) : call[c].entries[k] \in Entry
  <1>1. call[c] \in Call /\ pos[c] \in Nat
    BY DEF TypeOK
  <1>2. Len(call[c].entries) \in Nat
    BY <1>1 DEF Call
  <1>3. pos[c] \in 1..(Len(call[c].entries) + (IF pc[c] = "next" THEN 1 ELSE 0))
    BY DEF TypeOK
  <1>4. pos[c] - 1 \in Nat /\ pos[c] - 1 <= Len(call[c].entries)
    <2>1. CASE pc[c] = "next"
      BY <1>1, <1>2, <1>3, <2>1
    <2>2. CASE pc[c] # "next"
      BY <1>1, <1>2, <1>3, <2>2
    <2> QED
      BY <2>1, <2>2
  <1>5. \A k \in 1..(pos[c] - 1) : call[c].entries[k] \in Entry
    BY <1>1, <1>2, <1>4 DEF Call
  <1>6. IsFiniteSet(1..(pos[c] - 1)) /\ Cardinality(1..(pos[c] - 1)) = pos[c] - 1
    BY <1>4, FS_Interval
  <1>7. Replayed(c) \subseteq 1..(pos[c] - 1)
    BY DEF Replayed
  <1>8. IsFiniteSet(Replayed(c))
    BY <1>6, <1>7, FS_Subset
  <1> QED
    BY <1>4, <1>5, <1>6, <1>7, <1>8, FS_CardinalityType

LEMMA NextType ==
  ASSUME TypeOK', NEW c \in Callers, pc'[c] # "idle"
  PROVE  IsFiniteSet(Replayed(c)') /\ Cardinality(Replayed(c)') \in Nat
  <1>1. pos'[c] - 1 \in Int
    BY DEF TypeOK
  <1>2. Replayed(c)' \subseteq 1..(pos'[c] - 1) /\ IsFiniteSet(1..(pos'[c] - 1))
    BY <1>1, FS_Interval DEF Replayed
  <1> QED
    BY <1>2, FS_Subset, FS_CardinalityType

\* A call that goes on loses none of them, as rows are not rewritten.
LEMMA ReplayedGrows ==
  ASSUME TypeOK, TypeOK', NEW c \in Callers, pc[c] # "idle", pc'[c] # "idle",
         UNCHANGED call[c], pos[c] <= pos'[c],
         \A s \in Seqs : rows[s] # None => rows'[s] = rows[s]
  PROVE  /\ Replayed(c) \subseteq Replayed(c)'
         /\ Cardinality(Replayed(c)) <= Cardinality(Replayed(c)')
  <1>1. Replayed(c) \subseteq Replayed(c)'
    <2>1. SUFFICES ASSUME NEW k \in Replayed(c) PROVE k \in Replayed(c)'
      OBVIOUS
    <2>2. k \in 1..(pos[c] - 1) /\ call[c].entries[k] \in Entry
      BY ReplayedType
    <2>3. rows[call[c].entries[k].seq] = call[c].entries[k].payload
      BY DEF Replayed
    <2>4. call[c].entries[k].seq \in Seqs /\ call[c].entries[k].payload # None
      BY <2>2, SentinelAssumption DEF Entry
    <2>5. rows'[call[c].entries[k].seq] = call[c].entries[k].payload
      BY <2>3, <2>4
    <2>6. pos[c] \in Nat /\ pos'[c] \in Nat
      BY DEF TypeOK
    <2>7. k \in 1..(pos'[c] - 1)
      BY <2>2, <2>6
    <2> QED
      BY <2>5, <2>7 DEF Replayed
  <1>2. IsFiniteSet(Replayed(c)')
    BY NextType
  <1> QED
    BY <1>1, <1>2, FS_Subset

LEMMA SyncedNext ==
  ASSUME TypeOK, CallInv, ReplayedOnce, SyncedIsDurable, [Next]_vars
  PROVE  SyncedIsDurable'
  <1>0. TypeOK' /\ \A s \in Seqs : rows[s] # None => rows'[s] = rows[s]
    BY TypeNext, ReplayedNext
  <1>1. ASSUME NEW d \in Callers, pc'[d] # "idle"
        PROVE  synced'[d] <= Cardinality(Replayed(d)')
    <2>1. ASSUME pc[d] # "idle", UNCHANGED <<call[d], pos[d], synced[d]>>
          PROVE  synced'[d] <= Cardinality(Replayed(d)')
      <3>1. pos[d] <= pos'[d] /\ synced[d] <= Cardinality(Replayed(d)) /\ synced[d] \in Nat
        BY <2>1 DEF TypeOK, SyncedIsDurable, Replayed
      <3>2. Cardinality(Replayed(d)) <= Cardinality(Replayed(d)')
        BY <1>0, <1>1, <2>1, <3>1, ReplayedGrows
      <3>3. Cardinality(Replayed(d)) \in Nat /\ Cardinality(Replayed(d)') \in Nat
        BY <1>0, <1>1, <2>1, ReplayedType, NextType
      <3> QED
        BY <2>1, <3>1, <3>2, <3>3
    <2>2. CASE SourceStep
      BY <1>1, <2>1, <2>2 DEF SourceStep, callVars
    <2>3. ASSUME NEW c \in Callers, NEW new \in Call, StartStep(c, new)
          PROVE  synced'[d] <= Cardinality(Replayed(d)')
      <3>1. CASE d = c
        <4>1. synced'[d] = 0
          BY <2>3, <3>1 DEF StartStep, Start, TypeOK
        <4>2. Cardinality(Replayed(d)') \in Nat
          BY <1>0, <1>1, NextType
        <4> QED
          BY <4>1, <4>2
      <3>2. CASE d # c
        BY <1>1, <2>1, <2>3, <3>2 DEF StartStep, Start, TypeOK
      <3> QED
        BY <3>1, <3>2
    <2>4. ASSUME NEW c \in Callers, ChooseStep(c)
          PROVE  synced'[d] <= Cardinality(Replayed(d)')
      <3>1. pc[d] # "idle"
        BY <1>1, <2>4 DEF ChooseStep, Working, TypeOK
      <3> QED
        BY <2>1, <2>4, <3>1 DEF ChooseStep
    <2>5. ASSUME NEW c \in Callers, NEW ok \in BOOLEAN, EntryStep(c, ok)
          PROVE  synced'[d] <= Cardinality(Replayed(d)')
      <3>1. CASE d # c
        BY <1>1, <2>1, <2>5, <3>1 DEF EntryStep, Counted, TypeOK
      <3>2. CASE d = c
        <4>1. /\ pc[c] # "idle" /\ Current(c) \in Entry
              /\ pos[c] \in Nat /\ synced[c] \in Nat
          BY <2>5, ActiveType DEF EntryStep, TypeOK
        <4>2. pos'[c] = pos[c] + 1 /\ call'[c] = call[c]
          BY <2>5 DEF EntryStep, Counted, TypeOK
        <4>3. synced[c] <= Cardinality(Replayed(c))
          BY <4>1 DEF SyncedIsDurable, Replayed
        <4>4. /\ Replayed(c) \subseteq Replayed(c)'
              /\ Cardinality(Replayed(c)) <= Cardinality(Replayed(c)')
          BY <1>0, <1>1, <3>2, <4>1, <4>2, ReplayedGrows
        <4>5. /\ IsFiniteSet(Replayed(c)) /\ Replayed(c) \subseteq 1..(pos[c] - 1)
              /\ Cardinality(Replayed(c)) \in Nat
          BY <4>1, ReplayedType
        <4>6. IsFiniteSet(Replayed(c)') /\ Cardinality(Replayed(c)') \in Nat
          BY <1>0, <1>1, <3>2, NextType
        <4>7. CASE ~ok
          <5>1. synced'[c] = synced[c]
            BY <2>5, <4>7 DEF EntryStep, Counted
          <5> QED
            BY <3>2, <4>1, <4>3, <4>4, <4>5, <4>6, <5>1
        <4>8. CASE ok
          <5>1. synced'[c] = synced[c] + 1
            BY <2>5, <4>8 DEF EntryStep, Counted, TypeOK
          <5>2. rows'[Current(c).seq] = Current(c).payload
            BY <2>5, <4>1, <4>8 DEF EntryStep, Recorded, replicaVars, TypeOK, Entry
          <5>3. pos[c] \in Replayed(c)'
            <6>1. pos[c] \in 1..(pos'[c] - 1)
              BY <2>5, <4>1, <4>2, ActiveType DEF EntryStep
            <6> QED
              BY <4>2, <5>2, <6>1 DEF Replayed, Current
          <5>4. pos[c] \notin Replayed(c)
            BY <4>1, <4>5
          <5>5. Cardinality(Replayed(c) \cup {pos[c]}) = Cardinality(Replayed(c)) + 1
            BY <4>5, <5>4, FS_AddElement
          <5>6. Cardinality(Replayed(c) \cup {pos[c]}) <= Cardinality(Replayed(c)')
            BY <4>4, <4>6, <5>3, FS_Subset
          <5> QED
            BY <3>2, <4>1, <4>3, <4>5, <4>6, <5>1, <5>5, <5>6
        <4> QED
          BY <4>7, <4>8
      <3> QED
        BY <3>1, <3>2
    <2>6. ASSUME NEW c \in Callers, LeaveStep(c)
          PROVE  synced'[d] <= Cardinality(Replayed(d)')
      <3>1. d # c
        BY <1>1, <2>6 DEF LeaveStep, Leave, TypeOK
      <3> QED
        BY <1>1, <2>1, <2>6, <3>1 DEF LeaveStep, Leave, TypeOK
    <2> QED
      BY <2>2, <2>3, <2>4, <2>5, <2>6, StepShapes
  <1>2. ASSUME NEW d \in Callers, NEW s \in Seqs, s < cursor'[d] PROVE rows'[s] # None
    <2>1. CASE UNCHANGED cursor[d]
      BY <1>0, <1>2, <2>1 DEF SyncedIsDurable
    <2>2. CASE /\ pc[d] # "idle" /\ Finished(d) /\ call[d].kind = "batch" /\ errors[d] = 0
               /\ cursor'[d] = call[d].start + Len(call[d].entries)
      <3> DEFINE n == Len(call[d].entries)
      <3>1. /\ n \in Nat /\ pos[d] \in Nat /\ pos[d] - 1 <= n /\ pos[d] > n
            /\ synced[d] = pos[d] - 1
            /\ \A k \in 1..(pos[d] - 1) : call[d].entries[k] \in Entry
        <4>1. call[d] \in Call /\ synced[d] + errors[d] = pos[d] - 1 /\ pos[d] \in Nat /\ synced[d] \in Nat
          BY <2>2 DEF TypeOK
        <4>2. n \in Nat
          BY <4>1 DEF Call
        <4>3. pos[d] > n
          BY <2>2, <4>1, <4>2 DEF Finished
        <4>4. /\ pos[d] - 1 <= n
              /\ \A k \in 1..(pos[d] - 1) : call[d].entries[k] \in Entry
          BY <2>2, ReplayedType
        <4>5. synced[d] = pos[d] - 1
          BY <2>2, <4>1
        <4> QED
          BY <4>1, <4>2, <4>3, <4>4, <4>5
      <3>2. synced[d] <= Cardinality(Replayed(d))
        BY <2>2 DEF SyncedIsDurable, Replayed
      <3>3. Replayed(d) = 1..n
        <4>1. pos[d] - 1 = n
          BY <3>1
        <4>2. /\ IsFiniteSet(1..n) /\ Cardinality(1..n) = n
              /\ Replayed(d) \subseteq 1..n /\ Cardinality(Replayed(d)) \in Nat
          BY <2>2, <4>1, ReplayedType
        <4>3. Cardinality(Replayed(d)) <= n
          BY <4>2, FS_Subset
        <4>4. Cardinality(Replayed(d)) = n
          BY <3>1, <3>2, <4>1, <4>2, <4>3
        <4> QED
          BY <4>2, <4>4, FS_Subset
      <3>4. cursor[d] \in Nat /\ call[d].start = cursor[d] /\ s \in Nat
        BY <2>2 DEF CallInv, TypeOK, Seqs
      <3>5. CASE s < cursor[d]
        BY <1>0, <3>5 DEF SyncedIsDurable
      <3>6. CASE s >= cursor[d]
        <4> DEFINE k == s - cursor[d] + 1
        <4>1. k \in 1..n /\ cursor[d] + k - 1 = s
          BY <1>2, <2>2, <3>1, <3>4, <3>6
        <4>2. call[d].entries[k].seq = s
          BY <2>2, <4>1 DEF CallInv
        <4>3. rows[s] = call[d].entries[k].payload
          BY <3>3, <4>1, <4>2 DEF Replayed
        <4>4. call[d].entries[k] \in Entry
          BY <3>1, <4>1
        <4>5. rows[s] # None
          BY <4>3, <4>4, SentinelAssumption DEF Entry
        <4> QED
          BY <1>0, <4>5
      <3> QED
        BY <3>4, <3>5, <3>6
    <2>3. ASSUME NEW c \in Callers, LeaveStep(c)
          PROVE  \/ UNCHANGED cursor[d]
                 \/ /\ pc[d] # "idle" /\ Finished(d) /\ call[d].kind = "batch" /\ errors[d] = 0
                    /\ cursor'[d] = call[d].start + Len(call[d].entries)
      BY <2>3 DEF LeaveStep, TypeOK
    <2>4. UNCHANGED cursor[d] \/ \E c \in Callers : LeaveStep(c)
      BY StepShapes DEF SourceStep, StartStep, Start, ChooseStep, EntryStep, Counted
    <2> QED
      BY <2>1, <2>2, <2>3, <2>4
  <1> QED
    BY <1>1, <1>2 DEF SyncedIsDurable, Replayed

-----------------------------------------------------------------------------
LEMMA InvInit == Init => IInv
  <1> SUFFICES ASSUME Init PROVE IInv
    OBVIOUS
  <1>1. TypeOK
    BY BoundAssumption DEF Init, TypeOK
  <1>2. ReplayedOnce /\ CallInv
    BY DEF Init, ReplayedOnce, CallInv
  <1>3. SyncedIsDurable
    BY DEF Init, SyncedIsDurable, Seqs
  <1> QED
    BY <1>1, <1>2, <1>3 DEF IInv

LEMMA InvNext == IInv /\ [Next]_vars => IInv'
  BY TypeNext, ReplayedNext, CallNext, SyncedNext DEF IInv

LEMMA Invariant == Spec => []IInv
  BY InvInit, InvNext, PTL DEF Spec

\* Every variable keeps its type; a call's counts add up to the entries it is done
\* with, of which there are never more than it has (sync_batch,
\* process_sync_request).
THEOREM TypeCorrect == Spec => []TypeOK
  <1>1. IInv => TypeOK
    BY DEF IInv
  <1> QED
    BY <1>1, Invariant, PTL

\* Every recorded sequence was replayed once and no other was, however many
\* callers pass the lookup of apply_entry before one of them records it.
THEOREM ReplayIsOnce == Spec => []ReplayedOnce
  <1>1. IInv => ReplayedOnce
    BY DEF IInv
  <1> QED
    BY <1>1, Invariant, PTL

\* What sync_batch and process_sync_request count as synced is on the replica with
\* the payload that was sent, and everything before the cursor of a caller that
\* goes on after clean results only is there.
THEOREM SyncedStays == Spec => []SyncedIsDurable
  <1>1. IInv => SyncedIsDurable
    BY DEF IInv
  <1> QED
    BY <1>1, Invariant, PTL

=============================================================================
