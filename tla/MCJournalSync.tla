--------------------------- MODULE MCJournalSync ---------------------------
(* Model-checking instances of JournalSync: the configurations give the       *)
(* constants their values.                                                    *)
EXTENDS JournalSync
=============================================================================
