------------------------------ MODULE StagedRun ------------------------------
(***************************************************************************)
(* What the journal of a staged run promises: stages are recorded one at a *)
(* time and stay recorded.  Only the stages after the first Sealed ones    *)
(* may be taken back, and only a journal that is not replaced atomically   *)
(* may be lost.                                                            *)
(***************************************************************************)
EXTENDS Naturals, Sequences, SequencesExt

CONSTANTS
  Sealed,  \* so many stages are never taken back
  Lost     \* the record of a journal that cannot be read any more

VARIABLES
  atomic,  \* the journal is replaced in one step
  record   \* what is recorded of each completed stage, in stage order

Init ==
  /\ atomic \in BOOLEAN
  /\ record = << >>

Complete ==
  /\ record # Lost
  /\ record' # Lost
  /\ Len(record') = Len(record) + 1
  /\ IsPrefix(record, record')

\* A later stage is rebuilt: taken back and recorded anew by one write.
Rebuild ==
  /\ record # Lost
  /\ record' # Lost
  /\ Len(record') \in Sealed + 1 .. Len(record)
  /\ IsPrefix(SubSeq(record', 1, Len(record') - 1), record)

Lose ==
  /\ ~atomic
  /\ record' = Lost

Next ==
  /\ UNCHANGED atomic
  /\ Complete \/ Rebuild \/ Lose

Spec == Init /\ [][Next]_<<atomic, record>>
=============================================================================
