---------------------------- MODULE JournalChain ----------------------------
(***************************************************************************)
(* The sha chain of the lifecycle journal and its verification             *)
(* (verify_journal in certification/experiment_state_machine.py), against  *)
(* edits of the file made outside the machine.                             *)
(*                                                                         *)
(* A sha256 is modelled by what it hashes, so two are equal exactly when   *)
(* their inputs are.  The edits change fields, positions and lengths; none *)
(* of them computes a hash.                                                *)
(* The names of the specification say Chain: it is read beside that of the *)
(* machine that writes the journal.                                        *)
(***************************************************************************)
EXTENDS Naturals, Sequences, SequencesExt

CONSTANTS
  Bodies,      \* everything in an entry but seq and the hashes
  Genesis,     \* genesis_hash of the machine's label
  Foreign,     \* another well-formed digest
  MaxWritten,  \* bound: entries the machine writes
  MaxEdits     \* bound: edits of the file

ASSUME ChainAssumption ==
  /\ Genesis # Foreign
  /\ MaxWritten \in Nat
  /\ MaxEdits \in Nat

VARIABLES
  memory,   \* the entries the machine has accepted
  genesis,  \* genesis_sha256 in the file
  file,     \* entries in the file
  edits     \* how often the file was edited

chainVars == <<memory, genesis, file, edits>>

entry_hash(seq, body, prev) == <<seq, body, prev>>

make_journal_entry(seq, body, prev) ==
  [seq |-> seq, body |-> body, prev |-> prev, hash |-> entry_hash(seq, body, prev)]

ChainInit ==
  /\ memory = << >>
  /\ genesis = Genesis
  /\ file = << >>
  /\ edits = 0

\* _append: the whole journal is written from memory.
AppendEntry(body) ==
  /\ Len(memory) < MaxWritten
  /\ LET prev == IF memory = << >> THEN Genesis ELSE Last(memory).hash
     IN  memory' = Append(memory, make_journal_entry(Len(memory), body, prev))
  /\ file' = memory'
  /\ genesis' = Genesis
  /\ UNCHANGED edits

\* Mutant: the first entry may start from anywhere.
ExpectedPrevFreely(j, i) == IF i = 1 THEN j[1].prev ELSE j[i - 1].hash

\* verify_journal.
ExpectedPrev(j, i) == IF i = 1 THEN genesis ELSE j[i - 1].hash

\* Mutant: the links are checked, the contents are not hashed again.
VerifiesLinks(j) ==
  \A i \in DOMAIN j :
    /\ j[i].seq = i - 1
    /\ j[i].prev = ExpectedPrev(j, i)

Verifies(j) ==
  \A i \in DOMAIN j :
    /\ j[i].seq = i - 1
    /\ j[i].prev = ExpectedPrev(j, i)
    /\ j[i].hash = entry_hash(j[i].seq, j[i].body, j[i].prev)

-----------------------------------------------------------------------------
(* Edits.                                                                  *)

Edit ==
  /\ edits < MaxEdits
  /\ edits' = edits + 1
  /\ UNCHANGED memory

EditBody(i, body) ==
  /\ Edit
  /\ file' = [file EXCEPT ![i].body = body]
  /\ UNCHANGED genesis

Relink(i, k) ==
  /\ Edit
  /\ file' = [file EXCEPT ![i].prev = file[k].hash]
  /\ UNCHANGED genesis

RemoveEntry(i) ==
  /\ Edit
  /\ file' = RemoveAt(file, i)
  /\ UNCHANGED genesis

SwapEntries(i, k) ==
  /\ Edit
  /\ file' = [file EXCEPT ![i] = file[k], ![k] = file[i]]
  /\ UNCHANGED genesis

Renumber ==
  /\ Edit
  /\ file' = [i \in DOMAIN file |-> [file[i] EXCEPT !.seq = i - 1]]
  /\ UNCHANGED genesis

Truncate(n) ==
  /\ Edit
  /\ file' = SubSeq(file, 1, n)
  /\ UNCHANGED genesis

ReplaceGenesis(digest) ==
  /\ Edit
  /\ genesis' = digest
  /\ UNCHANGED file

ChainNext ==
  \/ \E body \in Bodies : AppendEntry(body)
  \/ \E i \in DOMAIN file, body \in Bodies : EditBody(i, body)
  \/ \E i, k \in DOMAIN file : Relink(i, k) \/ SwapEntries(i, k)
  \/ \E i \in DOMAIN file : RemoveEntry(i)
  \/ \E n \in 0 .. Len(file) : Truncate(n)
  \/ \E digest \in {Foreign} \cup {file[i].hash : i \in DOMAIN file} : ReplaceGenesis(digest)
  \/ Renumber

ChainSpec == ChainInit /\ [][ChainNext]_chainVars

-----------------------------------------------------------------------------
(* Safety.                                                                 *)

\* Whatever edits were made, a file that verifies holds a prefix of what the
\* machine accepted: no entry changed, moved, missing in the middle or added.
\* (A file cut at the end does verify.)
VerifiedIsPrefix == Verifies(file) => IsPrefix(file, memory)

\* A file that verifies and is not empty names the machine's own genesis.
GenesisIsPinned == Verifies(file) /\ file # << >> => genesis = Genesis
=============================================================================
