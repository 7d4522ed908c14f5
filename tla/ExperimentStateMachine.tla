----------------------- MODULE ExperimentStateMachine -----------------------
(***************************************************************************)
(* One experiment's lifecycle machine with its journal file                *)
(* (certification/experiment_state_machine.py): a process holds the        *)
(* machine, every accepted call appends to the in-memory entries and then  *)
(* mirrors the whole journal to disk through a temporary file.  That write *)
(* may raise after memory has moved; the process may die between any two   *)
(* calls; a later process replays the file.                                *)
(***************************************************************************)
EXTENDS LifecycleJournal

CONSTANTS
  Claims,      \* the positions a caller may construct a machine at by hand
  MaxEntries,  \* bound: length of the journal
  MaxByHand    \* bound: the same when machines are constructed by hand

ASSUME MachineAssumption ==
  /\ Claims \subseteq State
  /\ MaxEntries \in Nat
  /\ MaxByHand \in Nat

VARIABLES
  byHand,    \* callers construct machines at claimed positions (never changes)
  up,        \* a process holds the machine
  state,     \* machine.state
  pinned,    \* machine.preregistration_sha256
  entries,   \* machine.entries
  disk       \* entries of the journal file, << >> while there is no file

vars == <<byHand, up, state, pinned, entries, disk>>

TypeOK ==
  /\ byHand \in BOOLEAN
  /\ up \in BOOLEAN
  /\ state \in State
  /\ pinned \in MaybeDigest
  /\ entries \in Seq(Entry)
  /\ disk \in Seq(Entry)

Init ==
  /\ byHand \in BOOLEAN
  /\ up = FALSE
  /\ state = "DRAFT"
  /\ pinned = NoDigest
  /\ entries = << >>
  /\ disk = << >>

-----------------------------------------------------------------------------
(* Processes come and go.                                                  *)

\* replay_journal on the file, or a new machine when there is no file.
Restart ==
  /\ ~up
  /\ ReplayAccepts(disk)
  /\ up' = TRUE
  /\ state' = ReplayState(disk)
  /\ pinned' = NoDigest
  /\ entries' = disk
  /\ UNCHANGED <<byHand, disk>>

\* Mutant: the adopted machine is not given the entries on disk.
AdoptWithoutEntries(lockStatus, armed, pin) ==
  /\ ~up
  /\ byHand
  /\ lockStatus \in Claims
  /\ LockStatusReadable(lockStatus, armed)
  /\ up' = TRUE
  /\ state' = lockStatus
  /\ pinned' = pin
  /\ entries' = << >>
  /\ UNCHANGED <<byHand, disk>>

\* The constructor called with the position a generation record claims.  The
\* entries it is given must equal those on disk; its state is not compared.
Adopt(lockStatus, armed, pin) ==
  /\ ~up
  /\ byHand
  /\ lockStatus \in Claims
  /\ LockStatusReadable(lockStatus, armed)
  /\ up' = TRUE
  /\ state' = lockStatus
  /\ pinned' = pin
  /\ entries' = disk
  /\ UNCHANGED <<byHand, disk>>

Crash ==
  /\ up
  /\ up' = FALSE
  /\ state' = "DRAFT"
  /\ pinned' = NoDigest
  /\ entries' = << >>
  /\ UNCHANGED <<byHand, disk>>

-----------------------------------------------------------------------------
(* Journal plumbing.  "wrote" is FALSE when writing or renaming the        *)
(* temporary file raises: memory has moved, the file has not.              *)

HasRoom == Len(entries) < IF byHand THEN MaxByHand ELSE MaxEntries

\* Mutant: appends to what is on disk, without the entries not yet written.
RecordOnDisk(entry, wrote) ==
  /\ HasRoom
  /\ entries' = Append(disk, entry)
  /\ disk' = IF wrote THEN entries' ELSE disk
  /\ UNCHANGED byHand

Record(entry, wrote) ==
  /\ HasRoom
  /\ entries' = Append(entries, entry)
  /\ disk' = IF wrote THEN entries' ELSE disk
  /\ UNCHANGED byHand

Advance(target, proof, wrote) ==
  /\ up
  /\ <<state, target>> \in TRANSITIONS
  /\ state' = target
  /\ Record(TransitionEntry(state, target, proof, NoDigest), wrote)
  /\ UNCHANGED up

AttachInfrastructureFailure(wrote) ==
  /\ up
  /\ Record(FailureEntry(state), wrote)
  /\ UNCHANGED <<up, state, pinned>>

-----------------------------------------------------------------------------
(* Transitions, one action per target with its guard.                      *)

Preregister(ev, wrote) ==
  /\ GuardPreregistered(ev)
  /\ pinned' = ev
  /\ Advance("PREREGISTERED", ev, wrote)

Arm(ev, attested, wrote) ==
  /\ GuardArmed(ev, attested, pinned)
  /\ Advance("ARMED", ev, wrote)
  /\ UNCHANGED pinned

StartRunning(ev, parsed, tree, bytes, wrote) ==
  /\ GuardRunning(ev, parsed, tree, bytes)
  /\ Advance("RUNNING", ev, wrote)
  /\ UNCHANGED pinned

SealEvidence(ev, actual, wrote) ==
  /\ GuardEvidenceSealed(ev, actual)
  /\ Advance("EVIDENCE_SEALED", ev, wrote)
  /\ UNCHANGED pinned

Close(ev, kind, hasOutcome, hasFailure, acceptable, bytes, wrote) ==
  /\ GuardClosed(ev, kind, hasOutcome, hasFailure, acceptable, bytes)
  /\ Advance("CLOSED", ev, wrote)
  /\ UNCHANGED pinned

Publish(ev, verifies, wrote) ==
  /\ GuardPublished(ev, verifies)
  /\ Advance("PUBLISHED", ev, wrote)
  /\ UNCHANGED pinned

-----------------------------------------------------------------------------
Kind == {"decision_region", "infrastructure_failure"}

Next ==
  \/ Restart
  \/ Crash
  \/ \E s \in Claims, armed \in ArmedField, pin \in MaybeDigest : Adopt(s, armed, pin)
  \/ \E wrote \in BOOLEAN :
       \/ AttachInfrastructureFailure(wrote)
       \/ \E ev \in MaybeDigest : Preregister(ev, wrote)
       \/ \E ev \in MaybeDigest, attested \in BOOLEAN : Arm(ev, attested, wrote)
       \/ \E ev, parsed, tree \in MaybeDigest, bytes \in Digest :
            StartRunning(ev, parsed, tree, bytes, wrote)
       \/ \E ev, actual \in MaybeDigest : SealEvidence(ev, actual, wrote)
       \/ \E ev \in MaybeDigest, kind \in Kind, o, f, ok \in BOOLEAN, bytes \in Digest :
            Close(ev, kind, o, f, ok, bytes, wrote)
       \/ \E ev \in MaybeDigest, verifies \in BOOLEAN : Publish(ev, verifies, wrote)

Spec == Init /\ [][Next]_vars

-----------------------------------------------------------------------------
(* Safety.                                                                 *)

\* Whatever was written, a later process can replay it, and the journal in
\* memory replays to the very state the machine is in, unless callers construct
\* machines at a claimed position.
JournalReplays == ~byHand =>
  /\ ReplayAccepts(disk)
  /\ up => /\ ReplayAccepts(entries)
           /\ ReplayState(entries) = state

\* The preregistration that was armed is the one that was preregistered, in
\* memory and on disk, whichever processes wrote the two entries.
NoDriftIn(journal) ==
  \A i, k \in 1 .. Len(journal) :
    /\ journal[i].event = "transition" /\ journal[i].to = "PREREGISTERED"
    /\ journal[k].event = "transition" /\ journal[k].to = "ARMED"
    => journal[i].guard_proof = journal[k].guard_proof

NoPreregistrationDrift == ~byHand => NoDriftIn(entries) /\ NoDriftIn(disk)

\* Fail closed across a restart: once the process is gone and the file says
\* PREREGISTERED, no process can ever take the experiment further, because
\* the pinned digest cannot be recovered from the journal.
LostPinNeverArms ==
  [](~byHand /\ ~up /\ ReplayState(disk) = "PREREGISTERED"
       => [](ReplayState(disk) = "PREREGISTERED"))

\* The journal file only ever grows, by whole entries, whatever position a
\* process was constructed at.
JournalAppendOnly ==
  [][/\ Len(disk') > Len(disk)
     /\ \A i \in 1 .. Len(disk) : disk'[i] = disk[i]]_disk

=============================================================================
