-------------------------- MODULE LifecycleJournal --------------------------
(***************************************************************************)
(* The vocabulary of the experiment lifecycle: the states, the only legal  *)
(* transitions, the guards, the entries of the journal and the replay of a *)
(* journal (certification/experiment_state_machine.py).                    *)
(*                                                                         *)
(* A sha256 is a model value: equal digests mean equal bytes.  The digest  *)
(* of a document, a manifest or an artifact stands for its content, and    *)
(* the guard_proof of an entry for the one digest its evidence pins.       *)
(***************************************************************************)
EXTENDS Naturals, Sequences

CONSTANTS
  Digest,    \* the sha256 values that occur
  NoDigest   \* an absent or malformed digest, an absent file

ASSUME DigestAssumption == NoDigest \notin Digest

MaybeDigest == Digest \cup {NoDigest}

State == {"DRAFT", "PREREGISTERED", "ARMED", "RUNNING", "EVIDENCE_SEALED",
          "CLOSED", "PUBLISHED"}

TRANSITIONS == { <<"DRAFT", "PREREGISTERED">>,
                 <<"PREREGISTERED", "ARMED">>,
                 <<"ARMED", "RUNNING">>,
                 <<"RUNNING", "EVIDENCE_SEALED">>,
                 <<"EVIDENCE_SEALED", "CLOSED">>,
                 <<"CLOSED", "PUBLISHED">> }

-----------------------------------------------------------------------------
(* Journal entries.  The "detail" is free text; what matters of it is the  *)
(* manifest that a CTM adapter names in it.                                *)

Event == {"transition", "infrastructure_failure"}

Entry == [event       : Event,
          from        : State,
          to          : State,
          guard_proof : MaybeDigest,
          detail      : MaybeDigest]

TransitionEntry(s, t, proof, detail) ==
  [event |-> "transition", from |-> s, to |-> t,
   guard_proof |-> proof, detail |-> detail]

FailureEntry(s) ==
  [event |-> "infrastructure_failure", from |-> s, to |-> s,
   guard_proof |-> NoDigest, detail |-> NoDigest]

-----------------------------------------------------------------------------
(* Replay.  A failure entry carries its attached_at_state in both fields,  *)
(* so the state after a prefix is the "to" of its last entry.  The list    *)
(* machine.failures is the failure entries of the journal, in order: both  *)
(* grow in the same calls, and no guard reads it.                          *)

ReplayStepOK(s, e) ==
  /\ e.from = s
  /\ \/ e.event = "infrastructure_failure"
     \/ /\ e.event = "transition"
        /\ <<s, e.to>> \in TRANSITIONS
        /\ e.guard_proof \in Digest

StateBefore(journal, i) == IF i = 1 THEN "DRAFT" ELSE journal[i - 1].to

ReplayAccepts(journal) ==
  \A i \in 1 .. Len(journal) : ReplayStepOK(StateBefore(journal, i), journal[i])

ReplayState(journal) ==
  IF journal = << >> THEN "DRAFT" ELSE journal[Len(journal)].to

-----------------------------------------------------------------------------
(* Guards.  "ev" is the digest the caller's GuardEvidence pins for this    *)
(* transition, the other arguments are what the guard reads.               *)

GuardPreregistered(ev) == ev \in Digest

\* Mutant: nothing pinned, nothing to compare with.
GuardArmedUnpinned(ev, attested, pinned) ==
  /\ attested
  /\ ev \in Digest
  /\ pinned \in Digest => ev = pinned

GuardArmed(ev, attested, pinned) ==
  /\ attested
  /\ ev \in Digest
  /\ pinned \in Digest
  /\ ev = pinned

\* The manifest is parsed, every listed file is hashed (the tree verifies
\* when it is the one the parsed manifest lists), and the manifest is read
\* again for the comparison with the evidence.
GuardRunning(ev, parsed, tree, bytes) ==
  /\ parsed \in Digest
  /\ tree = parsed
  /\ ev = bytes

GuardEvidenceSealed(ev, actual) ==
  /\ actual \in Digest
  /\ ev = actual

\* Exactly one closure artifact is on disk; its parsed content is acceptable
\* for its kind, and the bytes read afterwards are those the evidence pins.
GuardClosed(ev, kind, hasOutcome, hasFailure, acceptable, bytes) ==
  /\ hasOutcome # hasFailure
  /\ kind = (IF hasOutcome THEN "decision_region" ELSE "infrastructure_failure")
  /\ acceptable
  /\ ev = bytes

\* verify_release must pass; the pinned digest only has to be a digest.
GuardPublished(ev, releaseVerifies) ==
  /\ releaseVerifies
  /\ ev \in Digest

-----------------------------------------------------------------------------
(* state_for_lock_status: the position a generation record claims.         *)

ArmedField == {"true", "false", "absent"}

LockStatusReadable(lockStatus, armed) ==
  lockStatus \in {"DRAFT", "PREREGISTERED"} \/ armed = "true"
=============================================================================
