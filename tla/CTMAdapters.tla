----------------------------- MODULE CTMAdapters -----------------------------
(***************************************************************************)
(* CTM experiment adapters over one experiment directory (ctm/manifests.py *)
(* on certification/experiment_state_machine.py).  Every adapter lives in  *)
(* a process of its own and holds a lifecycle machine replayed from        *)
(* journal.json when it was constructed; the directory holds the manifest, *)
(* its lock, the journal and the journal's temporary file.  No file is     *)
(* guarded by an inter-process lock, and processes may die at any step.    *)
(*                                                                         *)
(* A manifest is named by its sha256, so a manifest file, the digest the   *)
(* lock pins and the digest an adapter compares with are one value.  The   *)
(* temporary file is written in one step: what two processes make of it by *)
(* writing it at the same moment is not modelled, only that the name is    *)
(* shared and that the last one to write it decides.                       *)
(***************************************************************************)
EXTENDS LifecycleJournal

CONSTANTS
  Adapters,    \* adapter processes
  Torn,        \* a file cut short by a crash in the middle of its write
  MaxEntries   \* bound: length of a journal

ASSUME AdapterAssumption ==
  /\ Torn \notin MaybeDigest
  /\ MaxEntries \in Nat

FileContent == MaybeDigest \cup {Torn}
NoFile == NoDigest
NoJournal == << >>

VARIABLES
  manifestFile,  \* manifest.json
  lockFile,      \* manifest.lock: the digest it pins
  journalFile,   \* journal.json: its entries
  tmpFile,       \* journal.tmp: its entries
  pc,            \* where each adapter is in its call
  machine,       \* the wrapped lifecycle machine
  presented      \* the manifest the adapter's caller passed

directory == <<manifestFile, lockFile, journalFile, tmpFile>>
vars == <<manifestFile, lockFile, journalFile, tmpFile, pc, machine, presented>>

\* "locking": found no lock; "unpinned": wrote the manifest, not the lock;
\* "checked": verify_lock passed; "mirroring": the temporary file is written.
PC == {"down", "idle", "locking", "unpinned", "checked", "mirroring"}

Machine == [state : State, pinned : MaybeDigest, entries : Seq(Entry)]

NewMachine == [state |-> "DRAFT", pinned |-> NoDigest, entries |-> << >>]

TypeOK ==
  /\ manifestFile \in FileContent
  /\ lockFile \in FileContent
  /\ journalFile \in Seq(Entry)
  /\ tmpFile \in Seq(Entry)
  /\ pc \in [Adapters -> PC]
  /\ machine \in [Adapters -> Machine]
  /\ presented \in [Adapters -> MaybeDigest]

Init ==
  /\ manifestFile = NoFile
  /\ lockFile = NoFile
  /\ journalFile = NoJournal
  /\ tmpFile = NoJournal
  /\ pc = [a \in Adapters |-> "down"]
  /\ machine = [a \in Adapters |-> NewMachine]
  /\ presented = [a \in Adapters |-> NoDigest]

Goto(a, from, to) ==
  /\ pc[a] = from
  /\ pc' = [pc EXCEPT ![a] = to]

-----------------------------------------------------------------------------
\* __init__: the machine is replayed from the journal, or new without one.
Construct(a) ==
  /\ ReplayAccepts(journalFile)
  /\ Goto(a, "down", "idle")
  /\ machine' = [machine EXCEPT ![a] =
       [state |-> ReplayState(journalFile), pinned |-> NoDigest, entries |-> journalFile]]
  /\ UNCHANGED <<directory, presented>>

\* start(): lock_manifest finds no lock file.  With a lock it returns it or
\* raises, and changes nothing.
Start(a, m) ==
  /\ machine[a].state = "DRAFT"
  /\ lockFile = NoFile
  /\ Goto(a, "idle", "locking")
  /\ presented' = [presented EXCEPT ![a] = m]
  /\ UNCHANGED <<directory, machine>>

WriteManifest(a) ==
  /\ Goto(a, "locking", "unpinned")
  /\ manifestFile' = presented[a]
  /\ UNCHANGED <<lockFile, journalFile, tmpFile, machine, presented>>

WriteLock(a) ==
  /\ Goto(a, "unpinned", "idle")
  /\ lockFile' = presented[a]
  /\ UNCHANGED <<manifestFile, journalFile, tmpFile, machine, presented>>

\* Mutant: the lock only has to exist.
VerifyLockExists(a, m) ==
  /\ lockFile # NoFile
  /\ Goto(a, "idle", "checked")
  /\ presented' = [presented EXCEPT ![a] = m]
  /\ UNCHANGED <<directory, machine>>

\* preregister(): verify_lock reads the lock and the manifest...
VerifyLock(a, m) ==
  /\ lockFile \in Digest
  /\ manifestFile = lockFile
  /\ Goto(a, "idle", "checked")
  /\ presented' = [presented EXCEPT ![a] = m]
  /\ UNCHANGED <<directory, machine>>

\* The machine's half of an append: memory moves, the temporary file is
\* written, the rename is still to come.
AppendEntry(a, entry, state, pinned) ==
  /\ Len(machine[a].entries) < MaxEntries
  /\ LET grown == Append(machine[a].entries, entry)
     IN  /\ machine' = [machine EXCEPT ![a] =
              [state |-> state, pinned |-> pinned, entries |-> grown]]
         /\ tmpFile' = grown
  /\ UNCHANGED <<manifestFile, lockFile, journalFile, presented>>

\* ... then the manifest is read again and compared with the presented one,
\* and the machine takes the transition.
Preregister(a, ev) ==
  /\ manifestFile = presented[a]
  /\ machine[a].state = "DRAFT"
  /\ GuardPreregistered(ev)
  /\ Goto(a, "checked", "mirroring")
  /\ AppendEntry(a, TransitionEntry("DRAFT", "PREREGISTERED", ev, presented[a]), "PREREGISTERED", ev)

\* A check that fails raises out of preregister().
Refuse(a) ==
  /\ manifestFile # presented[a] \/ machine[a].state # "DRAFT"
  /\ Goto(a, "checked", "idle")
  /\ UNCHANGED <<directory, machine, presented>>

AttachFailure(a) ==
  /\ Goto(a, "idle", "mirroring")
  /\ AppendEntry(a, FailureEntry(machine[a].state), machine[a].state, machine[a].pinned)

\* The rename publishes whatever the temporary file holds; it raises when
\* another process has renamed it away.
ReplaceJournal(a) ==
  /\ Goto(a, "mirroring", "idle")
  /\ \/ /\ tmpFile # NoJournal
        /\ journalFile' = tmpFile
        /\ tmpFile' = NoJournal
     \/ /\ tmpFile = NoJournal
        /\ UNCHANGED <<journalFile, tmpFile>>
  /\ UNCHANGED <<manifestFile, lockFile, machine, presented>>

\* The process dies; the file it was about to write may be left cut short.
Crash(a) ==
  /\ pc[a] # "down"
  /\ pc' = [pc EXCEPT ![a] = "down"]
  /\ machine' = [machine EXCEPT ![a] = NewMachine]
  /\ presented' = [presented EXCEPT ![a] = NoDigest]
  /\ \/ UNCHANGED <<manifestFile, lockFile>>
     \/ /\ pc[a] = "locking"
        /\ manifestFile' = Torn
        /\ UNCHANGED lockFile
     \/ /\ pc[a] = "unpinned"
        /\ lockFile' = Torn
        /\ UNCHANGED manifestFile
  /\ UNCHANGED <<journalFile, tmpFile>>

Next == \E a \in Adapters :
  \/ Construct(a)
  \/ \E m \in Digest : Start(a, m)
  \/ WriteManifest(a)
  \/ WriteLock(a)
  \/ \E m \in Digest : VerifyLock(a, m)
  \/ \E ev \in MaybeDigest : Preregister(a, ev)
  \/ Refuse(a)
  \/ AttachFailure(a)
  \/ ReplaceJournal(a)
  \/ Crash(a)

Spec == Init /\ [][Next]_vars

-----------------------------------------------------------------------------
(* Safety.                                                                 *)

Preregistrations(j) ==
  {j[i].detail : i \in {k \in 1 .. Len(j) : j[k].event = "transition" /\ j[k].to = "PREREGISTERED"}}

\* The manifests that some journal, in memory or in either file, preregisters.
Preregistered ==
  Preregistrations(journalFile) \cup Preregistrations(tmpFile)
    \cup UNION {Preregistrations(machine[a].entries) : a \in Adapters}

\* A lock is there, and no call is under way that looked at it before now.
Settled ==
  /\ lockFile # NoFile
  /\ \A a \in Adapters : pc[a] \notin {"locking", "unpinned", "checked"}

\* However many start() calls raced or died in lock_manifest, once they are over
\* the lock decides for good: a manifest which is not both the one that the lock
\* pins and the one on disk is never preregistered from then on, by any adapter,
\* nor by a journal that a process left behind.
OnlyThePinnedFollows ==
  \A m \in Digest :
    [](Settled /\ m \notin Preregistered /\ ~(lockFile = m /\ manifestFile = m)
         => [](m \notin Preregistered))

=============================================================================
