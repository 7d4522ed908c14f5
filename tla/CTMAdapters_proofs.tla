-------------------------- MODULE CTMAdapters_proofs --------------------------
(***************************************************************************)
(* Proofs about CTMAdapters, for any adapters, digests and lengths of the  *)
(* journals, however many adapters are inside start() at once.             *)
(***************************************************************************)
EXTENDS CTMAdapters, TLAPS

-----------------------------------------------------------------------------
(* Types.                                                                  *)

LEMMA EntryTypes ==
  /\ \A s \in State : FailureEntry(s) \in Entry
  /\ \A ev, m \in MaybeDigest : TransitionEntry("DRAFT", "PREREGISTERED", ev, m) \in Entry
BY DEF FailureEntry, TransitionEntry, Entry, Event, State, MaybeDigest

LEMMA ReplayType == ASSUME NEW j \in Seq(Entry) PROVE ReplayState(j) \in State
<1>1. CASE j = << >>
  BY <1>1 DEF ReplayState, State
<1>2. CASE j # << >>
  <2>1. Len(j) \in 1 .. Len(j)
    BY <1>2
  <2>2. j[Len(j)] \in Entry
    BY <2>1
  <2>3. QED
    BY <1>2, <2>2 DEF ReplayState, Entry
<1>3. QED
  BY <1>1, <1>2

LEMMA AppendType ==
  ASSUME TypeOK, NEW a \in Adapters, NEW e \in Entry, NEW s \in State, NEW p \in MaybeDigest,
         AppendEntry(a, e, s, p)
  PROVE  machine' \in [Adapters -> Machine] /\ tmpFile' \in Seq(Entry)
<1>1. Append(machine[a].entries, e) \in Seq(Entry)
  BY DEF TypeOK, Machine
<1>2. [state |-> s, pinned |-> p, entries |-> Append(machine[a].entries, e)] \in Machine
  BY <1>1 DEF Machine
<1>3. QED
  BY <1>1, <1>2 DEF AppendEntry, TypeOK

\* An adapter inside a call that was given a manifest still has it.
Presented == \A a \in Adapters : pc[a] \in {"locking", "unpinned", "checked"} => presented[a] \in Digest

TypeInv == TypeOK /\ Presented

LEMMA TypeStep == ASSUME TypeInv, [Next]_vars PROVE TypeInv'
<1> USE DEF TypeInv, TypeOK, Presented, Goto, PC, directory
<1>1. ASSUME NEW a \in Adapters, Construct(a) PROVE TypeInv'
  <2>1. [state |-> ReplayState(journalFile), pinned |-> NoDigest, entries |-> journalFile] \in Machine
    BY ReplayType DEF Machine, MaybeDigest
  <2>2. QED
    BY <1>1, <2>1 DEF Construct
<1>2. ASSUME NEW a \in Adapters, NEW m \in Digest, Start(a, m) \/ VerifyLock(a, m) PROVE TypeInv'
  <2>1. presented' = [presented EXCEPT ![a] = m] /\ m \in MaybeDigest /\ UNCHANGED <<directory, machine>>
    BY <1>2 DEF Start, VerifyLock, MaybeDigest
  <2>2. pc' \in [Adapters -> PC] /\ \A b \in Adapters \ {a} : pc'[b] = pc[b]
    BY <1>2 DEF Start, VerifyLock
  <2>3. QED
    BY <2>1, <2>2
<1>3. ASSUME NEW a \in Adapters, WriteManifest(a) PROVE TypeInv'
  BY <1>3 DEF WriteManifest, FileContent
<1>4. ASSUME NEW a \in Adapters, WriteLock(a) PROVE TypeInv'
  BY <1>4 DEF WriteLock, FileContent
<1>5. ASSUME NEW a \in Adapters, NEW ev \in MaybeDigest, Preregister(a, ev) PROVE TypeInv'
  <2>1. TransitionEntry("DRAFT", "PREREGISTERED", ev, presented[a]) \in Entry /\ "PREREGISTERED" \in State
    BY EntryTypes DEF State
  <2>2. machine' \in [Adapters -> Machine] /\ tmpFile' \in Seq(Entry)
    BY <1>5, <2>1, AppendType DEF Preregister
  <2>3. QED
    BY <1>5, <2>2 DEF Preregister, AppendEntry
<1>6. ASSUME NEW a \in Adapters, AttachFailure(a) PROVE TypeInv'
  <2>1. machine[a].state \in State /\ machine[a].pinned \in MaybeDigest
    BY DEF Machine
  <2>2. machine' \in [Adapters -> Machine] /\ tmpFile' \in Seq(Entry)
    BY <1>6, <2>1, EntryTypes, AppendType DEF AttachFailure
  <2>3. QED
    BY <1>6, <2>2 DEF AttachFailure, AppendEntry
<1>7. ASSUME NEW a \in Adapters, Refuse(a) PROVE TypeInv'
  BY <1>7 DEF Refuse
<1>8. ASSUME NEW a \in Adapters, ReplaceJournal(a) PROVE TypeInv'
  <2>1. journalFile' \in {journalFile, tmpFile} /\ tmpFile' \in {tmpFile, << >>}
    BY <1>8 DEF ReplaceJournal, NoJournal
  <2>2. << >> \in Seq(Entry)
    OBVIOUS
  <2>3. journalFile' \in Seq(Entry) /\ tmpFile' \in Seq(Entry)
    BY <2>1, <2>2
  <2>4. QED
    BY <1>8, <2>3 DEF ReplaceJournal
<1>9. ASSUME NEW a \in Adapters, Crash(a) PROVE TypeInv'
  <2>1. NewMachine \in Machine /\ NoDigest \in MaybeDigest
    BY DEF NewMachine, Machine, State, MaybeDigest
  <2>2. manifestFile' \in FileContent /\ lockFile' \in FileContent
    BY <1>9 DEF Crash, FileContent
  <2>3. QED
    BY <1>9, <2>1, <2>2 DEF Crash
<1>10. CASE UNCHANGED vars
  BY <1>10 DEF vars
<1>11. QED
  BY <1>1, <1>2, <1>3, <1>4, <1>5, <1>6, <1>7, <1>8, <1>9, <1>10 DEF Next

LEMMA TypeInvariant == Spec => []TypeInv
<1>1. Init => TypeInv
  BY DEF Init, TypeInv, TypeOK, Presented, FileContent, NoFile, NoJournal, MaybeDigest, PC, Machine, NewMachine, State
<1>2. QED
  BY <1>1, TypeStep, PTL DEF Spec

\* Types of the directory, the adapters and their machines (CTMExperimentAdapter).
THEOREM TypeCorrect == Spec => []TypeOK
BY TypeInvariant, PTL DEF TypeInv

-----------------------------------------------------------------------------
(* What the lock shuts out.                                                *)

\* No entry of the journal preregisters m.
Free(j, m) ==
  \A i \in 1 .. Len(j) :
    j[i].event = "transition" /\ j[i].to = "PREREGISTERED" => j[i].detail # m

AllFree(m) ==
  /\ Free(journalFile, m)
  /\ Free(tmpFile, m)
  /\ \A a \in Adapters : Free(machine[a].entries, m)

\* There is a lock and nobody is in start() any more; what verify_lock found is
\* still so; and m is not the manifest that lock and directory agree on.
Shut(m) ==
  /\ lockFile # NoFile
  /\ \A a \in Adapters : pc[a] \notin {"locking", "unpinned"}
  /\ \A a \in Adapters : pc[a] = "checked" => manifestFile = lockFile
  /\ ~(lockFile = m /\ manifestFile = m)
  /\ AllFree(m)

LEMMA FreeIsAbsent == ASSUME NEW m PROVE AllFree(m) <=> m \notin Preregistered
<1>1. \A j : Free(j, m) <=> m \notin Preregistrations(j)
  BY DEF Free, Preregistrations
<1>2. QED
  BY <1>1 DEF AllFree, Preregistered

LEMMA FreeAppend ==
  ASSUME NEW m, NEW j \in Seq(Entry), NEW e \in Entry, Free(j, m),
         e.event = "transition" /\ e.to = "PREREGISTERED" => e.detail # m
  PROVE  Free(Append(j, e), m)
BY DEF Free

\* An entry that preregisters something else, or nothing, keeps m out.
LEMMA AppendKeepsFree ==
  ASSUME TypeInv, NEW m, AllFree(m), NEW a \in Adapters, NEW e \in Entry, NEW s, NEW p,
         AppendEntry(a, e, s, p),
         e.event = "transition" /\ e.to = "PREREGISTERED" => e.detail # m
  PROVE  AllFree(m)'
<1>1. machine[a].entries \in Seq(Entry)
  BY DEF TypeInv, TypeOK, Machine
<1>2. Free(Append(machine[a].entries, e), m)
  BY <1>1, FreeAppend DEF AllFree
<1>3. /\ tmpFile' = Append(machine[a].entries, e) /\ UNCHANGED journalFile
      /\ machine'[a].entries = Append(machine[a].entries, e)
      /\ \A b \in Adapters : b # a => machine'[b] = machine[b]
  BY DEF AppendEntry, TypeInv, TypeOK
<1>4. QED
  BY <1>2, <1>3 DEF AllFree, Free

LEMMA ShutStep == ASSUME TypeInv, NEW m, Shut(m), [Next]_vars PROVE Shut(m)'
<1> USE DEF TypeInv, TypeOK, Goto, directory
<1>1. ASSUME NEW a \in Adapters, Construct(a) PROVE Shut(m)'
  <2>1. machine'[a].entries = journalFile /\ \A b \in Adapters : b # a => machine'[b] = machine[b]
    BY <1>1 DEF Construct
  <2>2. AllFree(m)'
    BY <1>1, <2>1 DEF Construct, Shut, AllFree, Free
  <2>3. QED
    BY <1>1, <2>2 DEF Construct, Shut
<1>2. ASSUME NEW a \in Adapters, NEW n \in Digest, Start(a, n) PROVE FALSE
  BY <1>2 DEF Start, Shut
<1>3. ASSUME NEW a \in Adapters, WriteManifest(a) \/ WriteLock(a) PROVE FALSE
  BY <1>3 DEF WriteManifest, WriteLock, Shut
<1>4. ASSUME NEW a \in Adapters, NEW n \in Digest, VerifyLock(a, n) PROVE Shut(m)'
  BY <1>4 DEF VerifyLock, Shut, AllFree, Free
<1>5. ASSUME NEW a \in Adapters, NEW ev \in MaybeDigest, Preregister(a, ev) PROVE Shut(m)'
  <2> DEFINE e == TransitionEntry("DRAFT", "PREREGISTERED", ev, presented[a])
  <2>1. presented[a] # m
    BY <1>5 DEF Preregister, Shut
  <2>2. e \in Entry /\ e.detail = presented[a]
    BY EntryTypes DEF TransitionEntry
  <2>3. AppendEntry(a, e, "PREREGISTERED", ev)
    BY <1>5 DEF Preregister
  <2> HIDE DEF e
  <2>4. AllFree(m)'
    BY <2>1, <2>2, <2>3, AppendKeepsFree DEF Shut
  <2>5. QED
    BY <1>5, <2>4 DEF Preregister, AppendEntry, Shut
<1>6. ASSUME NEW a \in Adapters, AttachFailure(a) PROVE Shut(m)'
  <2> DEFINE e == FailureEntry(machine[a].state)
  <2>1. e \in Entry /\ e.event # "transition"
    BY EntryTypes DEF Machine, FailureEntry
  <2>2. AppendEntry(a, e, machine[a].state, machine[a].pinned)
    BY <1>6 DEF AttachFailure
  <2> HIDE DEF e
  <2>3. AllFree(m)'
    BY <2>1, <2>2, AppendKeepsFree DEF Shut
  <2>4. QED
    BY <1>6, <2>3 DEF AttachFailure, AppendEntry, Shut
<1>7. ASSUME NEW a \in Adapters, Refuse(a) PROVE Shut(m)'
  BY <1>7 DEF Refuse, Shut, AllFree, Free
<1>8. ASSUME NEW a \in Adapters, ReplaceJournal(a) PROVE Shut(m)'
  <2>1. journalFile' \in {journalFile, tmpFile} /\ tmpFile' \in {tmpFile, << >>} /\ UNCHANGED machine
    BY <1>8 DEF ReplaceJournal, NoJournal
  <2>2. Free(<< >>, m)
    BY DEF Free
  <2>3. AllFree(m)'
    BY <2>1, <2>2 DEF Shut, AllFree, Free
  <2>4. QED
    BY <1>8, <2>3 DEF ReplaceJournal, Shut
<1>9. ASSUME NEW a \in Adapters, Crash(a) PROVE Shut(m)'
  <2>1. machine'[a].entries = << >> /\ \A b \in Adapters : b # a => machine'[b] = machine[b]
    BY <1>9 DEF Crash, NewMachine
  <2>2. AllFree(m)'
    BY <1>9, <2>1 DEF Crash, Shut, AllFree, Free
  <2>3. UNCHANGED <<manifestFile, lockFile>>
    BY <1>9 DEF Crash, Shut
  <2>4. QED
    BY <1>9, <2>2, <2>3 DEF Crash, Shut
<1>10. CASE UNCHANGED vars
  BY <1>10 DEF vars, Shut, AllFree, Free
<1>11. QED
  BY <1>1, <1>2, <1>3, <1>4, <1>5, <1>6, <1>7, <1>8, <1>9, <1>10 DEF Next

\* OnlyThePinnedFollows: whatever start() calls raced or died in lock_manifest,
\* once they are over no adapter and no journal brings in a preregistration but
\* of the manifest that the lock pins and the directory holds (verify_lock,
\* preregister).
THEOREM OnlyThePinned == Spec => OnlyThePinnedFollows
<1>1. ASSUME NEW m \in Digest
      PROVE  Spec => [](Settled /\ m \notin Preregistered /\ ~(lockFile = m /\ manifestFile = m)
                          => [](m \notin Preregistered))
  <2> DEFINE Before == Settled /\ m \notin Preregistered /\ ~(lockFile = m /\ manifestFile = m)
             Out == m \notin Preregistered
             In == Shut(m)
  <2>1. Before => In
    BY FreeIsAbsent DEF Settled, Shut
  <2>2. In => Out
    BY FreeIsAbsent DEF Shut
  <2>3. TypeInv /\ In /\ [Next]_vars => In'
    BY ShutStep
  <2> HIDE DEF Before, Out, In
  <2>4. Spec => [](Before => []Out)
    BY <2>1, <2>2, <2>3, TypeInvariant, PTL DEF Spec
  <2>5. QED
    BY <2>4 DEF Before, Out
<1>2. QED
  BY <1>1 DEF OnlyThePinnedFollows
=============================================================================
