-------------------- MODULE ExperimentStateMachine_proofs --------------------
(***************************************************************************)
(* Proofs about ExperimentStateMachine for every set of digests and every  *)
(* length of the journal.  What the machine guarantees on its own holds of *)
(* machines constructed as the code of the repository constructs them (a   *)
(* new one or a replay: ~byHand).                                          *)
(*                                                                         *)
(* What is inductive is the order of the journal: each entry continues the *)
(* one before, so the lifecycle rank never falls along it, and a machine   *)
(* still in DRAFT can have journaled neither of the entries that might     *)
(* disagree.  The pin of a live machine, when it has one, is the digest of *)
(* the one entry that preregistered the experiment.                        *)
(***************************************************************************)
EXTENDS ExperimentStateMachine, JournalChain, Integers, SequenceTheorems, TLAPS

\* The position of a state in the lifecycle.
Rank == [s \in State |->
  IF s = "DRAFT" THEN 1 ELSE IF s = "PREREGISTERED" THEN 2
  ELSE IF s = "ARMED" THEN 3 ELSE IF s = "RUNNING" THEN 4
  ELSE IF s = "EVIDENCE_SEALED" THEN 5 ELSE IF s = "CLOSED" THEN 6 ELSE 7]

\* The lifecycle rank never falls along a journal.
Ascending(journal) ==
  \A i, k \in 1 .. Len(journal) : i <= k => Rank[journal[i].to] <= Rank[journal[k].to]

\* Every entry that preregistered the experiment pins this digest.
PinnedAs(journal, pin) ==
  \A i \in 1 .. Len(journal) :
    journal[i].event = "transition" /\ journal[i].to = "PREREGISTERED"
      => journal[i].guard_proof = pin

SoundJournal(journal) ==
  /\ ReplayAccepts(journal)
  /\ Ascending(journal)
  /\ NoDriftIn(journal)

Inv ==
  /\ TypeOK
  /\ SoundJournal(disk)
  /\ SoundJournal(entries)
  /\ up => ReplayState(entries) = state
  /\ pinned # NoDigest => PinnedAs(entries, pinned)

-----------------------------------------------------------------------------
(* Every step keeps the types, machines adopted by hand included.          *)

\* A legal transition starts and ends in lifecycle states, one rank apart.
LEMMA RankOfTransition ==
  ASSUME NEW s \in State, NEW t, <<s, t>> \in TRANSITIONS
  PROVE  t \in State /\ Rank[s] \in Nat /\ Rank[t] = Rank[s] + 1
  BY DEF TRANSITIONS, State, Rank

\* Ranks are numbers, and only DRAFT has the lowest.
LEMMA RankIsNat ==
  ASSUME NEW s \in State
  PROVE  /\ Rank[s] \in Nat
         /\ Rank[s] <= Rank["DRAFT"] => s = "DRAFT"
  BY DEF State, Rank

\* The entries the machine makes are entries.
LEMMA EntryTypes ==
  ASSUME NEW s \in State, NEW t \in State, NEW p \in MaybeDigest, NEW v \in MaybeDigest
  PROVE  /\ TransitionEntry(s, t, p, v) \in Entry
         /\ FailureEntry(s) \in Entry
  BY DEF TransitionEntry, FailureEntry, Entry, Event, MaybeDigest

\* The state a typed journal replays to is a lifecycle state.
LEMMA ReplayStateType ==
  ASSUME NEW j \in Seq(Entry)
  PROVE  ReplayState(j) \in State
  <1>1. CASE j = << >>
    BY <1>1 DEF ReplayState, State
  <1>2. CASE j # << >>
    <2>1. Len(j) \in 1 .. Len(j)
      BY <1>2
    <2>2. j[Len(j)] \in Entry
      BY <2>1
    <2>. QED BY <1>2, <2>2 DEF ReplayState, Entry
  <1>. QED BY <1>1, <1>2

\* Recording an entry keeps both copies of the journal typed.
LEMMA RecordTypes ==
  ASSUME TypeOK, NEW e \in Entry, NEW w \in BOOLEAN, Record(e, w)
  PROVE  entries' \in Seq(Entry) /\ disk' \in Seq(Entry) /\ byHand' = byHand
  BY DEF TypeOK, Record

\* A transition keeps the types, whatever digest it pins.
LEMMA AdvanceTypes ==
  ASSUME TypeOK, NEW t, NEW p \in MaybeDigest, NEW w \in BOOLEAN, Advance(t, p, w)
  PROVE  /\ up' \in BOOLEAN /\ state' \in State /\ entries' \in Seq(Entry) /\ disk' \in Seq(Entry)
         /\ byHand' = byHand
  <1>1. state \in State /\ t \in State
    BY RankOfTransition DEF TypeOK, Advance
  <1>2. TransitionEntry(state, t, p, NoDigest) \in Entry
    BY <1>1, EntryTypes DEF MaybeDigest
  <1>3. Record(TransitionEntry(state, t, p, NoDigest), w)
    BY DEF Advance
  <1>4. entries' \in Seq(Entry) /\ disk' \in Seq(Entry) /\ byHand' = byHand
    BY <1>2, <1>3, RecordTypes
  <1>5. up' = up /\ state' = t
    BY DEF Advance
  <1>. QED BY <1>1, <1>4, <1>5 DEF TypeOK

\* Every variable keeps its type, for every set of digests and every length
\* of the journal, and whatever position a caller constructs the machine at.
THEOREM TypeCorrect == Spec => []TypeOK
  <1>1. Init => TypeOK
    <2>1. << >> \in Seq(Entry)
      OBVIOUS
    <2>. QED BY <2>1 DEF Init, TypeOK, State, MaybeDigest
  <1>2. TypeOK /\ [Next]_vars => TypeOK'
    <2> SUFFICES ASSUME TypeOK, [Next]_vars PROVE TypeOK'
      OBVIOUS
    <2>1. CASE Restart
      BY <2>1, ReplayStateType DEF Restart, TypeOK, MaybeDigest
    <2>2. CASE Crash
      <3>1. << >> \in Seq(Entry)
        OBVIOUS
      <3>. QED BY <2>2, <3>1 DEF Crash, TypeOK, MaybeDigest, State
    <2>3. ASSUME NEW s \in Claims, NEW a \in ArmedField, NEW p \in MaybeDigest, Adopt(s, a, p)
          PROVE  TypeOK'
      BY <2>3, MachineAssumption DEF Adopt, TypeOK
    <2>4. ASSUME NEW w \in BOOLEAN, AttachInfrastructureFailure(w)
          PROVE  TypeOK'
      <3>1. FailureEntry(state) \in Entry
        BY EntryTypes DEF TypeOK, MaybeDigest
      <3>2. entries' \in Seq(Entry) /\ disk' \in Seq(Entry) /\ byHand' = byHand
        BY <2>4, <3>1, RecordTypes DEF AttachInfrastructureFailure
      <3>. QED BY <2>4, <3>2 DEF AttachInfrastructureFailure, TypeOK
    <2>5. ASSUME NEW w \in BOOLEAN, NEW ev \in MaybeDigest, Preregister(ev, w)
          PROVE  TypeOK'
      BY <2>5, AdvanceTypes DEF Preregister, TypeOK
    <2>6. ASSUME NEW w \in BOOLEAN, NEW ev \in MaybeDigest, NEW b \in BOOLEAN, Arm(ev, b, w)
          PROVE  TypeOK'
      BY <2>6, AdvanceTypes DEF Arm, TypeOK
    <2>7. ASSUME NEW w \in BOOLEAN, NEW ev \in MaybeDigest, NEW m \in MaybeDigest,
                 NEW tree \in MaybeDigest, NEW b \in Digest, StartRunning(ev, m, tree, b, w)
          PROVE  TypeOK'
      BY <2>7, AdvanceTypes DEF StartRunning, TypeOK
    <2>8. ASSUME NEW w \in BOOLEAN, NEW ev \in MaybeDigest, NEW a \in MaybeDigest, SealEvidence(ev, a, w)
          PROVE  TypeOK'
      BY <2>8, AdvanceTypes DEF SealEvidence, TypeOK
    <2>9. ASSUME NEW w \in BOOLEAN, NEW ev \in MaybeDigest, NEW k \in Kind, NEW o \in BOOLEAN,
                 NEW f \in BOOLEAN, NEW ok \in BOOLEAN, NEW b \in Digest,
                 Close(ev, k, o, f, ok, b, w)
          PROVE  TypeOK'
      BY <2>9, AdvanceTypes DEF Close, TypeOK
    <2>10. ASSUME NEW w \in BOOLEAN, NEW ev \in MaybeDigest, NEW ok \in BOOLEAN, Publish(ev, ok, w)
           PROVE  TypeOK'
      BY <2>10, AdvanceTypes DEF Publish, TypeOK
    <2>11. CASE UNCHANGED vars
      BY <2>11 DEF vars, TypeOK
    <2>. QED
      BY <2>1, <2>2, <2>3, <2>4, <2>5, <2>6, <2>7, <2>8, <2>9, <2>10, <2>11 DEF Next
  <1>. QED BY <1>1, <1>2, PTL DEF Spec

-----------------------------------------------------------------------------
(* The order of the journal.                                               *)

\* A journal continued by an entry that starts where it ends, and that does
\* not fall back, is legal and ascending again, and replays to that entry's
\* target.
LEMMA AppendKeepsOrder ==
  ASSUME NEW j \in Seq(Entry), ReplayAccepts(j), Ascending(j),
         NEW e \in Entry, ReplayStepOK(ReplayState(j), e),
         Rank[ReplayState(j)] <= Rank[e.to]
  PROVE  /\ ReplayAccepts(Append(j, e))
         /\ Ascending(Append(j, e))
         /\ ReplayState(Append(j, e)) = e.to
  <1> DEFINE J == Append(j, e)
  <1>1. /\ J \in Seq(Entry)
        /\ Len(J) = Len(j) + 1
        /\ \A i \in 1 .. Len(j) : J[i] = j[i]
        /\ J[Len(j) + 1] = e
        /\ Len(j) \in Nat
    OBVIOUS
  <1>2. \A i \in 1 .. Len(j) : j[i] \in Entry
    OBVIOUS
  <1>3. StateBefore(J, Len(j) + 1) = ReplayState(j)
    <2>1. CASE Len(j) = 0
      BY <2>1, j = << >> DEF StateBefore, ReplayState
    <2>2. CASE Len(j) # 0
      <3>1. j # << >> /\ Len(j) \in 1 .. Len(j) /\ Len(j) + 1 # 1 /\ (Len(j) + 1) - 1 = Len(j)
        BY <2>2, <1>1
      <3>. QED BY <3>1, <1>1 DEF StateBefore, ReplayState
    <2>. QED BY <2>1, <2>2
  <1>4. \A i \in 1 .. Len(j) : StateBefore(J, i) = StateBefore(j, i)
    <2> SUFFICES ASSUME NEW i \in 1 .. Len(j) PROVE StateBefore(J, i) = StateBefore(j, i)
      OBVIOUS
    <2>1. i # 1 => i - 1 \in 1 .. Len(j)
      BY <1>1
    <2>. QED BY <2>1, <1>1 DEF StateBefore
  <1>5. ReplayAccepts(J)
    <2> SUFFICES ASSUME NEW i \in 1 .. Len(J) PROVE ReplayStepOK(StateBefore(J, i), J[i])
      BY DEF ReplayAccepts
    <2>1. CASE i \in 1 .. Len(j)
      <3>1. ReplayStepOK(StateBefore(j, i), j[i])
        BY <2>1 DEF ReplayAccepts
      <3>. QED BY <3>1, <2>1, <1>1, <1>4
    <2>2. CASE i = Len(j) + 1
      BY <2>2, <1>1, <1>3
    <2>. QED BY <2>1, <2>2, <1>1
  <1>6. \A i \in 1 .. Len(j) : Rank[j[i].to] <= Rank[e.to]
    <2> SUFFICES ASSUME NEW i \in 1 .. Len(j) PROVE Rank[j[i].to] <= Rank[e.to]
      OBVIOUS
    <2>1. /\ Len(j) \in 1 .. Len(j) /\ i <= Len(j) /\ j # << >>
      BY <1>1
    <2>2. Rank[j[i].to] <= Rank[j[Len(j)].to]
      BY <2>1 DEF Ascending
    <2>3. ReplayState(j) = j[Len(j)].to
      BY <2>1 DEF ReplayState
    <2>4. j[i].to \in State /\ j[Len(j)].to \in State /\ e.to \in State
      BY <2>1, <1>2 DEF Entry
    <2>5. Rank[j[i].to] \in Nat /\ Rank[j[Len(j)].to] \in Nat /\ Rank[e.to] \in Nat
      BY <2>4, RankIsNat
    <2>. QED BY <2>2, <2>3, <2>5
  <1>7. Ascending(J)
    <2> SUFFICES ASSUME NEW i \in 1 .. Len(J), NEW k \in 1 .. Len(J), i <= k
                 PROVE  Rank[J[i].to] <= Rank[J[k].to]
      BY DEF Ascending
    <2>1. CASE k \in 1 .. Len(j)
      <3>1. i \in 1 .. Len(j)
        BY <2>1, <1>1
      <3>. QED BY <3>1, <2>1, <1>1 DEF Ascending
    <2>2. CASE k = Len(j) + 1 /\ i \in 1 .. Len(j)
      BY <2>2, <1>1, <1>6
    <2>3. CASE k = Len(j) + 1 /\ i = Len(j) + 1
      <3>1. e.to \in State
        BY DEF Entry
      <3>2. Rank[e.to] \in Nat
        BY <3>1, RankIsNat
      <3>. QED BY <2>3, <1>1, <3>2
    <2>. QED BY <2>1, <2>2, <2>3, <1>1
  <1>8. ReplayState(J) = e.to
    <2>1. J # << >>
      BY <1>1
    <2>. QED BY <2>1, <1>1 DEF ReplayState
  <1>. QED BY <1>5, <1>7, <1>8

\* The entries the machine makes continue the journal of a machine at s.
LEMMA MachineEntriesContinue ==
  ASSUME NEW s \in State
  PROVE  /\ ReplayStepOK(s, FailureEntry(s))
         /\ Rank[s] <= Rank[FailureEntry(s).to]
         /\ \A t, v : \A p \in Digest : <<s, t>> \in TRANSITIONS =>
              /\ ReplayStepOK(s, TransitionEntry(s, t, p, v))
              /\ Rank[s] <= Rank[TransitionEntry(s, t, p, v).to]
  <1>1. Rank[s] \in Nat
    BY RankIsNat
  <1>2. /\ FailureEntry(s).from = s /\ FailureEntry(s).to = s
        /\ FailureEntry(s).event = "infrastructure_failure"
    BY DEF FailureEntry
  <1>3. ASSUME NEW t, NEW v, NEW p \in Digest, <<s, t>> \in TRANSITIONS
        PROVE  /\ ReplayStepOK(s, TransitionEntry(s, t, p, v))
               /\ Rank[s] <= Rank[TransitionEntry(s, t, p, v).to]
    <2>1. /\ TransitionEntry(s, t, p, v).from = s /\ TransitionEntry(s, t, p, v).to = t
          /\ TransitionEntry(s, t, p, v).event = "transition"
          /\ TransitionEntry(s, t, p, v).guard_proof = p
      BY DEF TransitionEntry
    <2>2. Rank[s] <= Rank[t]
      BY <1>1, <1>3, RankOfTransition
    <2>. QED BY <1>3, <2>1, <2>2 DEF ReplayStepOK
  <1>. QED BY <1>1, <1>2, <1>3 DEF ReplayStepOK

\* A journal that still replays to DRAFT has neither preregistered nor armed.
LEMMA DraftJournal ==
  ASSUME NEW j \in Seq(Entry), Ascending(j), ReplayState(j) = "DRAFT",
         NEW i \in 1 .. Len(j)
  PROVE  j[i].to = "DRAFT"
  <1>1. Len(j) \in 1 .. Len(j) /\ i <= Len(j) /\ j # << >>
    OBVIOUS
  <1>2. j[Len(j)].to = "DRAFT"
    BY <1>1 DEF ReplayState
  <1>3. Rank[j[i].to] <= Rank["DRAFT"]
    BY <1>1, <1>2 DEF Ascending
  <1>4. j[i] \in Entry
    OBVIOUS
  <1>5. j[i].to \in State
    BY <1>4 DEF Entry
  <1>. QED BY <1>3, <1>5, RankIsNat

-----------------------------------------------------------------------------
(* The pinned preregistration.                                             *)

Preregisters(e) == e.event = "transition" /\ e.to = "PREREGISTERED"
Arms(e) == e.event = "transition" /\ e.to = "ARMED"

\* Appending an entry brings in no drift when it preregisters a journal that
\* never armed, or arms with the digest the journal preregistered.
LEMMA AppendKeepsNoDrift ==
  ASSUME NEW j \in Seq(Entry), NoDriftIn(j), NEW e \in Entry,
         Preregisters(e) => \A i \in 1 .. Len(j) : ~Arms(j[i]),
         Arms(e) => PinnedAs(j, e.guard_proof)
  PROVE  NoDriftIn(Append(j, e))
  <1> DEFINE J == Append(j, e)
  <1>1. /\ Len(J) = Len(j) + 1
        /\ \A i \in 1 .. Len(j) : J[i] = j[i]
        /\ J[Len(j) + 1] = e
        /\ Len(j) \in Nat
    OBVIOUS
  <1>2. SUFFICES ASSUME NEW i \in 1 .. Len(J), NEW k \in 1 .. Len(J),
                        Preregisters(J[i]), Arms(J[k])
                 PROVE  J[i].guard_proof = J[k].guard_proof
    BY DEF NoDriftIn, Preregisters, Arms
  <1>3. CASE i \in 1 .. Len(j) /\ k \in 1 .. Len(j)
    BY <1>1, <1>2, <1>3 DEF NoDriftIn, Preregisters, Arms
  <1>4. CASE i = Len(j) + 1 /\ k \in 1 .. Len(j)
    BY <1>1, <1>2, <1>4
  <1>5. CASE i \in 1 .. Len(j) /\ k = Len(j) + 1
    <2>1. Arms(e) /\ Preregisters(j[i])
      BY <1>1, <1>2, <1>5
    <2>. QED BY <2>1, <1>1, <1>5 DEF PinnedAs, Preregisters
  <1>6. CASE i = Len(j) + 1 /\ k = Len(j) + 1
    BY <1>1, <1>2, <1>6 DEF Preregisters, Arms
  <1>. QED BY <1>1, <1>3, <1>4, <1>5, <1>6

\* Appending keeps the pin when the entry is no other preregistration.
LEMMA AppendKeepsPin ==
  ASSUME NEW j \in Seq(Entry), NEW p, PinnedAs(j, p), NEW e \in Entry,
         Preregisters(e) => e.guard_proof = p
  PROVE  PinnedAs(Append(j, e), p)
  <1> DEFINE J == Append(j, e)
  <1>1. /\ Len(J) = Len(j) + 1
        /\ \A i \in 1 .. Len(j) : J[i] = j[i]
        /\ J[Len(j) + 1] = e
        /\ Len(j) \in Nat
    OBVIOUS
  <1>. QED BY <1>1 DEF PinnedAs, Preregisters

\* The empty journal is sound.
LEMMA EmptyJournal == SoundJournal(<< >>) /\ ReplayState(<< >>) = "DRAFT"
  BY DEF SoundJournal, ReplayAccepts, Ascending, NoDriftIn, ReplayState

\* The invariant after a call that records an entry: what is left to show is
\* about the entry alone.
LEMMA RecordKeepsInv ==
  ASSUME Inv, TypeOK', up, NEW e \in Entry, NEW w \in BOOLEAN, Record(e, w),
         ReplayStepOK(state, e), Rank[state] <= Rank[e.to], state' = e.to,
         Preregisters(e) => \A i \in 1 .. Len(entries) : ~Arms(entries[i]),
         Arms(e) => PinnedAs(entries, e.guard_proof),
         pinned' # NoDigest => PinnedAs(entries, pinned'),
         pinned' # NoDigest /\ Preregisters(e) => e.guard_proof = pinned'
  PROVE  Inv'
  <1>1. /\ entries \in Seq(Entry) /\ SoundJournal(entries) /\ ReplayState(entries) = state
        /\ SoundJournal(disk)
    BY DEF Inv, TypeOK
  <1>2. entries' = Append(entries, e) /\ (disk' = entries' \/ disk' = disk)
    BY DEF Record
  <1>3. /\ ReplayAccepts(entries') /\ Ascending(entries') /\ ReplayState(entries') = state'
    BY <1>1, <1>2, AppendKeepsOrder DEF SoundJournal
  <1>4. NoDriftIn(entries')
    BY <1>1, <1>2, AppendKeepsNoDrift DEF SoundJournal
  <1>5. pinned' # NoDigest => PinnedAs(entries', pinned')
    BY <1>1, <1>2, AppendKeepsPin
  <1>6. SoundJournal(entries')
    BY <1>3, <1>4 DEF SoundJournal
  <1>7. SoundJournal(disk')
    BY <1>1, <1>2, <1>6
  <1>. QED BY <1>3, <1>5, <1>6, <1>7 DEF Inv

\* A transition past PREREGISTERED keeps the invariant; arming needs the
\* digest presented to be the one the journal preregistered.
LEMMA AdvanceKeepsInv ==
  ASSUME Inv, TypeOK', NEW t \in State, t # "PREREGISTERED", NEW p \in Digest,
         NEW w \in BOOLEAN, Advance(t, p, w), pinned' = pinned,
         t = "ARMED" => PinnedAs(entries, p)
  PROVE  Inv'
  <1> DEFINE e == TransitionEntry(state, t, p, NoDigest)
  <1>1. up /\ state \in State /\ <<state, t>> \in TRANSITIONS /\ state' = t /\ Record(e, w)
    BY DEF Advance, Inv, TypeOK
  <1>2. e \in Entry
    BY <1>1, EntryTypes DEF MaybeDigest
  <1>3. e.to = t /\ e.guard_proof = p /\ e.event = "transition"
    BY DEF TransitionEntry
  <1>4. ReplayStepOK(state, e) /\ Rank[state] <= Rank[e.to]
    BY <1>1, MachineEntriesContinue
  <1>5. ~Preregisters(e) /\ (Arms(e) => PinnedAs(entries, e.guard_proof))
    BY <1>3 DEF Preregisters, Arms
  <1>6. pinned' # NoDigest => PinnedAs(entries, pinned')
    BY DEF Inv
  <1> HIDE DEF e
  <1>. QED BY <1>1, <1>2, <1>3, <1>4, <1>5, <1>6, RecordKeepsInv

-----------------------------------------------------------------------------
(* The machine keeps its journal sound.                                    *)

LEMMA InitInv == Init => Inv
  <1>1. << >> \in Seq(Entry)
    OBVIOUS
  <1>. QED BY <1>1, EmptyJournal DEF Init, Inv, TypeOK, State, MaybeDigest

LEMMA NextInv ==
  ASSUME ~byHand, Inv, TypeOK', [Next]_vars
  PROVE  Inv'
  <1>1. /\ state \in State /\ entries \in Seq(Entry) /\ disk \in Seq(Entry)
        /\ pinned \in MaybeDigest
    BY DEF Inv, TypeOK
  <1>2. CASE Restart
    BY <1>2 DEF Restart, Inv
  <1>3. CASE Crash
    BY <1>3, EmptyJournal DEF Crash, Inv
  <1>4. ASSUME NEW w \in BOOLEAN, AttachInfrastructureFailure(w)
        PROVE  Inv'
    <2> DEFINE e == FailureEntry(state)
    <2>1. up /\ Record(e, w) /\ state' = state /\ pinned' = pinned
      BY <1>4 DEF AttachInfrastructureFailure
    <2>2. e \in Entry
      BY <1>1, EntryTypes DEF MaybeDigest
    <2>3. ReplayStepOK(state, e) /\ Rank[state] <= Rank[e.to] /\ e.to = state
      BY <1>1, MachineEntriesContinue DEF FailureEntry
    <2>4. ~Preregisters(e) /\ ~Arms(e)
      BY DEF Preregisters, Arms, FailureEntry
    <2>5. pinned' # NoDigest => PinnedAs(entries, pinned')
      BY <2>1 DEF Inv
    <2> HIDE DEF e
    <2>. QED BY <2>1, <2>2, <2>3, <2>4, <2>5, RecordKeepsInv
  <1>5. ASSUME NEW w \in BOOLEAN, NEW ev \in MaybeDigest, Preregister(ev, w)
        PROVE  Inv'
    <2> DEFINE e == TransitionEntry(state, "PREREGISTERED", ev, NoDigest)
    <2>1. /\ up /\ <<state, "PREREGISTERED">> \in TRANSITIONS /\ ev \in Digest
          /\ state' = "PREREGISTERED" /\ pinned' = ev /\ Record(e, w)
      BY <1>5 DEF Preregister, Advance, GuardPreregistered
    <2>2. state = "DRAFT"
      BY <2>1 DEF TRANSITIONS
    <2>3. e \in Entry
      BY <1>1, EntryTypes DEF State, MaybeDigest
    <2>4. ReplayStepOK(state, e) /\ Rank[state] <= Rank[e.to]
      BY <1>1, <2>1, MachineEntriesContinue
    <2>5. e.to = "PREREGISTERED" /\ e.guard_proof = ev /\ e.event = "transition"
      BY DEF TransitionEntry
    <2>6. \A i \in 1 .. Len(entries) : entries[i].to = "DRAFT"
      BY <1>1, <2>1, <2>2, DraftJournal DEF Inv, SoundJournal
    <2>7. \A i \in 1 .. Len(entries) : ~Arms(entries[i])
      BY <2>6 DEF Arms
    <2>8. PinnedAs(entries, pinned')
      BY <2>6 DEF PinnedAs
    <2>9. ~Arms(e)
      BY <2>5 DEF Arms
    <2> HIDE DEF e
    <2>. QED BY <2>1, <2>3, <2>4, <2>5, <2>7, <2>8, <2>9, RecordKeepsInv
  <1>6. ASSUME NEW w \in BOOLEAN, NEW ev \in MaybeDigest, NEW b \in BOOLEAN, Arm(ev, b, w)
        PROVE  Inv'
    <2>1. ev \in Digest /\ ev = pinned /\ pinned' = pinned /\ Advance("ARMED", ev, w)
      BY <1>6 DEF Arm, GuardArmed
    <2>2. pinned # NoDigest
      BY <2>1, DigestAssumption
    <2>3. PinnedAs(entries, ev)
      BY <2>1, <2>2 DEF Inv
    <2>4. "ARMED" \in State /\ "ARMED" # "PREREGISTERED"
      BY DEF State
    <2>. QED BY <2>1, <2>3, <2>4, AdvanceKeepsInv
  <1>7. ASSUME NEW w \in BOOLEAN, NEW ev \in MaybeDigest, NEW m \in MaybeDigest,
               NEW tree \in MaybeDigest, NEW b \in Digest, StartRunning(ev, m, tree, b, w)
        PROVE  Inv'
    <2>1. ev \in Digest /\ pinned' = pinned /\ Advance("RUNNING", ev, w)
      BY <1>7 DEF StartRunning, GuardRunning
    <2>2. "RUNNING" \in State /\ "RUNNING" # "PREREGISTERED" /\ "RUNNING" # "ARMED"
      BY DEF State
    <2>. QED BY <2>1, <2>2, AdvanceKeepsInv
  <1>8. ASSUME NEW w \in BOOLEAN, NEW ev \in MaybeDigest, NEW a \in MaybeDigest,
               SealEvidence(ev, a, w)
        PROVE  Inv'
    <2>1. ev \in Digest /\ pinned' = pinned /\ Advance("EVIDENCE_SEALED", ev, w)
      BY <1>8 DEF SealEvidence, GuardEvidenceSealed
    <2>2. /\ "EVIDENCE_SEALED" \in State /\ "EVIDENCE_SEALED" # "PREREGISTERED"
          /\ "EVIDENCE_SEALED" # "ARMED"
      BY DEF State
    <2>. QED BY <2>1, <2>2, AdvanceKeepsInv
  <1>9. ASSUME NEW w \in BOOLEAN, NEW ev \in MaybeDigest, NEW k \in Kind, NEW o \in BOOLEAN,
               NEW f \in BOOLEAN, NEW ok \in BOOLEAN, NEW b \in Digest, Close(ev, k, o, f, ok, b, w)
        PROVE  Inv'
    <2>1. ev \in Digest /\ pinned' = pinned /\ Advance("CLOSED", ev, w)
      BY <1>9 DEF Close, GuardClosed
    <2>2. "CLOSED" \in State /\ "CLOSED" # "PREREGISTERED" /\ "CLOSED" # "ARMED"
      BY DEF State
    <2>. QED BY <2>1, <2>2, AdvanceKeepsInv
  <1>10. ASSUME NEW w \in BOOLEAN, NEW ev \in MaybeDigest, NEW ok \in BOOLEAN, Publish(ev, ok, w)
         PROVE  Inv'
    <2>1. ev \in Digest /\ pinned' = pinned /\ Advance("PUBLISHED", ev, w)
      BY <1>10 DEF Publish, GuardPublished
    <2>2. "PUBLISHED" \in State /\ "PUBLISHED" # "PREREGISTERED" /\ "PUBLISHED" # "ARMED"
      BY DEF State
    <2>. QED BY <2>1, <2>2, AdvanceKeepsInv
  <1>11. CASE UNCHANGED vars
    BY <1>11 DEF vars, Inv, SoundJournal
  <1>12. \A s \in Claims, a \in ArmedField, p \in MaybeDigest : ~Adopt(s, a, p)
    BY DEF Adopt
  <1>. QED
    BY <1>2, <1>3, <1>4, <1>5, <1>6, <1>7, <1>8, <1>9, <1>10, <1>11, <1>12 DEF Next

LEMMA ByHandFixed == ASSUME [Next]_vars PROVE byHand' = byHand
  BY DEF Next, vars, Restart, Crash, Adopt, AttachInfrastructureFailure, Preregister, Arm,
         StartRunning, SealEvidence, Close, Publish, Advance, Record

OwnInv == ~byHand => Inv

\* The inductive invariant, for every length of the journal.
THEOREM Invariance == Spec => []OwnInv
  <1>1. OwnInv /\ TypeOK' /\ [Next]_vars => OwnInv'
    BY NextInv, ByHandFixed DEF OwnInv
  <1>2. Init => OwnInv
    BY InitInv DEF OwnInv
  <1>. QED BY <1>1, <1>2, TypeCorrect, PTL DEF Spec

\* Every journal the machine leaves, in memory or on disk, replays, and to
\* the state the machine is in: no failed write, crash or restart can leave
\* one that a later process would refuse.
THEOREM JournalAlwaysReplays == Spec => []JournalReplays
  <1>1. OwnInv => JournalReplays
    BY DEF OwnInv, Inv, SoundJournal, JournalReplays
  <1>. QED BY <1>1, Invariance, PTL

\* The preregistration that is armed is the one that was preregistered.
THEOREM NoDrift == Spec => []NoPreregistrationDrift
  <1>1. OwnInv => NoPreregistrationDrift
    BY DEF OwnInv, Inv, SoundJournal, NoPreregistrationDrift
  <1>. QED BY <1>1, Invariance, PTL

-----------------------------------------------------------------------------
(* The journal file only grows.                                            *)

Extends(long, short) ==
  /\ Len(short) <= Len(long)
  /\ \A i \in 1 .. Len(short) : long[i] = short[i]

\* Memory never lags behind the file: a write that fails leaves it ahead.
MemoryLeads == up => Extends(entries, disk)

\* A call that records an entry puts memory ahead of the old file.
LEMMA RecordLeads ==
  ASSUME TypeOK, TypeOK', MemoryLeads, up, NEW e, NEW w \in BOOLEAN, Record(e, w)
  PROVE  /\ MemoryLeads'
         /\ disk' = disk \/ (disk' = entries' /\ Extends(disk', disk) /\ Len(disk') > Len(disk))
  <1>1. /\ entries \in Seq(Entry) /\ disk \in Seq(Entry)
        /\ entries' = Append(entries, e) /\ (disk' = entries' \/ disk' = disk)
        /\ Len(disk) <= Len(entries) /\ \A i \in 1 .. Len(disk) : entries[i] = disk[i]
        /\ Len(entries) \in Nat /\ Len(disk) \in Nat
    BY DEF TypeOK, MemoryLeads, Extends, Record
  <1>2. Len(entries') = Len(entries) + 1 /\ \A i \in 1 .. Len(entries) : entries'[i] = entries[i]
    BY <1>1
  <1>3. \A i \in 1 .. Len(disk) : entries'[i] = disk[i]
    BY <1>1, <1>2
  <1>4. Extends(entries', disk) /\ Len(entries') > Len(disk)
    BY <1>1, <1>2, <1>3 DEF Extends
  <1>5. Extends(entries', entries')
    BY <1>1, <1>2 DEF Extends
  <1>6. MemoryLeads'
    BY <1>1, <1>4, <1>5 DEF MemoryLeads, Extends
  <1>. QED BY <1>1, <1>4, <1>6

\* What any step does to the file: nothing, or it rewrites it with a longer
\* copy of memory.
LEMMA DiskStep ==
  ASSUME TypeOK, TypeOK', MemoryLeads, [Next]_vars
  PROVE  /\ MemoryLeads'
         /\ disk' = disk \/ (disk' = entries' /\ Extends(disk', disk) /\ Len(disk') > Len(disk))
  <1>1. disk \in Seq(Entry) /\ Extends(disk, disk)
    BY DEF TypeOK, Extends
  <1>2. CASE Restart
    BY <1>1, <1>2 DEF Restart, MemoryLeads, Extends
  <1>3. CASE Crash
    BY <1>3 DEF Crash, MemoryLeads
  <1>4. ASSUME NEW s \in Claims, NEW a \in ArmedField, NEW p \in MaybeDigest, Adopt(s, a, p)
        PROVE  MemoryLeads' /\ disk' = disk
    BY <1>1, <1>4 DEF Adopt, MemoryLeads, Extends
  <1>5. ASSUME NEW e, NEW w \in BOOLEAN, up, Record(e, w)
        PROVE  /\ MemoryLeads'
               /\ disk' = disk \/ (disk' = entries' /\ Extends(disk', disk) /\ Len(disk') > Len(disk))
    BY <1>5, RecordLeads
  <1>6. ASSUME NEW t, NEW p, NEW w \in BOOLEAN, Advance(t, p, w)
        PROVE  up /\ Record(TransitionEntry(state, t, p, NoDigest), w)
    BY <1>6 DEF Advance
  <1>7. ASSUME NEW w \in BOOLEAN,
               \/ AttachInfrastructureFailure(w)
               \/ \E ev \in MaybeDigest : Preregister(ev, w)
               \/ \E ev \in MaybeDigest, b \in BOOLEAN : Arm(ev, b, w)
               \/ \E ev, m, tree \in MaybeDigest, b \in Digest : StartRunning(ev, m, tree, b, w)
               \/ \E ev, a \in MaybeDigest : SealEvidence(ev, a, w)
               \/ \E ev \in MaybeDigest, k \in Kind, o, f, ok \in BOOLEAN, b \in Digest :
                    Close(ev, k, o, f, ok, b, w)
               \/ \E ev \in MaybeDigest, ok \in BOOLEAN : Publish(ev, ok, w)
        PROVE  \E e : up /\ Record(e, w)
    <2>1. AttachInfrastructureFailure(w) => up /\ Record(FailureEntry(state), w)
      BY DEF AttachInfrastructureFailure
    <2>2. \/ AttachInfrastructureFailure(w)
          \/ \E t, p : Advance(t, p, w)
      BY <1>7 DEF Preregister, Arm, StartRunning, SealEvidence, Close, Publish
    <2>. QED BY <2>1, <2>2, <1>6
  <1>8. CASE UNCHANGED vars
    BY <1>8 DEF vars, MemoryLeads
  <1>. QED BY <1>2, <1>3, <1>4, <1>5, <1>7, <1>8 DEF Next

\* The journal file only grows, also when callers construct machines by hand.
THEOREM AppendOnly == Spec => JournalAppendOnly
  <1>1. Init => MemoryLeads
    BY DEF Init, MemoryLeads
  <1>2. TypeOK /\ TypeOK' /\ MemoryLeads /\ [Next]_vars => MemoryLeads'
    BY DiskStep
  <1>3. TypeOK /\ TypeOK' /\ MemoryLeads /\ [Next]_vars
        => [/\ Len(disk') > Len(disk)
            /\ \A i \in 1 .. Len(disk) : disk'[i] = disk[i]]_disk
    BY DiskStep DEF Extends
  <1>. QED BY <1>1, <1>2, <1>3, TypeCorrect, PTL DEF Spec, JournalAppendOnly

-----------------------------------------------------------------------------
(* A lost pin.                                                             *)

\* The file says PREREGISTERED and no process holds the pinned digest.
PinLost ==
  /\ ReplayState(disk) = "PREREGISTERED"
  /\ up => state = "PREREGISTERED" /\ pinned = NoDigest

\* A machine without its pin can only attach failures.
LEMMA PinStaysLost ==
  ASSUME ~byHand, Inv, TypeOK', PinLost, [Next]_vars
  PROVE  PinLost'
  <1>1. /\ entries \in Seq(Entry) /\ state \in State /\ pinned \in MaybeDigest
        /\ SoundJournal(entries) /\ (up => ReplayState(entries) = state)
    BY DEF Inv, TypeOK
  <1>2. CASE Restart
    BY <1>2 DEF Restart, PinLost
  <1>3. CASE Crash
    BY <1>3 DEF Crash, PinLost
  <1>4. ASSUME NEW w \in BOOLEAN, AttachInfrastructureFailure(w)
        PROVE  PinLost'
    <2> DEFINE e == FailureEntry(state)
    <2>1. /\ up /\ entries' = Append(entries, e) /\ (disk' = entries' \/ disk' = disk)
          /\ state' = state /\ pinned' = pinned /\ up' = up
      BY <1>4 DEF AttachInfrastructureFailure, Record
    <2>2. e \in Entry
      BY <1>1, EntryTypes DEF MaybeDigest
    <2>3. ReplayStepOK(state, e) /\ Rank[state] <= Rank[e.to] /\ e.to = state
      BY <1>1, MachineEntriesContinue DEF FailureEntry
    <2> HIDE DEF e
    <2>4. ReplayState(entries') = state
      BY <1>1, <2>1, <2>2, <2>3, AppendKeepsOrder DEF SoundJournal
    <2>. QED BY <2>1, <2>4 DEF PinLost
  <1>5. ASSUME NEW t, NEW p, NEW w \in BOOLEAN, Advance(t, p, w)
        PROVE  t = "ARMED" /\ pinned \notin Digest
    BY <1>5, DigestAssumption DEF Advance, TRANSITIONS, PinLost
  <1>6. ASSUME NEW w \in BOOLEAN,
               \/ \E ev \in MaybeDigest : Preregister(ev, w)
               \/ \E ev \in MaybeDigest, b \in BOOLEAN : Arm(ev, b, w)
               \/ \E ev, m, tree \in MaybeDigest, b \in Digest : StartRunning(ev, m, tree, b, w)
               \/ \E ev, a \in MaybeDigest : SealEvidence(ev, a, w)
               \/ \E ev \in MaybeDigest, k \in Kind, o, f, ok \in BOOLEAN, b \in Digest :
                    Close(ev, k, o, f, ok, b, w)
               \/ \E ev \in MaybeDigest, ok \in BOOLEAN : Publish(ev, ok, w)
        PROVE  FALSE
    BY <1>5, <1>6 DEF Preregister, Arm, GuardArmed, StartRunning, SealEvidence, Close, Publish
  <1>7. CASE UNCHANGED vars
    BY <1>7 DEF vars, PinLost
  <1>8. \A s \in Claims, a \in ArmedField, p \in MaybeDigest : ~Adopt(s, a, p)
    BY DEF Adopt
  <1>. QED BY <1>2, <1>3, <1>4, <1>6, <1>7, <1>8 DEF Next

\* A machine replayed in PREREGISTERED has lost its pin and never arms: _guard_armed
\* refuses it, after any number of restarts.
THEOREM FailsClosed == Spec => LostPinNeverArms
  <1> DEFINE Down == ~byHand /\ ~up /\ ReplayState(disk) = "PREREGISTERED"
             Lost == ~byHand /\ PinLost
             Stuck == ReplayState(disk) = "PREREGISTERED"
  <1>1. Down => Lost
    BY DEF PinLost
  <1>2. Lost => Stuck
    BY DEF PinLost
  <1>3. OwnInv /\ TypeOK' /\ Lost /\ [Next]_vars => Lost'
    BY PinStaysLost, ByHandFixed DEF OwnInv
  <1> HIDE DEF Down, Stuck, Lost
  <1>4. Spec => [](Down => []Stuck)
    BY <1>1, <1>2, <1>3, Invariance, TypeCorrect, PTL DEF Spec
  <1>. QED BY <1>4 DEF Down, Stuck, LostPinNeverArms

-----------------------------------------------------------------------------
(* The sha chain of the journal under edits of its file (JournalChain).     *)

\* A sequence, of whatever elements: an entry nests the hashes of all before it,
\* so there is no set of entries to name.
Listed(s) == \E S : s \in Seq(S)

\* An entry has its four fields and nothing else.
Whole(e) == e = [seq |-> e.seq, body |-> e.body, prev |-> e.prev, hash |-> e.hash]

\* Accepted entries carry their position and hash themselves; every hash in the
\* file is that of some accepted entry, since no edit computes one.
ChainInv ==
  /\ Listed(memory) /\ Listed(file)
  /\ \A k \in DOMAIN memory :
       /\ memory[k] = make_journal_entry(k - 1, memory[k].body, memory[k].prev)
       /\ k = 1 => memory[k].prev = Genesis
  /\ \A i \in DOMAIN file : Whole(file[i]) /\ \E k \in DOMAIN memory : file[i].hash = memory[k].hash

\* An edit that brings in no hash of its own.
LEMMA EditKeepsInv ==
  ASSUME ChainInv, UNCHANGED memory, Listed(file'),
         \A i \in DOMAIN file' : Whole(file'[i]) /\ \E k \in DOMAIN file : file'[i].hash = file[k].hash
  PROVE  ChainInv'
BY DEF ChainInv, Whole, Listed, make_journal_entry, entry_hash

\* One entry of a file replaced.
LEMMA Changed ==
  ASSUME NEW S, NEW s \in Seq(S), NEW i \in DOMAIN s, NEW e
  PROVE  /\ Listed([s EXCEPT ![i] = e])
         /\ DOMAIN [s EXCEPT ![i] = e] = DOMAIN s
         /\ \A k \in DOMAIN s : [s EXCEPT ![i] = e][k] = IF k = i THEN e ELSE s[k]
<1>1. [s EXCEPT ![i] = e] \in Seq(S \cup {e})
  OBVIOUS
<1>2. QED
  BY <1>1 DEF Listed

LEMMA AppendKeepsInv ==
  ASSUME ChainInv, NEW body, AppendEntry(body) PROVE ChainInv'
<1> DEFINE prev == IF memory = << >> THEN Genesis ELSE Last(memory).hash
           e == make_journal_entry(Len(memory), body, prev)
<1>1. memory' = Append(memory, e) /\ file' = memory'
  BY DEF AppendEntry
<1>2. PICK S : memory \in Seq(S)
  BY DEF ChainInv, Listed
<1>3. memory' \in Seq(S \cup {e}) /\ Len(memory') = Len(memory) + 1
  BY <1>1, <1>2
<1>4. \A k \in DOMAIN memory' :
        \/ k \in DOMAIN memory /\ memory'[k] = memory[k]
        \/ k = Len(memory) + 1 /\ memory'[k] = e
  BY <1>1, <1>2
<1>5. e = make_journal_entry(Len(memory), e.body, e.prev) /\ Whole(e)
  BY DEF make_journal_entry, Whole
<1>6. Len(memory) = 0 => e.prev = Genesis
  <2>1. Len(memory) = 0 => memory = << >>
    BY <1>2
  <2>2. e.prev = prev
    BY DEF make_journal_entry
  <2>3. QED
    BY <2>1, <2>2
<1>7. \A k \in DOMAIN memory : Whole(memory[k])
  BY DEF ChainInv, Whole, make_journal_entry
<1> HIDE DEF e, prev
<1>8. ASSUME NEW k \in DOMAIN memory'
      PROVE  /\ memory'[k] = make_journal_entry(k - 1, memory'[k].body, memory'[k].prev)
             /\ k = 1 => memory'[k].prev = Genesis
             /\ Whole(memory'[k])
  <2>1. CASE k \in DOMAIN memory /\ memory'[k] = memory[k]
    BY <1>7, <2>1 DEF ChainInv
  <2>2. CASE k = Len(memory) + 1 /\ memory'[k] = e
    <3>1. k - 1 = Len(memory)
      BY <1>2, <2>2
    <3>2. QED
      BY <1>5, <1>6, <2>2, <3>1
  <2>3. QED
    BY <1>4, <2>1, <2>2
<1>9. Listed(memory)' /\ Listed(file)'
  BY <1>1, <1>3 DEF Listed
<1>10. QED
  BY <1>1, <1>8, <1>9 DEF ChainInv, Whole, make_journal_entry, entry_hash

LEMMA ChainStep == ChainInv /\ [ChainNext]_chainVars => ChainInv'
<1> SUFFICES ASSUME ChainInv, [ChainNext]_chainVars PROVE ChainInv'
  OBVIOUS
<1>1. PICK S : file \in Seq(S)
  BY DEF ChainInv, Listed
<1>2. \A i \in DOMAIN file : Whole(file[i])
  BY DEF ChainInv
<1>3. CASE UNCHANGED chainVars
  BY <1>3 DEF chainVars, ChainInv, Whole, Listed, make_journal_entry, entry_hash
<1>4. ASSUME NEW i \in DOMAIN file, NEW body \in Bodies, EditBody(i, body) PROVE ChainInv'
  <2> DEFINE e == [file[i] EXCEPT !.body = body]
  <2>1. file' = [file EXCEPT ![i] = e] /\ UNCHANGED memory
    BY <1>4 DEF EditBody, Edit
  <2>2. Whole(e) /\ e.hash = file[i].hash
    BY <1>2 DEF Whole
  <2> HIDE DEF e
  <2>3. QED
    BY <1>1, <1>2, <2>1, <2>2, Changed, EditKeepsInv
<1>5. ASSUME NEW i \in DOMAIN file, NEW k \in DOMAIN file, Relink(i, k) PROVE ChainInv'
  <2> DEFINE e == [file[i] EXCEPT !.prev = file[k].hash]
  <2>1. file' = [file EXCEPT ![i] = e] /\ UNCHANGED memory
    BY <1>5 DEF Relink, Edit
  <2>2. Whole(e) /\ e.hash = file[i].hash
    BY <1>2 DEF Whole
  <2> HIDE DEF e
  <2>3. QED
    BY <1>1, <1>2, <2>1, <2>2, Changed, EditKeepsInv
<1>6. ASSUME NEW i \in DOMAIN file, NEW k \in DOMAIN file, SwapEntries(i, k) PROVE ChainInv'
  <2>1. file' \in Seq(S) /\ DOMAIN file' = DOMAIN file /\ UNCHANGED memory
    BY <1>1, <1>6 DEF SwapEntries, Edit
  <2>2. \A j \in DOMAIN file' : \E n \in DOMAIN file : file'[j] = file[n]
    BY <1>1, <1>6 DEF SwapEntries
  <2>3. QED
    BY <1>2, <2>1, <2>2, EditKeepsInv DEF Listed
<1>7. ASSUME NEW i \in DOMAIN file, RemoveEntry(i) PROVE ChainInv'
  <2> DEFINE R == {file[n] : n \in DOMAIN file}
  <2>1. file \in Seq(R)
    BY <1>1
  <2>2. file' = SubSeq(file, 1, i - 1) \o SubSeq(file, i + 1, Len(file)) /\ UNCHANGED memory
    BY <1>7 DEF RemoveEntry, Edit, RemoveAt
  <2>3. i \in Int /\ Len(file) \in Int /\ i - 1 \in Int /\ i + 1 \in Int
    BY <1>1
  <2>4. SubSeq(file, 1, i - 1) \in Seq(R) /\ SubSeq(file, i + 1, Len(file)) \in Seq(R)
    <3>1. \A j \in 1 .. i - 1 : file[j] \in R
      BY <1>1
    <3>2. \A j \in i + 1 .. Len(file) : file[j] \in R
      BY <1>1
    <3> HIDE DEF R
    <3>3. QED
      BY <2>3, <3>1, <3>2, SubSeqProperties
  <2>5. file' \in Seq(R)
    BY <2>2, <2>4
  <2>6. \A j \in DOMAIN file' : file'[j] \in R
    BY <2>5
  <2>7. QED
    BY <1>2, <2>2, <2>5, <2>6, EditKeepsInv DEF Listed
<1>8. ASSUME NEW n \in 0 .. Len(file), Truncate(n) PROVE ChainInv'
  <2>1. file' \in Seq(S) /\ UNCHANGED memory /\ \A j \in DOMAIN file' : j \in DOMAIN file /\ file'[j] = file[j]
    BY <1>1, <1>8 DEF Truncate, Edit
  <2>2. QED
    BY <1>2, <2>1, EditKeepsInv DEF Listed
<1>9. CASE Renumber
  <2>1. /\ file' = [i \in DOMAIN file |-> [file[i] EXCEPT !.seq = i - 1]]
        /\ UNCHANGED memory
    BY <1>9 DEF Renumber, Edit
  <2>2. \A i \in DOMAIN file : Whole([file[i] EXCEPT !.seq = i - 1]) /\ [file[i] EXCEPT !.seq = i - 1].hash = file[i].hash
    BY <1>2 DEF Whole
  <2>3. file' \in Seq({[file[i] EXCEPT !.seq = i - 1] : i \in DOMAIN file})
    BY <1>1, <2>1
  <2>4. QED
    BY <2>1, <2>2, <2>3, EditKeepsInv DEF Listed
<1>10. ASSUME NEW digest, ReplaceGenesis(digest) PROVE ChainInv'
  BY <1>1, <1>2, <1>10, EditKeepsInv DEF ReplaceGenesis, Edit, Listed
<1>11. QED
  BY <1>3, <1>4, <1>5, <1>6, <1>7, <1>8, <1>9, <1>10, AppendKeepsInv DEF ChainNext

LEMMA ChainInvariance == ChainSpec => []ChainInv
<1>1. ChainInit => ChainInv
  <2>1. << >> \in Seq({})
    OBVIOUS
  <2>2. QED
    BY <2>1 DEF ChainInit, ChainInv, Listed
<1>2. QED
  BY <1>1, ChainStep, PTL DEF ChainSpec

\* A verified entry is the accepted one of its position.
LEMMA VerifiedEntry ==
  ASSUME ChainInv, Verifies(file), NEW i \in DOMAIN file
  PROVE  i \in DOMAIN memory /\ file[i] = memory[i]
<1>1. PICK k \in DOMAIN memory : file[i].hash = memory[k].hash
  BY DEF ChainInv
<1>2. /\ memory[k] = [seq |-> k - 1, body |-> memory[k].body, prev |-> memory[k].prev, hash |-> memory[k].hash]
      /\ memory[k].hash = <<k - 1, memory[k].body, memory[k].prev>>
  BY DEF ChainInv, make_journal_entry, entry_hash
<1>3. file[i].seq = i - 1 /\ file[i].hash = <<i - 1, file[i].body, file[i].prev>>
  BY DEF Verifies, entry_hash
<1>4. i - 1 = k - 1 /\ file[i].body = memory[k].body /\ file[i].prev = memory[k].prev
  BY <1>1, <1>2, <1>3
<1>5. i \in Nat /\ k \in Nat
  BY DEF ChainInv, Listed
<1>6. i = k
  BY <1>4, <1>5
<1>7. Whole(file[i])
  BY DEF ChainInv
<1>8. QED
  BY <1>1, <1>2, <1>3, <1>4, <1>6, <1>7 DEF Whole

\* VerifiedIsPrefix: whatever was edited, moved, relinked, renumbered or cut, a
\* file that verify_journal accepts is a first part of what was appended.
THEOREM VerifiedFilesAreGenuine == ChainSpec => []VerifiedIsPrefix
<1>1. ChainInv => VerifiedIsPrefix
  <2> SUFFICES ASSUME ChainInv, Verifies(file) PROVE IsPrefix(file, memory)
    BY DEF VerifiedIsPrefix
  <2>1. PICK S : file \in Seq(S)
    BY DEF ChainInv, Listed
  <2>2. PICK T : memory \in Seq(T)
    BY DEF ChainInv, Listed
  <2>3. Len(file) <= Len(memory)
    <3>1. CASE Len(file) = 0
      BY <2>2, <3>1
    <3>2. CASE Len(file) # 0
      <4>1. Len(file) \in DOMAIN file
        BY <2>1, <3>2
      <4>2. QED
        BY <2>2, <4>1, VerifiedEntry
    <3>3. QED
      BY <3>1, <3>2
  <2>4. \A i \in 1 .. Len(file) : file[i] = memory[i]
    BY <2>1, VerifiedEntry
  <2>5. SubSeq(file, 1, Len(file)) = SubSeq(memory, 1, Len(file))
    BY <2>1, <2>2, <2>3, <2>4
  <2>6. QED
    BY <2>3, <2>5 DEF IsPrefix
<1>2. QED
  BY <1>1, ChainInvariance, PTL

\* GenesisIsPinned: the digest a verified file names as its genesis is the one of
\* the machine's label: replacing it breaks the first link (verify_journal).
THEOREM GenesisAlwaysPinned == ChainSpec => []GenesisIsPinned
<1>1. ChainInv => GenesisIsPinned
  <2> SUFFICES ASSUME ChainInv, Verifies(file), file # << >> PROVE genesis = Genesis
    BY DEF GenesisIsPinned
  <2>1. 1 \in DOMAIN file
    BY DEF ChainInv, Listed
  <2>2. file[1].prev = genesis
    BY <2>1 DEF Verifies, ExpectedPrev
  <2>3. QED
    BY <2>1, <2>2, VerifiedEntry DEF ChainInv
<1>2. QED
  BY <1>1, ChainInvariance, PTL
=============================================================================
