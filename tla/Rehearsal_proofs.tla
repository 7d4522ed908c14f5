--------------------------- MODULE Rehearsal_proofs ---------------------------
(***************************************************************************)
(* Proofs about Rehearsal: for any dates, number of crashes and of         *)
(* artifacts changed by other hands, in both variants.                     *)
(***************************************************************************)
EXTENDS Rehearsal, FiniteSetTheorems, SequenceTheorems, TLAPS

-----------------------------------------------------------------------------
(* The stage lists, as functions of the variant.                           *)

Variants == {"d20005", "barrier3"}
StagesOf(v) == IF v = "d20005" THEN D20005Stages ELSE Barrier3Stages
ReadsOf(v, s) == IF v = "d20005" THEN D20005Reads(s) ELSE Barrier3Reads(s)

LEMMA OfVariant == STAGES = StagesOf(variant) /\ \A s : Reads(s) = ReadsOf(variant, s)
BY DEF STAGES, StagesOf, Reads, ReadsOf

First(v, n) == {StagesOf(v)[i] : i \in 1 .. n}

LEMMA StageList ==
  ASSUME NEW v \in Variants
  PROVE  /\ Len(StagesOf(v)) \in {6, 7}
         /\ v = "d20005" => Len(StagesOf(v)) = 7
         /\ DOMAIN StagesOf(v) = 1 .. Len(StagesOf(v))
         /\ \A i \in DOMAIN StagesOf(v) : StagesOf(v)[i] \in StageSet
         /\ \A i, k \in DOMAIN StagesOf(v) : StagesOf(v)[i] = StagesOf(v)[k] => i = k
<1>1. CASE v = "d20005"
  <2>1. StagesOf(v) = D20005Stages
    BY <1>1 DEF StagesOf
  <2>2. Len(D20005Stages) = 7 /\ DOMAIN D20005Stages = 1 .. 7
    BY DEF D20005Stages
  <2>3. \A i, k \in 1 .. 7 : D20005Stages[i] = D20005Stages[k] => i = k
    BY DEF D20005Stages
  <2>4. QED
    BY <2>1, <2>2, <2>3 DEF StageSet, ToSet
<1>2. CASE v = "barrier3"
  <2>1. StagesOf(v) = Barrier3Stages
    BY <1>2 DEF StagesOf
  <2>2. Len(Barrier3Stages) = 6 /\ DOMAIN Barrier3Stages = 1 .. 6
    BY DEF Barrier3Stages
  <2>3. \A i, k \in 1 .. 6 : Barrier3Stages[i] = Barrier3Stages[k] => i = k
    BY DEF Barrier3Stages
  <2>4. QED
    BY <1>2, <2>1, <2>2, <2>3 DEF StageSet, ToSet
<1>3. QED
  BY <1>1, <1>2 DEF Variants

\* The sealed stages of both rehearsals.
Science == ScientificStages \cup ToSet(Barrier3Stages)

\* A d20005 run's stages after the fifth, and they alone, may be rebuilt.
LEMMA ScienceFirst ==
  /\ \A i \in 1 .. 7 : StagesOf("d20005")[i] \in Science <=> i <= 5
  /\ \A i \in 1 .. 7 : StagesOf("d20005")[i] \in RECOVERABLE_STAGES <=> i > 5
  /\ ScientificStages = First("d20005", 5)
<1>1. \A i \in 1 .. 7 : D20005Stages[i] \in Science <=> i <= 5
  BY DEF D20005Stages, Barrier3Stages, Science, ScientificStages, ToSet
<1>2. \A i \in 1 .. 7 : D20005Stages[i] \in RECOVERABLE_STAGES <=> i > 5
  BY DEF D20005Stages, RECOVERABLE_STAGES
<1>3. ScientificStages = {D20005Stages[i] : i \in 1 .. 5}
  BY DEF D20005Stages, ScientificStages
<1>4. QED
  BY <1>1, <1>2, <1>3 DEF StagesOf, First

\* A stage reads and pins earlier stages only.
LEMMA ReadsEarlier ==
  ASSUME NEW v \in Variants, NEW k \in DOMAIN StagesOf(v)
  PROVE  /\ ReadsOf(v, StagesOf(v)[k]) \subseteq First(v, k - 1)
         /\ UPSTREAM(StagesOf(v)[k]) \subseteq First(v, k - 1)
<1>1. CASE v = "d20005"
  <2>1. k \in 1 .. 7 /\ StagesOf(v) = D20005Stages
    BY <1>1, StageList DEF StagesOf
  <2>2. /\ First(v, k - 1) = {D20005Stages[i] : i \in 1 .. k - 1}
        /\ ReadsOf(v, StagesOf(v)[k]) = D20005Reads(D20005Stages[k])
    BY <1>1, <2>1 DEF First, ReadsOf
  <2>3. CASE k <= 2
    BY <2>1, <2>2, <2>3 DEF D20005Stages, D20005Reads, UPSTREAM
  <2>4. CASE k = 3
    BY <2>1, <2>2, <2>4 DEF D20005Stages, D20005Reads, UPSTREAM
  <2>5. CASE k = 4
    BY <2>1, <2>2, <2>5 DEF D20005Stages, D20005Reads, UPSTREAM
  <2>6. CASE k = 5
    BY <2>1, <2>2, <2>6 DEF D20005Stages, D20005Reads, UPSTREAM
  <2>7. CASE k = 6
    BY <2>1, <2>2, <2>7 DEF D20005Stages, D20005Reads, UPSTREAM
  <2>8. CASE k = 7
    BY <2>1, <2>2, <2>8 DEF D20005Stages, D20005Reads, UPSTREAM
  <2>9. QED
    BY <2>1, <2>3, <2>4, <2>5, <2>6, <2>7, <2>8
<1>2. CASE v = "barrier3"
  <2>1. k \in 1 .. 6 /\ StagesOf(v) = Barrier3Stages
    BY <1>2, StageList DEF StagesOf, Barrier3Stages
  <2>2. /\ First(v, k - 1) = {Barrier3Stages[i] : i \in 1 .. k - 1}
        /\ ReadsOf(v, StagesOf(v)[k]) = Barrier3Reads(Barrier3Stages[k])
    BY <1>2, <2>1 DEF First, ReadsOf
  <2>3. CASE k = 1
    BY <2>1, <2>2, <2>3 DEF Barrier3Stages, Barrier3Reads, UPSTREAM
  <2>4. CASE k = 2
    BY <2>1, <2>2, <2>4 DEF Barrier3Stages, Barrier3Reads, UPSTREAM
  <2>5. CASE k = 3
    BY <2>1, <2>2, <2>5 DEF Barrier3Stages, Barrier3Reads, UPSTREAM
  <2>6. CASE k = 4
    BY <2>1, <2>2, <2>6 DEF Barrier3Stages, Barrier3Reads, UPSTREAM
  <2>7. CASE k = 5
    BY <2>1, <2>2, <2>7 DEF Barrier3Stages, Barrier3Reads, UPSTREAM
  <2>8. CASE k = 6
    BY <2>1, <2>2, <2>8 DEF Barrier3Stages, Barrier3Reads, UPSTREAM
  <2>9. QED
    BY <2>1, <2>3, <2>4, <2>5, <2>6, <2>7, <2>8
<1>3. QED
  BY <1>1, <1>2 DEF Variants

-----------------------------------------------------------------------------
(* Journals.                                                               *)

\* The journal `j' records the first n stages.
Count(v, j, n) ==
  /\ n \in 0 .. Len(StagesOf(v))
  /\ DOMAIN j.artifacts = First(v, n)
  /\ v = "d20005" => j.stages = [i \in 1 .. n |-> StagesOf(v)[i]]

\* Artifact `a' of stage s was computed from what the journal records.
Fits(v, j, s, a) ==
  /\ \A p \in ReadsOf(v, s) : p \in DOMAIN j.artifacts /\ a.read[p] = j.artifacts[p]
  /\ \A p \in UPSTREAM(s) : p \in DOMAIN j.artifacts /\ a.pins[p] = j.artifacts[p]

Journal(v, j) ==
  /\ \E n : Count(v, j, n)
  /\ \A s \in DOMAIN j.artifacts : Fits(v, j, s, j.artifacts[s])

LEMMA NewIsJournal ==
  ASSUME NEW v \in Variants, NEW d
  PROVE  Journal(v, NewJournal(d)) /\ Count(v, NewJournal(d), 0)
<1>1. First(v, 0) = {}
  BY DEF First
<1>2. Count(v, NewJournal(d), 0)
  BY <1>1, StageList DEF Count, NewJournal
<1>3. QED
  BY <1>1, <1>2 DEF Journal, NewJournal, Count

\* Recording the next stage makes a journal of one more.
LEMMA Completing ==
  ASSUME NEW v \in Variants, NEW j, NEW k \in DOMAIN StagesOf(v), NEW a,
         Journal(v, j), Count(v, j, k - 1), Fits(v, j, StagesOf(v)[k], a)
  PROVE  LET j2 == Completed(j, StagesOf(v)[k], a) IN
         /\ Journal(v, j2) /\ Count(v, j2, k)
         /\ \A s \in DOMAIN j.artifacts : j2.artifacts[s] = j.artifacts[s]
         /\ j2.artifacts[StagesOf(v)[k]] = a
<1> DEFINE st == StagesOf(v)[k]
           j2 == Completed(j, st, a)
<1>1. k \in 1 .. Len(StagesOf(v)) /\ Len(StagesOf(v)) \in Nat
  BY StageList
<1>2. /\ j2.artifacts = [t \in DOMAIN j.artifacts \cup {st} |-> IF t = st THEN a ELSE j.artifacts[t]]
      /\ j2.stages = Append(j.stages, st)
  BY DEF Completed
<1>3. st \notin First(v, k - 1)
  BY <1>1, StageList DEF First
<1>4. First(v, k) = First(v, k - 1) \cup {st}
  BY <1>1 DEF First
<1>5. v = "d20005" => Append(j.stages, st) = [i \in 1 .. k |-> StagesOf(v)[i]]
  <2>1. SUFFICES ASSUME v = "d20005" PROVE Append(j.stages, st) = [i \in 1 .. k |-> StagesOf(v)[i]]
    OBVIOUS
  <2>2. j.stages = [i \in 1 .. k - 1 |-> StagesOf(v)[i]]
    BY <2>1 DEF Count
  <2>3. j.stages \in Seq(StageSet) /\ Len(j.stages) = k - 1
    BY <1>1, <2>2, StageList
  <2>4. QED
    BY <1>1, <2>2, <2>3
<1>6. Count(v, j2, k)
  BY <1>1, <1>2, <1>4, <1>5 DEF Count
<1>7. \A s \in DOMAIN j.artifacts : j2.artifacts[s] = j.artifacts[s]
  BY <1>2, <1>3 DEF Count
<1>8. \A s \in DOMAIN j2.artifacts : Fits(v, j2, s, j2.artifacts[s])
  <2>1. DOMAIN j.artifacts \subseteq DOMAIN j2.artifacts /\ j2.artifacts[st] = a
    BY <1>2
  <2> HIDE DEF j2
  <2>2. ASSUME NEW s, NEW b, Fits(v, j, s, b) PROVE Fits(v, j2, s, b)
    BY <1>7, <2>1, <2>2 DEF Fits
  <2>3. ASSUME NEW s \in DOMAIN j.artifacts PROVE Fits(v, j2, s, j2.artifacts[s])
    BY <1>7, <2>2 DEF Journal
  <2>4. Fits(v, j2, st, j2.artifacts[st])
    BY <2>1, <2>2
  <2>5. DOMAIN j2.artifacts = DOMAIN j.artifacts \cup {st}
    BY <1>2
  <2>6. QED
    BY <2>3, <2>4, <2>5
<1>9. QED
  BY <1>2, <1>6, <1>7, <1>8 DEF Journal

\* The stages a journal counts as done are those whose artifacts it records.
LEMMA DoneCounted ==
  ASSUME variant \in Variants, NEW j, NEW n, Count(variant, j, n)
  PROVE  Done(j) = First(variant, n)
<1>1. CASE variant = "d20005"
  <2>1. j.stages = [i \in 1 .. n |-> StagesOf(variant)[i]]
    BY <1>1 DEF Count
  <2>2. QED
    BY <1>1, <2>1 DEF Done, ToSet, First
<1>2. QED
  BY <1>1 DEF Done, Count

\* Writing a journal to disk keeps what it records.
LEMMA Saving ==
  ASSUME variant \in Variants, NEW j, Journal(variant, j)
  PROVE  Saved(j).artifacts = j.artifacts /\ Journal(variant, Saved(j))
<1>1. CASE variant = "d20005"
  BY <1>1 DEF Saved
<1>2. CASE variant # "d20005"
  <2>1. Saved(j).artifacts = j.artifacts
    BY <1>2 DEF Saved
  <2>2. QED
    BY <1>2, <2>1 DEF Journal, Count, Fits
<1>3. QED
  BY <1>1, <1>2

\* Two journals record the same artifacts.
Agree(i, j) ==
  /\ DOMAIN i.artifacts = DOMAIN j.artifacts
  /\ \A s \in DOMAIN j.artifacts : i.artifacts[s] = j.artifacts[s]

\* A rollback keeps the science and what is intact, and is a journal again.
LEMMA RollingBack ==
  ASSUME variant = "d20005", Journal(variant, journal),
         \A s \in ScientificStages : s \in Done(journal) /\ Intact(journal, s)
  PROVE  LET r == RolledBack(journal) IN
         /\ Journal(variant, r)
         /\ Len(r.stages) \in 5 .. 7 /\ Count(variant, r, Len(r.stages))
         /\ \A s \in DOMAIN r.artifacts :
              /\ s \in DOMAIN journal.artifacts
              /\ r.artifacts[s] = journal.artifacts[s]
              /\ Intact(journal, s)
         /\ (\A s \in DOMAIN journal.artifacts : Intact(journal, s)) => Agree(r, journal)
<1> DEFINE r == RolledBack(journal)
           bad == {i \in DOMAIN journal.stages :
                     /\ journal.stages[i] \in RECOVERABLE_STAGES
                     /\ Corrupt(journal, journal.stages[i])}
           least == CHOOSE i \in bad : \A k \in bad : i <= k
           kept == IF bad = {} THEN journal.stages ELSE SubSeq(journal.stages, 1, least - 1)
<1>1. PICK n : Count(variant, journal, n)
  BY DEF Journal
<1>2. /\ Len(StagesOf(variant)) = 7 /\ DOMAIN StagesOf(variant) = 1 .. 7
      /\ \A i \in 1 .. 7 : StagesOf(variant)[i] \in StageSet
  BY StageList DEF Variants
<1>3. n \in 0 .. 7 /\ journal.stages = [i \in 1 .. n |-> StagesOf(variant)[i]]
  BY <1>1, <1>2 DEF Count
<1>4. /\ Done(journal) = First(variant, n) /\ DOMAIN journal.artifacts = First(variant, n)
      /\ journal.stages \in Seq(StageSet) /\ Len(journal.stages) = n
  <2>1. Done(journal) = First(variant, n) /\ DOMAIN journal.artifacts = First(variant, n)
    BY <1>1, DoneCounted DEF Variants, Count
  <2>2. journal.stages \in Seq(StageSet) /\ Len(journal.stages) = n
    BY <1>2, <1>3
  <2>3. QED
    BY <2>1, <2>2
<1>5. n >= 5
  <2>1. StagesOf(variant)[5] \in First(variant, 5)
    BY DEF First
  <2>2. StagesOf(variant)[5] \in First(variant, n)
    BY <1>4, <2>1, ScienceFirst
  <2>3. QED
    BY <1>2, <1>3, <2>2, StageList DEF First, Variants
<1>6. bad \subseteq 6 .. n
  BY <1>2, <1>3, ScienceFirst
<1>7. bad # {} => least \in bad /\ \A k \in bad : least <= k
  <2>1. SUFFICES ASSUME bad # {} PROVE \E i \in bad : \A k \in bad : i <= k
    OBVIOUS
  <2>2. CASE 6 \in bad
    BY <1>3, <1>6, <2>2
  <2>3. CASE 6 \notin bad
    BY <1>3, <1>6, <2>1, <2>3
  <2>4. QED
    BY <2>2, <2>3
<1> DEFINE m == IF bad = {} THEN n ELSE least - 1
<1> HIDE DEF bad, least
<1>8. m \in 5 .. n /\ \A i \in 1 .. m : i \notin bad
  <2>1. CASE bad = {}
    BY <1>3, <1>5, <2>1
  <2>2. CASE bad # {}
    <3>1. least \in 6 .. n /\ \A k \in bad : least <= k
      BY <1>6, <1>7, <2>2
    <3>2. m = least - 1
      BY <2>2
    <3>3. QED
      BY <1>3, <1>6, <3>1, <3>2
  <2>3. QED
    BY <2>1, <2>2
<1>9. kept = [i \in 1 .. m |-> StagesOf(variant)[i]] /\ Len(kept) = m /\ ToSet(kept) = First(variant, m)
  <2>1. kept = [i \in 1 .. m |-> StagesOf(variant)[i]] /\ Len(kept) = m
    <3>1. CASE bad = {}
      BY <1>3, <1>4, <3>1
    <3>2. CASE bad # {}
      <4>1. kept = SubSeq(journal.stages, 1, m) /\ m \in 5 .. n
        BY <1>8, <3>2
      <4>2. QED
        BY <1>2, <1>3, <1>4, <4>1
    <3>3. QED
      BY <3>1, <3>2
  <2> HIDE DEF kept, m
  <2>2. ToSet(kept) = First(variant, m)
    <3>1. DOMAIN kept = 1 .. m /\ \A i \in 1 .. m : kept[i] = StagesOf(variant)[i]
      BY <2>1
    <3>2. QED
      BY <3>1, Zenon DEF ToSet, First
  <2>3. QED
    BY <2>1, <2>2
<1>10. r = [stages |-> kept,
            artifacts |-> [s \in DOMAIN journal.artifacts \cap ToSet(kept) |-> journal.artifacts[s]],
            manifest |-> journal.manifest]
  BY DEF RolledBack, bad, least
<1> HIDE DEF m, kept, r
<1>11. First(variant, m) \subseteq First(variant, n)
  BY <1>3, <1>8 DEF First
<1>12. /\ r.stages = kept /\ DOMAIN r.artifacts = First(variant, m)
       /\ \A s \in First(variant, m) : r.artifacts[s] = journal.artifacts[s]
  BY <1>4, <1>9, <1>10, <1>11
<1>13. Count(variant, r, m) /\ Len(r.stages) = m
  BY <1>2, <1>3, <1>8, <1>9, <1>12 DEF Count
<1>14. \A s \in First(variant, m) : Fits(variant, r, s, r.artifacts[s])
  <2>1. SUFFICES ASSUME NEW i \in 1 .. m PROVE Fits(variant, r, StagesOf(variant)[i], r.artifacts[StagesOf(variant)[i]])
    BY DEF First
  <2> DEFINE s == StagesOf(variant)[i]
  <2>2. ReadsOf(variant, s) \subseteq First(variant, i - 1) /\ UPSTREAM(s) \subseteq First(variant, i - 1)
    BY <1>2, <1>3, <1>8, ReadsEarlier DEF Variants
  <2>3. First(variant, i - 1) \subseteq First(variant, m)
    BY <1>3, <1>8 DEF First
  <2>4. s \in First(variant, m) /\ Fits(variant, journal, s, journal.artifacts[s])
    BY <1>4, <1>11 DEF First, Journal
  <2>5. QED
    BY <1>12, <2>2, <2>3, <2>4 DEF Fits
<1>15. \A s \in First(variant, m) : Intact(journal, s)
  <2>1. SUFFICES ASSUME NEW i \in 1 .. m PROVE Intact(journal, StagesOf(variant)[i])
    BY DEF First
  <2>2. CASE i <= 5
    BY <1>8, <2>2, ScienceFirst DEF First
  <2>3. CASE i > 5
    <3>1. i \in DOMAIN journal.stages /\ journal.stages[i] = StagesOf(variant)[i] /\ i \in 1 .. 7
      BY <1>3, <1>8
    <3>2. StagesOf(variant)[i] \in RECOVERABLE_STAGES /\ StagesOf(variant)[i] \in Done(journal)
      BY <1>3, <1>4, <1>8, <2>3, <3>1, ScienceFirst DEF First
    <3>3. QED
      BY <1>8, <3>1, <3>2 DEF Corrupt, bad
  <2>4. QED
    BY <1>3, <1>8, <2>2, <2>3
<1>16. (\A s \in DOMAIN journal.artifacts : Intact(journal, s)) => m = n
  <2>1. SUFFICES ASSUME \A s \in DOMAIN journal.artifacts : Intact(journal, s) PROVE bad = {}
    BY DEF m
  <2>2. QED
    BY <1>4, <2>1 DEF Corrupt, bad
<1>17. QED
  BY <1>3, <1>4, <1>8, <1>11, <1>12, <1>13, <1>14, <1>15, <1>16 DEF Journal, Agree, r

-----------------------------------------------------------------------------
(* The invariant.                                                          *)

Fields(p) == [mode |-> p.mode, step |-> p.step, at |-> p.at, mem |-> p.mem, date |-> p.date]

ShapeInv ==
  /\ variant \in Variants
  /\ DOMAIN file = StageSet
  /\ damages \in Nat
  /\ proc = Fields(proc)
  /\ proc.mode \in {"down", "run", "recover"}
  /\ ~Idle => proc.step \in {"manifest", "check", "write", "save"}
  /\ Up("manifest") => proc.mode = "run" /\ variant = "barrier3"

\* A journal on disk that loads is one of a single lineage, and only other hands
\* make its artifacts differ from it.
DiskInv ==
  journal # Torn \/ variant = "d20005" =>
    /\ Journal(variant, journal)
    /\ damages = 0 => \A s \in DOMAIN journal.artifacts : Intact(journal, s)

Working == ~Idle /\ proc.step \in {"check", "write", "save"}

\* A process that works has verified every stage before its own, and its journal
\* says what the one on disk says: all of it in a run, the science in a recovery.
WorkInv ==
  Working =>
    /\ proc.at \in 1 .. Len(StagesOf(variant)) + 1
    /\ Journal(variant, proc.mem)
    /\ \A s \in First(variant, proc.at - 1) :
         s \in DOMAIN proc.mem.artifacts /\ file[s] = proc.mem.artifacts[s]
    /\ proc.step # "check" =>
         proc.at \in DOMAIN StagesOf(variant) /\ Count(variant, proc.mem, proc.at - 1)
    /\ proc.step = "save" =>
         Fits(variant, proc.mem, StagesOf(variant)[proc.at], file[StagesOf(variant)[proc.at]])
    /\ Journal(variant, journal)
    /\ damages = 0 \/ proc.mode = "run" => Agree(proc.mem, journal)
    /\ proc.mode = "recover" =>
         /\ variant = "d20005"
         /\ proc.at > 5
         /\ \A s \in ScientificStages :
              /\ s \in DOMAIN journal.artifacts
              /\ s \in DOMAIN proc.mem.artifacts
              /\ journal.artifacts[s] = proc.mem.artifacts[s]

IInv == ShapeInv /\ DiskInv /\ WorkInv

LEMMA ShapeStep == ASSUME ShapeInv, [Next]_vars PROVE ShapeInv'
<1> USE DEF ShapeInv, Fields, Idle, Up
<1>1. ASSUME NEW date \in Dates, Start(date) \/ OpenManifest(date) PROVE ShapeInv'
  <2>1. CASE Start(date)
    BY <2>1 DEF Start
  <2>2. CASE OpenManifest(date)
    BY <2>2 DEF OpenManifest, Down
  <2>3. QED
    BY <1>1, <2>1, <2>2
<1>2. CASE Recover
  BY <1>2 DEF Recover
<1>3. CASE WriteManifest
  BY <1>3 DEF WriteManifest, Down
<1>4. CASE Skip \/ FailClosed \/ Begin \/ Finish \/ Save
  <2>1. CASE Skip
    BY <2>1 DEF Skip
  <2>2. CASE FailClosed \/ Finish
    BY <2>2 DEF FailClosed, Finish, Down
  <2>3. CASE Begin
    BY <2>3 DEF Begin
  <2>4. CASE Save
    BY <2>4 DEF Save
  <2>5. QED
    BY <1>4, <2>1, <2>2, <2>3, <2>4
<1>5. CASE Produce
  BY <1>5 DEF Produce
<1>6. CASE AcceptanceGate
  BY <1>6 DEF AcceptanceGate
<1>7. CASE Crash
  <2>1. DOMAIN file' = StageSet
    BY <1>7 DEF Crash
  <2>2. proc' = Down /\ UNCHANGED <<variant, damages>>
    BY <1>7 DEF Crash
  <2>3. QED
    BY <2>1, <2>2 DEF Down
<1>8. ASSUME NEW s \in StageSet, Damage(s) PROVE ShapeInv'
  BY <1>8 DEF Damage
<1>9. CASE UNCHANGED vars
  BY <1>9 DEF vars
<1>10. QED
  BY <1>1, <1>2, <1>3, <1>4, <1>5, <1>6, <1>7, <1>8, <1>9 DEF Next, Rerun, StepOn

\* The stage a working process has reached.
LEMMA Reached ==
  ASSUME ShapeInv, HasStage
  PROVE  /\ proc.at \in DOMAIN StagesOf(variant)
         /\ Stage = StagesOf(variant)[proc.at]
         /\ Stage \in StageSet
         /\ Stage \notin First(variant, proc.at - 1)
         /\ First(variant, proc.at) = First(variant, proc.at - 1) \cup {Stage}
<1>1. proc.at \in DOMAIN StagesOf(variant) /\ Stage = StagesOf(variant)[proc.at]
  BY OfVariant DEF HasStage, Stage
<1>2. proc.at \in 1 .. Len(StagesOf(variant)) /\ Len(StagesOf(variant)) \in Nat
  BY <1>1, StageList DEF ShapeInv
<1>3. Stage \notin First(variant, proc.at - 1)
  BY <1>1, <1>2, StageList DEF First, ShapeInv
<1>4. First(variant, proc.at) = First(variant, proc.at - 1) \cup {Stage}
  BY <1>1, <1>2 DEF First
<1>5. Stage \in StageSet
  BY <1>1, StageList DEF ShapeInv
<1>6. QED
  BY <1>1, <1>3, <1>4, <1>5

\* Between Begin and Save the stage is in no journal that agrees with the process.
LEMMA Unrecorded ==
  ASSUME IInv, Up("write") \/ Up("save")
  PROVE  /\ HasStage
         /\ Journal(variant, proc.mem) /\ Count(variant, proc.mem, proc.at - 1)
         /\ Stage \notin DOMAIN proc.mem.artifacts
         /\ proc.mode = "run" \/ damages = 0 => Stage \notin DOMAIN journal.artifacts
<1>1. Working /\ proc.step # "check"
  BY DEF Up, Working
<1>2. /\ proc.at \in DOMAIN StagesOf(variant) /\ Count(variant, proc.mem, proc.at - 1)
      /\ Journal(variant, proc.mem)
      /\ proc.mode = "run" \/ damages = 0 => Agree(proc.mem, journal)
  BY <1>1 DEF IInv, WorkInv
<1>3. HasStage
  BY <1>2, OfVariant DEF HasStage
<1>4. QED
  BY <1>2, <1>3, Reached DEF IInv, Count, Agree

\* Save makes a journal of one more stage, whose artifacts are those in place.
LEMMA SaveStep ==
  ASSUME IInv, Save
  PROVE  LET j == Completed(proc.mem, Stage, file[Stage]) IN
         /\ journal' = Saved(j) /\ Journal(variant, journal') /\ journal'.artifacts = j.artifacts
         /\ proc'.mem = j /\ Journal(variant, j) /\ Count(variant, j, proc.at)
         /\ \A s \in DOMAIN proc.mem.artifacts : j.artifacts[s] = proc.mem.artifacts[s]
         /\ \A s \in DOMAIN j.artifacts : file[s] = j.artifacts[s]
         /\ HasStage /\ UNCHANGED <<variant, file, damages>>
         /\ proc' = [proc EXCEPT !.step = "check", !.at = proc.at + 1, !.mem = j]
<1> DEFINE j == Completed(proc.mem, Stage, file[Stage])
<1>1. Up("save") /\ Working /\ proc.step = "save"
  BY DEF Save, Up, Working
<1>2. /\ HasStage /\ Journal(variant, proc.mem) /\ Count(variant, proc.mem, proc.at - 1)
  BY <1>1, Unrecorded
<1>3. /\ proc.at \in DOMAIN StagesOf(variant) /\ Stage = StagesOf(variant)[proc.at]
      /\ First(variant, proc.at) = First(variant, proc.at - 1) \cup {Stage}
  BY <1>2, Reached DEF IInv
<1>4. Fits(variant, proc.mem, Stage, file[Stage])
  BY <1>1, <1>3 DEF IInv, WorkInv
<1>5. variant \in Variants
  BY DEF IInv, ShapeInv
<1>6. /\ Journal(variant, j) /\ Count(variant, j, proc.at)
      /\ \A s \in DOMAIN proc.mem.artifacts : j.artifacts[s] = proc.mem.artifacts[s]
      /\ j.artifacts[Stage] = file[Stage]
  BY <1>2, <1>3, <1>4, <1>5, Completing
<1>7. \A s \in First(variant, proc.at - 1) : s \in DOMAIN proc.mem.artifacts /\ file[s] = proc.mem.artifacts[s]
  BY <1>1 DEF IInv, WorkInv
<1>8. \A s \in DOMAIN j.artifacts : file[s] = j.artifacts[s]
  BY <1>3, <1>6, <1>7 DEF Count
<1> HIDE DEF j
<1>9. /\ journal' = Saved(j) /\ UNCHANGED <<variant, file, damages>>
      /\ proc' = [proc EXCEPT !.step = "check", !.at = proc.at + 1, !.mem = j]
  BY DEF Save, j
<1>10. proc'.mem = j
  BY <1>9 DEF IInv, ShapeInv, Fields
<1>11. Journal(variant, Saved(j)) /\ Saved(j).artifacts = j.artifacts
  BY <1>5, <1>6, Saving
<1>12. QED
  BY <1>2, <1>6, <1>8, <1>9, <1>10, <1>11 DEF j

LEMMA DiskStep == ASSUME IInv, [Next]_vars PROVE DiskInv'
<1>1. CASE UNCHANGED <<variant, file, journal, damages>>
  BY <1>1 DEF IInv, DiskInv, Intact
<1>2. ASSUME Up("write"), NEW bytes, file' = [file EXCEPT ![Stage] = bytes],
             UNCHANGED <<variant, journal, damages>>
      PROVE  DiskInv'
  <2>1. damages = 0 => Stage \notin DOMAIN journal.artifacts
    BY <1>2, Unrecorded
  <2>2. \A s : s # Stage => file'[s] = file[s]
    BY <1>2
  <2>3. QED
    BY <1>2, <2>1, <2>2 DEF IInv, DiskInv, Intact
<1>3. CASE Save
  BY <1>3, SaveStep DEF DiskInv, Intact
<1>4. CASE Crash
  <2>1. CASE variant = "barrier3" /\ journal' = Torn
    BY <1>4, <2>1 DEF Crash, DiskInv
  <2>2. QED
    BY <1>1, <1>2, <1>4, <2>1 DEF Crash
<1>5. ASSUME NEW s \in StageSet, Damage(s) PROVE DiskInv'
  BY <1>5 DEF Damage, IInv, ShapeInv, DiskInv
<1>6. CASE Produce
  BY <1>2, <1>6 DEF Produce
<1>7. QED
  BY <1>1, <1>3, <1>4, <1>5, <1>6 DEF Next, vars, Rerun, Start, OpenManifest, Recover, StepOn, WriteManifest,
     Skip, FailClosed, Begin, Finish, AcceptanceGate

\* A process that starts to check from the first stage, with the journal on disk.
LEMMA StartsWorking ==
  ASSUME ShapeInv, Journal(variant, journal), variant' = variant, file' = file, journal' = journal,
         Journal(variant, proc'.mem), Agree(proc'.mem, journal),
         proc'.at = 1, proc'.step = "check", proc'.mode = "run"
  PROVE  WorkInv'
<1>1. First(variant, 0) = {}
  BY DEF First
<1>2. Len(StagesOf(variant)) \in Nat
  BY StageList DEF ShapeInv
<1>3. QED
  BY <1>1, <1>2 DEF WorkInv, Working, Idle, Agree

LEMMA RecoverStep == ASSUME IInv, Recover PROVE WorkInv'
<1> DEFINE r == RolledBack(journal)
<1>1. /\ variant = "d20005" /\ Journal(variant, journal)
      /\ \A s \in ScientificStages : s \in Done(journal) /\ Intact(journal, s)
      /\ damages = 0 => \A s \in DOMAIN journal.artifacts : Intact(journal, s)
  BY DEF Recover, IInv, DiskInv
<1>2. /\ Journal(variant, r)
      /\ Len(r.stages) \in 5 .. 7 /\ Count(variant, r, Len(r.stages))
      /\ \A s \in DOMAIN r.artifacts :
           /\ s \in DOMAIN journal.artifacts
           /\ r.artifacts[s] = journal.artifacts[s]
           /\ Intact(journal, s)
      /\ damages = 0 => Agree(r, journal)
  BY <1>1, RollingBack
<1>3. /\ proc' = [mode |-> "recover", step |-> "check", at |-> Len(r.stages) + 1, mem |-> r, date |-> None]
      /\ UNCHANGED <<variant, file, journal, damages>>
  BY DEF Recover
<1> HIDE DEF r
<1>4. PICK n \in 5 .. 7 : n = Len(r.stages)
  BY <1>2
<1>5. /\ Count(variant, r, n) /\ DOMAIN r.artifacts = First(variant, n)
      /\ proc'.mode = "recover" /\ proc'.step = "check" /\ proc'.at = n + 1 /\ proc'.mem = r
  BY <1>2, <1>3, <1>4 DEF Count
<1>6. n + 1 \in 6 .. 8 /\ (n + 1) - 1 = n
  OBVIOUS
<1>7. First(variant, 5) \subseteq First(variant, n)
  <2>1. 1 .. 5 \subseteq 1 .. n
    OBVIOUS
  <2>2. QED
    BY <2>1 DEF First
<1>8. Len(StagesOf(variant)) = 7
  BY <1>1, StageList DEF Variants
<1>9. /\ variant' = variant /\ file' = file /\ journal' = journal /\ damages' = damages
  BY <1>3
<1>10. \A s \in ScientificStages :
         s \in DOMAIN journal.artifacts /\ s \in DOMAIN r.artifacts /\ journal.artifacts[s] = r.artifacts[s]
  BY <1>1, <1>2, <1>5, <1>7, ScienceFirst
<1>11. \A s \in First(variant, n) : s \in DOMAIN r.artifacts /\ file[s] = r.artifacts[s]
  BY <1>2, <1>5 DEF Intact
<1>12. \A s \in First(variant', proc'.at - 1) : s \in DOMAIN proc'.mem.artifacts /\ file'[s] = proc'.mem.artifacts[s]
  BY <1>5, <1>6, <1>9, <1>11
<1>13. proc'.at \in 1 .. Len(StagesOf(variant')) + 1 /\ proc'.at > 5
  <2>1. Len(StagesOf(variant')) = 7
    BY <1>8, <1>9
  <2>2. n + 1 \in 1 .. 7 + 1 /\ n + 1 > 5
    BY <1>6
  <2>3. QED
    BY <1>5, <2>1, <2>2
<1>14. /\ Journal(variant', proc'.mem) /\ Journal(variant', journal')
       /\ damages' = 0 \/ proc'.mode = "run" => Agree(proc'.mem, journal')
  BY <1>1, <1>2, <1>5, <1>9
<1>15. \A s \in ScientificStages :
         s \in DOMAIN journal'.artifacts /\ s \in DOMAIN proc'.mem.artifacts /\ journal'.artifacts[s] = proc'.mem.artifacts[s]
  BY <1>5, <1>9, <1>10
<1>16. variant' = "d20005"
  BY <1>1, <1>9
<1>17. QED
  BY <1>5, <1>12, <1>13, <1>14, <1>15, <1>16 DEF WorkInv

LEMMA BeginStep == ASSUME IInv, Begin PROVE WorkInv'
<1>1. Working /\ proc.step = "check" /\ HasStage
  BY DEF Begin, Up, Working
<1>2. PICK n : Count(variant, proc.mem, n)
  BY <1>1 DEF IInv, WorkInv, Journal
<1>3. variant \in Variants /\ proc.at \in DOMAIN StagesOf(variant) /\ Stage = StagesOf(variant)[proc.at]
  BY <1>1, Reached DEF IInv, ShapeInv
<1>4. proc.at \in 1 .. Len(StagesOf(variant)) /\ n \in 0 .. Len(StagesOf(variant))
      /\ Len(StagesOf(variant)) \in Nat
  BY <1>2, <1>3, StageList DEF Count
<1>5. n < proc.at
  <2>1. Stage \notin First(variant, n)
    BY <1>2, <1>3, DoneCounted DEF Begin
  <2>2. QED
    BY <1>3, <1>4, <2>1 DEF First
<1>6. proc.at - 1 <= n
  <2>1. CASE proc.at = 1
    BY <1>4, <2>1
  <2>2. CASE proc.at # 1
    <3>1. proc.at - 1 \in DOMAIN StagesOf(variant) /\ proc.at - 1 \in 1 .. proc.at - 1
      BY <1>3, <1>4, <2>2, StageList
    <3>2. StagesOf(variant)[proc.at - 1] \in First(variant, n)
      BY <1>1, <1>2, <3>1 DEF IInv, WorkInv, First, Count
    <3>3. PICK i \in 1 .. n : StagesOf(variant)[proc.at - 1] = StagesOf(variant)[i]
      BY <3>2 DEF First
    <3>4. i = proc.at - 1
      BY <1>3, <1>4, <3>1, <3>3, StageList
    <3>5. QED
      BY <1>4, <3>3, <3>4
  <2>3. QED
    BY <2>1, <2>2
<1>7. n = proc.at - 1
  BY <1>4, <1>5, <1>6
<1>8. /\ proc'.step = "write" /\ proc'.mode = proc.mode /\ proc'.at = proc.at /\ proc'.mem = proc.mem
      /\ UNCHANGED <<variant, file, journal, damages>>
  BY DEF Begin, IInv, ShapeInv, Fields
<1>9. QED
  BY <1>1, <1>2, <1>3, <1>7, <1>8 DEF IInv, WorkInv, Working, Idle

LEMMA ProduceStep == ASSUME IInv, Produce PROVE WorkInv'
<1>1. Up("write") /\ Working /\ HasStage
  BY Unrecorded DEF Produce, Up, Working
<1>2. /\ proc.at \in DOMAIN StagesOf(variant) /\ Stage = StagesOf(variant)[proc.at]
      /\ Stage \in StageSet /\ Stage \notin First(variant, proc.at - 1)
      /\ variant \in Variants /\ DOMAIN file = StageSet
  BY <1>1, Reached DEF IInv, ShapeInv
<1>3. /\ proc'.step = "save" /\ proc'.mode = proc.mode /\ proc'.at = proc.at /\ proc'.mem = proc.mem
      /\ UNCHANGED <<variant, journal, damages>>
  BY DEF Produce, IInv, ShapeInv, Fields
<1>4. /\ file'[Stage] = Derived(Stage)
      /\ \A s \in First(variant, proc.at - 1) : file'[s] = file[s]
  BY <1>2 DEF Produce
<1>5. \A s \in First(variant, proc.at - 1) :
        s \in DOMAIN proc.mem.artifacts /\ file[s] = proc.mem.artifacts[s]
  BY <1>1 DEF IInv, WorkInv
<1>6. Fits(variant, proc.mem, Stage, Derived(Stage))
  <2>1. /\ ReadsOf(variant, Stage) \subseteq First(variant, proc.at - 1)
        /\ UPSTREAM(Stage) \subseteq First(variant, proc.at - 1)
    BY <1>2, ReadsEarlier
  <2>2. /\ Derived(Stage).read = [p \in ReadsOf(variant, Stage) |-> file[p]]
        /\ Derived(Stage).pins = [p \in UPSTREAM(Stage) |-> proc.mem.artifacts[p]]
    BY OfVariant DEF Derived
  <2>3. QED
    BY <1>5, <2>1, <2>2 DEF Fits
<1>7. QED
  BY <1>1, <1>2, <1>3, <1>4, <1>5, <1>6 DEF IInv, WorkInv, Working, Idle, Up

LEMMA WorkStep == ASSUME IInv, [Next]_vars PROVE WorkInv'
<1>1. CASE Idle'
  BY <1>1 DEF WorkInv, Working
<1>2. ASSUME NEW date, Start(date) PROVE WorkInv'
  <2>1. Journal(variant, journal)
    BY <1>2 DEF Start, IInv, DiskInv
  <2>2. QED
    BY <1>2, <2>1, StartsWorking DEF Start, IInv, Agree
<1>3. ASSUME NEW date, OpenManifest(date) PROVE WorkInv'
  BY <1>3 DEF OpenManifest, Down, WorkInv, Working
<1>4. CASE WriteManifest /\ ~Idle'
  <2>1. /\ proc' = [proc EXCEPT !.step = "check", !.at = 1, !.mem = proc'.mem]
        /\ Journal(variant, proc'.mem) /\ Agree(proc'.mem, journal) /\ Journal(variant, journal)
    <3>1. CASE journal = NewJournal(None)
      BY <1>4, <3>1, NewIsJournal DEF WriteManifest, IInv, ShapeInv, Fields, Agree, NewJournal
    <3>2. CASE journal # NewJournal(None)
      <4>1. journal # Torn /\ proc' = [proc EXCEPT !.step = "check", !.at = 1, !.mem = journal]
        BY <1>4, <3>2 DEF WriteManifest, Idle, Down
      <4>2. proc'.mem = journal
        BY <4>1 DEF IInv, ShapeInv, Fields
      <4>3. QED
        BY <4>1, <4>2 DEF IInv, DiskInv, Agree
    <3>3. QED
      BY <3>1, <3>2
  <2>2. proc'.at = 1 /\ proc'.step = "check" /\ proc'.mode = "run"
    BY <1>4, <2>1 DEF WriteManifest, IInv, ShapeInv, Fields
  <2>3. QED
    BY <1>4, <2>1, <2>2, StartsWorking DEF WriteManifest, IInv
<1>5. CASE Skip
  <2>1. Working /\ proc.step = "check" /\ HasStage
    BY <1>5 DEF Skip, Up, Working
  <2>2. /\ proc'.step = "check" /\ proc'.mode = proc.mode /\ proc'.at = proc.at + 1 /\ proc'.mem = proc.mem
        /\ UNCHANGED <<variant, file, journal, damages>>
    BY <1>5, <2>1 DEF Skip, IInv, ShapeInv, Fields
  <2>3. /\ proc.at \in DOMAIN StagesOf(variant)
        /\ First(variant, proc.at) = First(variant, proc.at - 1) \cup {Stage}
        /\ variant \in Variants
    BY <2>1, Reached DEF IInv, ShapeInv
  <2>4. Stage \in DOMAIN proc.mem.artifacts /\ file[Stage] = proc.mem.artifacts[Stage]
    <3>1. PICK n : Count(variant, proc.mem, n)
      BY <2>1 DEF IInv, WorkInv, Journal
    <3>2. Stage \in First(variant, n) /\ Intact(proc.mem, Stage)
      BY <1>5, <2>3, <3>1, DoneCounted DEF Skip
    <3>3. QED
      BY <3>1, <3>2 DEF Count, Intact
  <2>5. /\ proc.at + 1 \in 1 .. Len(StagesOf(variant)) + 1
        /\ (proc.at + 1) - 1 = proc.at
        /\ proc.mode = "recover" => proc.at + 1 > 5
    <3>1. Len(StagesOf(variant)) \in Nat /\ DOMAIN StagesOf(variant) = 1 .. Len(StagesOf(variant))
      BY <2>3, StageList
    <3>2. proc.mode = "recover" => proc.at > 5
      BY <2>1 DEF IInv, WorkInv
    <3>3. QED
      BY <2>3, <3>1, <3>2
  <2>6. QED
    BY <2>1, <2>2, <2>3, <2>4, <2>5 DEF IInv, WorkInv, Working, Idle
<1>6. CASE Save
  <2> DEFINE j == Completed(proc.mem, Stage, file[Stage])
  <2>1. Working
    BY <1>6 DEF Save, Up, Working
  <2>2. /\ journal' = Saved(j) /\ Journal(variant, journal') /\ journal'.artifacts = j.artifacts
        /\ proc'.mem = j /\ Journal(variant, j) /\ Count(variant, j, proc.at)
        /\ \A s \in DOMAIN proc.mem.artifacts : j.artifacts[s] = proc.mem.artifacts[s]
        /\ \A s \in DOMAIN j.artifacts : file[s] = j.artifacts[s]
        /\ HasStage /\ UNCHANGED <<variant, file, damages>>
        /\ proc' = [proc EXCEPT !.step = "check", !.at = proc.at + 1, !.mem = j]
        /\ DOMAIN j.artifacts = DOMAIN proc.mem.artifacts \cup {Stage}
    BY <1>6, SaveStep DEF Completed
  <2> HIDE DEF j
  <2>3. /\ proc.at \in DOMAIN StagesOf(variant) /\ variant \in Variants
    BY <2>2, Reached DEF IInv, ShapeInv
  <2>4. /\ proc'.step = "check" /\ proc'.mode = proc.mode /\ proc'.at = proc.at + 1 /\ proc'.mem = j
    BY <2>2 DEF IInv, ShapeInv, Fields
  <2>5. /\ proc.at + 1 \in 1 .. Len(StagesOf(variant)) + 1
        /\ (proc.at + 1) - 1 = proc.at
        /\ proc.mode = "recover" => proc.at + 1 > 5
    BY <2>1, <2>3, StageList DEF IInv, WorkInv
  <2>6. Agree(j, journal') /\ DOMAIN j.artifacts = First(variant, proc.at)
    BY <2>2 DEF Agree, Count
  <2>7. proc.mode = "recover" => variant = "d20005" /\ \A s \in ScientificStages :
          s \in DOMAIN j.artifacts /\ journal'.artifacts[s] = j.artifacts[s]
    BY <2>1, <2>2 DEF IInv, WorkInv
  <2>8. QED
    BY <2>1, <2>2, <2>3, <2>4, <2>5, <2>6, <2>7 DEF WorkInv, Working
<1>7. CASE AcceptanceGate \/ FailClosed \/ Finish \/ Crash
  BY <1>1, <1>7 DEF AcceptanceGate, FailClosed, Finish, Crash, Idle, Down
<1>8. ASSUME NEW s \in StageSet, Damage(s) PROVE WorkInv'
  BY <1>1, <1>8 DEF Damage, Idle
<1>9. CASE UNCHANGED vars
  BY <1>9 DEF vars, IInv, WorkInv, Working, Idle
<1>10. QED
  BY <1>1, <1>2, <1>3, <1>4, <1>5, <1>6, <1>7, <1>8, <1>9, RecoverStep, BeginStep, ProduceStep
     DEF Next, Rerun, StepOn

LEMMA InitStep == Init => IInv
<1>1. SUFFICES ASSUME Init PROVE IInv
  OBVIOUS
<1>2. variant \in Variants /\ journal = NewJournal(None) /\ proc = Down
  BY <1>1 DEF Init, Variants
<1>3. ShapeInv
  BY <1>1, <1>2 DEF Init, ShapeInv, Fields, Down, Idle, Up
<1>4. Journal(variant, journal) /\ DOMAIN journal.artifacts = {}
  BY <1>2, NewIsJournal DEF NewJournal
<1>5. DiskInv
  BY <1>4 DEF DiskInv
<1>6. WorkInv
  BY <1>2 DEF WorkInv, Working, Idle, Down
<1>7. QED
  BY <1>3, <1>5, <1>6 DEF IInv

LEMMA Invariant == Spec => []IInv
<1>1. Init => IInv
  BY InitStep
<1>2. IInv /\ [Next]_vars => IInv'
  BY ShapeStep, DiskStep, WorkStep DEF IInv
<1>3. QED
  BY <1>1, <1>2, PTL DEF Spec

-----------------------------------------------------------------------------
(* Theorems.                                                               *)

\* Evidence of different origins is never mixed: every journaled artifact was
\* computed from, and pins, what the journal records of the earlier stages.
THEOREM OneLineageAlways == Spec => []OneLineage
<1>1. IInv => OneLineage
  BY OfVariant DEF IInv, DiskInv, OneLineage, Journal, Fits
<1>2. QED
  BY <1>1, Invariant, PTL

\* n different stages are n stages.
LEMMA FirstCount ==
  ASSUME NEW v \in Variants, NEW n \in 0 .. Len(StagesOf(v))
  PROVE  Cardinality(First(v, n)) = n
<1> DEFINE f == [i \in 1 .. n |-> StagesOf(v)[i]]
<1>1. Len(StagesOf(v)) \in Nat /\ DOMAIN StagesOf(v) = 1 .. Len(StagesOf(v))
  BY StageList
<1>2. n \in Nat /\ 1 .. n \subseteq DOMAIN StagesOf(v)
  BY <1>1
<1>3. f \in Bijection(1 .. n, First(v, n))
  <2>1. f \in [1 .. n -> First(v, n)]
    BY DEF First
  <2>2. \A i, k \in 1 .. n : f[i] = f[k] => i = k
    BY <1>2, StageList
  <2>3. \A s \in First(v, n) : \E i \in 1 .. n : f[i] = s
    BY DEF First
  <2>4. QED
    BY <2>1, <2>2, <2>3 DEF Bijection, Injection, Surjection, IsInjective
<1>4. IsFiniteSet(1 .. n) /\ Cardinality(1 .. n) = n
  BY <1>2, FS_Interval
<1>5. QED
  BY <1>3, <1>4, FS_Bijection DEF ExistsBijection

\* CrashesAreHarmless: a journal that crashes leave loadable records an initial part
\* of the stages, each with its artifact in place (run, recover: artifact, then
\* journal entry).
THEOREM CrashesNeverHarm == Spec => []CrashesAreHarmless
<1>1. IInv => CrashesAreHarmless
  <2>1. SUFFICES ASSUME IInv, journal # Torn PROVE CrashesAreHarmless
    BY DEF CrashesAreHarmless
  <2>2. Journal(variant, journal) /\ variant \in Variants
    BY <2>1 DEF IInv, DiskInv, ShapeInv
  <2>3. PICK n : Count(variant, journal, n)
    BY <2>2 DEF Journal
  <2>4. Cardinality(DOMAIN journal.artifacts) = n
    BY <2>2, <2>3, FirstCount DEF Count
  <2>5. Done(journal) = {STAGES[i] : i \in 1 .. n}
    BY <2>2, <2>3, DoneCounted, OfVariant DEF First
  <2>6. QED
    BY <2>1, <2>4, <2>5 DEF IInv, DiskInv, CrashesAreHarmless
<1>2. QED
  BY <1>1, Invariant, PTL

\* What a step may do to one sealed artifact.
Kept(s) ==
  /\ journal' # Torn =>
       s \in DOMAIN journal'.artifacts /\ journal'.artifacts[s] = journal.artifacts[s]
  /\ damages' = damages => file'[s] = file[s]

\* A process that is about to write or has written a sealed stage has not recorded it.
LEMMA ScienceUnrecorded ==
  ASSUME IInv, journal # Torn, Up("write") \/ Up("save"),
         NEW s \in Science, s \in DOMAIN journal.artifacts
  PROVE  s # Stage
<1>1. CASE proc.mode = "run"
  BY <1>1, Unrecorded
<1>2. CASE proc.mode # "run"
  <2>1. Working /\ proc.mode = "recover" /\ HasStage
    BY <1>2, Unrecorded DEF Working, Up, Idle, IInv, ShapeInv
  <2>2. variant = "d20005" /\ proc.at > 5
    BY <2>1 DEF IInv, WorkInv
  <2>3. proc.at \in 1 .. 7 /\ Stage = StagesOf(variant)[proc.at]
    BY <2>1, <2>2, Reached, StageList DEF IInv, ShapeInv
  <2>4. Stage \notin Science
    BY <2>2, <2>3, ScienceFirst
  <2>5. QED
    BY <2>4
<1>3. QED
  BY <1>1, <1>2

\* The science a working process has in memory is what the journal on disk says.
LEMMA ScienceAgrees ==
  ASSUME IInv, Working, NEW s \in Science, s \in DOMAIN journal.artifacts
  PROVE  s \in DOMAIN proc.mem.artifacts /\ proc.mem.artifacts[s] = journal.artifacts[s]
<1>1. CASE proc.mode = "run"
  BY <1>1 DEF IInv, WorkInv, Agree
<1>2. CASE proc.mode # "run"
  <2>1. proc.mode = "recover"
    BY <1>2 DEF Working, Idle, IInv, ShapeInv
  <2>2. variant = "d20005" /\ Journal(variant, journal)
    BY <2>1 DEF IInv, WorkInv
  <2>3. PICK n : Count(variant, journal, n)
    BY <2>2 DEF Journal
  <2>4. n \in 0 .. 7 /\ s \in First("d20005", n)
    BY <2>2, <2>3, StageList DEF Count, Variants
  <2>5. PICK i \in 1 .. n : s = StagesOf("d20005")[i]
    BY <2>4 DEF First
  <2>6. i \in 1 .. 5
    BY <2>4, <2>5, ScienceFirst
  <2>7. s \in ScientificStages
    BY <2>5, <2>6, ScienceFirst DEF First
  <2>8. QED
    BY <2>1, <2>7 DEF IInv, WorkInv
<1>3. QED
  BY <1>1, <1>2

\* No rerun, recovery or crash records a sealed stage with other bytes, takes it
\* back or rewrites its artifact.
THEOREM ScienceWrittenOnce == Spec => ScienceIsWrittenOnce
<1>1. ASSUME IInv, [Next]_vars, journal # Torn, NEW s \in Science, s \in DOMAIN journal.artifacts
      PROVE  Kept(s)
  <2>1. CASE UNCHANGED <<file, journal>>
    BY <1>1, <2>1 DEF Kept
  <2>2. ASSUME Up("write"), NEW bytes, file' = [file EXCEPT ![Stage] = bytes], journal' = journal
        PROVE  Kept(s)
    BY <1>1, <2>2, ScienceUnrecorded DEF Kept
  <2>3. CASE Save
    <3>1. Working
      BY <2>3 DEF Save, Up, Working
    <3>2. s \in DOMAIN proc.mem.artifacts /\ proc.mem.artifacts[s] = journal.artifacts[s]
      BY <1>1, <3>1, ScienceAgrees
    <3>3. LET j == Completed(proc.mem, Stage, file[Stage]) IN
          /\ journal'.artifacts = j.artifacts
          /\ \A t \in DOMAIN proc.mem.artifacts : j.artifacts[t] = proc.mem.artifacts[t]
          /\ DOMAIN j.artifacts = DOMAIN proc.mem.artifacts \cup {Stage}
          /\ file' = file
      BY <1>1, <2>3, SaveStep DEF Completed
    <3>4. QED
      BY <3>2, <3>3 DEF Kept
  <2>4. CASE Crash
    <3>1. CASE journal' = Torn /\ file' = file
      BY <3>1 DEF Kept
    <3>2. QED
      BY <2>1, <2>2, <2>4, <3>1 DEF Crash
  <2>5. ASSUME NEW t \in StageSet, Damage(t) PROVE Kept(s)
    <3>1. damages' # damages /\ journal' = journal
      BY <1>1, <2>5 DEF Damage, IInv, ShapeInv
    <3>2. QED
      BY <1>1, <3>1 DEF Kept
  <2>6. CASE Produce
    BY <2>2, <2>6 DEF Produce
  <2>7. QED
    BY <1>1, <2>1, <2>3, <2>4, <2>5, <2>6 DEF Next, vars, Rerun, Start, OpenManifest, Recover, StepOn,
       WriteManifest, Skip, FailClosed, Begin, Finish, AcceptanceGate
<1>2. IInv /\ [Next]_vars =>
        [\A s \in ScientificStages \cup ToSet(Barrier3Stages) :
           journal # Torn /\ s \in DOMAIN journal.artifacts =>
             /\ journal' # Torn =>
                  s \in DOMAIN journal'.artifacts /\ journal'.artifacts[s] = journal.artifacts[s]
             /\ damages' = damages => file'[s] = file[s]]_vars
  BY <1>1 DEF Kept, Science
<1>3. QED
  BY <1>2, Invariant, PTL DEF Spec, ScienceIsWrittenOnce

-----------------------------------------------------------------------------
(* Refinement.                                                             *)

\* What two model values stand for: bytes that are no journal, and a record of
\* them that is no record of stages.
TornIsNoJournal == \A st, ar, m : [stages |-> st, artifacts |-> ar, manifest |-> m] # Torn
LostIsNoRecord == \A n, f : [i \in 1 .. n |-> f[i]] # Lost

\* Where a journal must load, it does, and a working process holds no more than
\* what is on disk.
MapInv ==
  /\ variant = "d20005" \/ Working => journal # Torn
  /\ Working => \A s \in DOMAIN proc.mem.artifacts :
       s \in DOMAIN journal.artifacts /\ journal.artifacts[s] = proc.mem.artifacts[s]

LEMMA SavedIsNotTorn == ASSUME TornIsNoJournal, NEW j, NEW s, NEW a PROVE Saved(Completed(j, s, a)) # Torn
BY DEF TornIsNoJournal, Saved, Completed

LEMMA MapStep == ASSUME TornIsNoJournal, IInv, MapInv, [Next]_vars PROVE MapInv'
<1>1. ASSUME UNCHANGED <<variant, journal>>, ~Working' PROVE MapInv'
  BY <1>1 DEF MapInv
<1>2. ASSUME UNCHANGED <<variant, journal>>, Working, proc'.mem = proc.mem PROVE MapInv'
  BY <1>2 DEF MapInv
<1>3. ASSUME UNCHANGED <<variant, journal>>, journal # Torn, proc'.mem = journal PROVE MapInv'
  BY <1>3 DEF MapInv
<1>4. ASSUME NEW date \in Dates, Start(date) PROVE MapInv'
  BY <1>3, <1>4 DEF Start, MapInv
<1>5. ASSUME NEW date \in Dates, OpenManifest(date) PROVE MapInv'
  BY <1>1, <1>5 DEF OpenManifest, Down, Working
<1>6. CASE Recover
  <2> DEFINE r == RolledBack(journal)
  <2>1. \A s \in DOMAIN r.artifacts : s \in DOMAIN journal.artifacts /\ r.artifacts[s] = journal.artifacts[s]
    <3>1. variant = "d20005" /\ Journal(variant, journal)
          /\ \A s \in ScientificStages : s \in Done(journal) /\ Intact(journal, s)
      BY <1>6 DEF Recover, IInv, DiskInv
    <3>2. QED
      BY <3>1, RollingBack
  <2>2. /\ proc' = [mode |-> "recover", step |-> "check", at |-> Len(r.stages) + 1, mem |-> r, date |-> None]
        /\ UNCHANGED <<variant, journal>> /\ variant = "d20005"
    BY <1>6 DEF Recover
  <2> HIDE DEF r
  <2>3. QED
    BY <2>1, <2>2 DEF MapInv
<1>7. CASE WriteManifest
  <2>1. CASE ~Working'
    BY <1>1, <1>7, <2>1 DEF WriteManifest
  <2>2. CASE Working'
    <3>1. journal # Torn /\ proc'.mem.artifacts = journal.artifacts
      <4>1. CASE journal = NewJournal(None)
        <5>1. journal # Torn
          BY <4>1 DEF NewJournal, TornIsNoJournal
        <5>2. proc'.mem = NewJournal(proc.date)
          BY <1>7, <4>1 DEF WriteManifest, IInv, ShapeInv, Fields
        <5>3. QED
          BY <4>1, <5>1, <5>2 DEF NewJournal
      <4>2. CASE journal # NewJournal(None)
        <5>1. journal # Torn /\ proc' = [proc EXCEPT !.step = "check", !.at = 1, !.mem = journal]
          BY <1>7, <2>2, <4>2 DEF WriteManifest, Working, Idle, Down
        <5>2. QED
          BY <5>1 DEF IInv, ShapeInv, Fields
      <4>3. QED
        BY <4>1, <4>2
    <3>2. QED
      BY <1>7, <3>1 DEF WriteManifest, MapInv
  <2>3. QED
    BY <2>1, <2>2
<1>8. CASE Skip \/ Begin \/ Produce
  <2>1. Working
    BY <1>8 DEF Skip, Begin, Produce, Up, Working
  <2>2. proc'.mem = proc.mem /\ UNCHANGED <<variant, journal>>
    BY <1>8 DEF Skip, Begin, Produce, IInv, ShapeInv, Fields
  <2>3. QED
    BY <1>2, <2>1, <2>2
<1>9. CASE Save
  <2> DEFINE j == Completed(proc.mem, Stage, file[Stage])
  <2>1. journal' = Saved(j) /\ journal'.artifacts = j.artifacts /\ proc'.mem = j /\ variant' = variant
    BY <1>9, SaveStep
  <2>2. journal' # Torn
    BY <2>1, SavedIsNotTorn
  <2> HIDE DEF j
  <2>3. QED
    BY <2>1, <2>2 DEF MapInv
<1>10. CASE Crash
  <2>1. ~Working'
    BY <1>10 DEF Crash, Down, Working, Idle
  <2>2. CASE journal' = journal
    BY <1>1, <1>10, <2>1, <2>2 DEF Crash
  <2>3. CASE variant = "barrier3" /\ variant' = variant
    BY <2>1, <2>3 DEF MapInv
  <2>4. QED
    BY <1>10, <2>2, <2>3 DEF Crash
<1>11. CASE FailClosed \/ Finish
  <2>1. ~Working' /\ UNCHANGED <<variant, journal>>
    BY <1>11 DEF FailClosed, Finish, Down, Working, Idle
  <2>2. QED
    BY <1>1, <2>1
<1>12. ASSUME UNCHANGED <<variant, journal, proc>> PROVE MapInv'
  BY <1>12 DEF MapInv, Working, Idle
<1>13. QED
  BY <1>4, <1>5, <1>6, <1>7, <1>8, <1>9, <1>10, <1>11, <1>12
     DEF Next, Rerun, StepOn, AcceptanceGate, Damage, vars

\* What the journal `j' records, in stage order.
RecordOf(v, j) == [i \in 1 .. Cardinality(DOMAIN j.artifacts) |-> j.artifacts[StagesOf(v)[i]]]

LEMMA RecordOfCount ==
  ASSUME NEW v \in Variants, NEW j, NEW n, DOMAIN j.artifacts = First(v, n), n \in 0 .. Len(StagesOf(v))
  PROVE  RecordOf(v, j) = [i \in 1 .. n |-> j.artifacts[StagesOf(v)[i]]]
BY FirstCount DEF RecordOf

LEMMA ListedIsSeq ==
  ASSUME NEW n \in Nat, NEW S, NEW q, DOMAIN q = 1 .. n, q = [i \in 1 .. n |-> q[i]],
         \A i \in 1 .. n : q[i] \in S
  PROVE  q \in Seq(S) /\ Len(q) = n
<1>1. q \in [1 .. n -> S]
  OBVIOUS
<1>2. QED
  BY <1>1

LEMMA PrefixOf ==
  ASSUME NEW S, NEW s \in Seq(S), NEW t \in Seq(S), NEW n \in Nat,
         n <= Len(s), n <= Len(t), \A i \in 1 .. n : s[i] = t[i]
  PROVE  /\ IsPrefix(SubSeq(t, 1, n), s)
         /\ Len(s) = n => IsPrefix(s, t)
<1>1. SubSeq(t, 1, n) = SubSeq(s, 1, n)
  <2>1. SubSeq(s, 1, n) \in Seq(S) /\ Len(SubSeq(s, 1, n)) = n
    OBVIOUS
  <2>2. SubSeq(t, 1, n) \in Seq(S) /\ Len(SubSeq(t, 1, n)) = n
    OBVIOUS
  <2>3. \A i \in 1 .. n : SubSeq(s, 1, n)[i] = s[i] /\ SubSeq(t, 1, n)[i] = t[i]
    OBVIOUS
  <2>4. \A i \in 1 .. n : SubSeq(t, 1, n)[i] = SubSeq(s, 1, n)[i]
    BY <2>3
  <2>5. QED
    BY <2>1, <2>2, <2>4, SeqEqual
<1>2. Len(SubSeq(s, 1, n)) = n /\ SubSeq(SubSeq(s, 1, n), 1, n) = SubSeq(s, 1, n)
  OBVIOUS
<1>3. Len(s) = n => SubSeq(s, 1, n) = s
  OBVIOUS
<1>4. QED
  BY <1>1, <1>2, <1>3 DEF IsPrefix

\* Saving adds one stage to the record, or takes back and rebuilds an unsealed one.
LEMMA SaveRecords ==
  ASSUME IInv, MapInv, Save
  PROVE  LET s == RecordOf(variant, journal)
             t == RecordOf(variant, journal')
         IN  \/ Len(t) = Len(s) + 1 /\ IsPrefix(s, t)
             \/ Len(t) \in 6 .. Len(s) /\ IsPrefix(SubSeq(t, 1, Len(t) - 1), s)
<1> DEFINE j == Completed(proc.mem, Stage, file[Stage])
           k == proc.at
           s == RecordOf(variant, journal)
           t == RecordOf(variant, journal')
<1>1. variant \in Variants /\ Working /\ Up("save")
  BY DEF IInv, ShapeInv, Save, Up, Working
<1>2. /\ journal'.artifacts = j.artifacts /\ Count(variant, j, k)
      /\ \A x \in DOMAIN proc.mem.artifacts : j.artifacts[x] = proc.mem.artifacts[x]
  BY SaveStep
<1>3. Count(variant, proc.mem, k - 1) /\ HasStage
  BY <1>1, Unrecorded
<1>4. PICK m : Count(variant, journal, m)
  BY <1>1 DEF IInv, WorkInv, Journal
<1> HIDE DEF j
<1>5. k \in DOMAIN StagesOf(variant) /\ Len(StagesOf(variant)) \in Nat
  BY <1>1, <1>3, Reached, StageList DEF IInv
<1>6. k \in 1 .. Len(StagesOf(variant)) /\ k \in Nat /\ k - 1 \in Nat /\ m \in Nat
  BY <1>1, <1>4, <1>5, StageList DEF Count
<1>7. \A x \in First(variant, k - 1) :
        x \in DOMAIN journal.artifacts /\ journal.artifacts[x] = journal'.artifacts[x]
  BY <1>1, <1>2, <1>3 DEF MapInv, Count
<1>8. k - 1 <= m
  <2>1. CASE k = 1
    BY <1>6, <2>1
  <2>2. CASE k # 1
    <3>1. k - 1 \in DOMAIN StagesOf(variant) /\ k - 1 \in 1 .. k - 1
      BY <1>1, <1>6, <2>2, StageList
    <3>2. StagesOf(variant)[k - 1] \in First(variant, m)
      BY <1>4, <1>7, <3>1 DEF First, Count
    <3>3. PICK i \in 1 .. m : StagesOf(variant)[k - 1] = StagesOf(variant)[i]
      BY <3>2 DEF First
    <3>4. i = k - 1
      BY <1>1, <1>4, <1>6, <3>1, <3>3, StageList DEF Count
    <3>5. QED
      BY <1>6, <3>3, <3>4
  <2>3. QED
    BY <2>1, <2>2
<1>9. /\ s = [i \in 1 .. m |-> journal.artifacts[StagesOf(variant)[i]]]
      /\ t = [i \in 1 .. k |-> journal'.artifacts[StagesOf(variant)[i]]]
  <2>1. DOMAIN journal.artifacts = First(variant, m) /\ m \in 0 .. Len(StagesOf(variant))
    BY <1>4 DEF Count
  <2>2. DOMAIN journal'.artifacts = First(variant, k) /\ k \in 0 .. Len(StagesOf(variant))
    BY <1>2 DEF Count
  <2>3. QED
    BY <1>1, <2>1, <2>2, RecordOfCount
<1> HIDE DEF s, t
<1> DEFINE S == {journal.artifacts[StagesOf(variant)[i]] : i \in 1 .. m}
                 \cup {journal'.artifacts[StagesOf(variant)[i]] : i \in 1 .. k}
<1>10. /\ s \in Seq(S) /\ t \in Seq(S) /\ Len(s) = m /\ Len(t) = k
       /\ \A i \in 1 .. k - 1 : s[i] = t[i]
  <2>1. \A i \in 1 .. k - 1 : i \in 1 .. m /\ i \in 1 .. k /\ StagesOf(variant)[i] \in First(variant, k - 1)
    BY <1>6, <1>8 DEF First
  <2>2. \A i \in 1 .. k - 1 : s[i] = t[i]
    BY <1>7, <1>9, <2>1
  <2>3. s \in Seq(S) /\ Len(s) = m
    <3>1. \A i \in 1 .. m : s[i] = journal.artifacts[StagesOf(variant)[i]] /\ journal.artifacts[StagesOf(variant)[i]] \in S
      BY <1>9
    <3> HIDE DEF S
    <3>2. DOMAIN s = 1 .. m /\ s = [i \in 1 .. m |-> s[i]]
      BY <1>9
    <3>3. QED
      BY <1>6, <3>1, <3>2, ListedIsSeq
  <2>4. t \in Seq(S) /\ Len(t) = k
    <3>1. \A i \in 1 .. k : t[i] = journal'.artifacts[StagesOf(variant)[i]] /\ journal'.artifacts[StagesOf(variant)[i]] \in S
      BY <1>9
    <3> HIDE DEF S
    <3>2. DOMAIN t = 1 .. k /\ t = [i \in 1 .. k |-> t[i]]
      BY <1>9
    <3>3. QED
      BY <1>6, <3>1, <3>2, ListedIsSeq
  <2>5. QED
    BY <2>2, <2>3, <2>4
<1> HIDE DEF S
<1>11. IsPrefix(SubSeq(t, 1, k - 1), s) /\ (m = k - 1 => IsPrefix(s, t))
  <2>1. k - 1 <= m /\ k - 1 <= k
    BY <1>6, <1>8
  <2>2. QED
    BY <1>6, <1>10, <2>1, PrefixOf
<1>12. CASE m # k - 1
  <2>1. proc.mode = "recover"
    <3>1. SUFFICES ASSUME Agree(proc.mem, journal) PROVE FALSE
      BY <1>1 DEF IInv, WorkInv, ShapeInv, Working, Idle
    <3>2. First(variant, k - 1) = First(variant, m) /\ m \in DOMAIN StagesOf(variant) /\ m > k - 1
      BY <1>1, <1>3, <1>4, <1>6, <1>8, <1>12, <3>1, StageList DEF Agree, Count
    <3>3. StagesOf(variant)[m] \in First(variant, k - 1)
      <4>1. m \in 1 .. m
        BY <1>6, <3>2
      <4>2. StagesOf(variant)[m] \in First(variant, m)
        BY <4>1 DEF First
      <4>3. QED
        BY <3>2, <4>2
    <3>4. QED
      BY <1>1, <1>6, <3>2, <3>3, StageList DEF First
  <2>2. k > 5
    BY <1>1, <2>1 DEF IInv, WorkInv
  <2>3. k <= m
    BY <1>6, <1>8, <1>12
  <2>4. Len(t) \in 6 .. Len(s) /\ Len(t) - 1 = k - 1
    BY <1>6, <1>10, <2>2, <2>3
  <2>5. QED
    BY <1>11, <2>4 DEF s, t
<1>13. CASE m = k - 1
  BY <1>6, <1>10, <1>11, <1>13 DEF s, t
<1>14. QED
  BY <1>12, <1>13

LEMMA SealedCount == Len(D20005Stages) - Cardinality(RECOVERABLE_STAGES) = 5
<1>1. Cardinality({"release"}) = 1 /\ IsFiniteSet({"release"})
  BY FS_Singleton
<1>2. {"release"} \cup {"export"} = RECOVERABLE_STAGES /\ "export" \notin {"release"}
  BY DEF RECOVERABLE_STAGES
<1>3. Cardinality(RECOVERABLE_STAGES) = 2
  BY <1>1, <1>2, FS_AddElement
<1>4. Len(D20005Stages) = 7
  BY DEF D20005Stages
<1>5. QED
  BY <1>3, <1>4

\* RefinesStagedRun: the journal on disk records stages one at a time and for good;
\* only recovery rebuilds unsealed ones, and only a journal written in place is lost
\* (run_rehearsal of both variants, recover_run).
THEOREM StagedRefinement ==
  ASSUME TornIsNoJournal, LostIsNoRecord
  PROVE  Spec => RefinesStagedRun
<1> DEFINE bar == IF journal = Torn THEN Lost
                  ELSE [i \in 1 .. Cardinality(DOMAIN journal.artifacts) |-> journal.artifacts[STAGES[i]]]
           atom == variant = "d20005"
<1>1. bar = IF journal = Torn THEN Lost ELSE RecordOf(variant, journal)
  BY OfVariant DEF RecordOf
<1>2. \A v, j : RecordOf(v, j) # Lost
  BY DEF LostIsNoRecord, RecordOf
<1>3. Init => MapInv /\ atom \in BOOLEAN /\ bar = << >>
  <2>1. SUFFICES ASSUME Init PROVE MapInv /\ bar = << >>
    OBVIOUS
  <2>2. journal = NewJournal(None) /\ proc = Down /\ variant \in Variants
    BY <2>1 DEF Init, Variants
  <2>3. journal # Torn /\ DOMAIN journal.artifacts = {}
    BY <2>2 DEF NewJournal, TornIsNoJournal
  <2>4. MapInv
    BY <2>2, <2>3 DEF MapInv, Working, Idle, Down
  <2>5. RecordOf(variant, journal) = << >>
    BY <2>3, FS_EmptySet DEF RecordOf
  <2>6. QED
    BY <1>1, <2>3, <2>4, <2>5
<1> HIDE DEF bar
<1>4. ASSUME IInv, MapInv, [Next]_vars, atom' # atom \/ bar' # bar PROVE Abstract!Next
  <2>1. variant' = variant
    <3>1. CASE UNCHANGED vars
      BY <3>1 DEF vars
    <3>2. ASSUME NEW date \in Dates, Start(date) \/ OpenManifest(date) PROVE variant' = variant
      BY <3>2 DEF Start, OpenManifest
    <3>3. CASE StepOn
      BY <3>3 DEF StepOn, WriteManifest, Skip, FailClosed, Begin, Produce, Save, Finish
    <3>4. CASE Recover \/ AcceptanceGate \/ Crash \/ \E x \in StageSet : Damage(x)
      BY <3>4 DEF Recover, AcceptanceGate, Crash, Damage
    <3>5. QED
      BY <1>4, <3>1, <3>2, <3>3, <3>4 DEF Next, Rerun
  <2>2. bar' = IF journal' = Torn THEN Lost ELSE RecordOf(variant, journal')
    <3>1. STAGES' = StagesOf(variant)
      BY <2>1 DEF STAGES, StagesOf
    <3>2. QED
      BY <3>1 DEF bar, RecordOf
  <2>3. journal' # journal
    BY <1>1, <1>4, <2>1, <2>2
  <2>4. CASE Save
    <3>1. journal # Torn /\ journal' # Torn
      BY <2>4, MapStep, <1>4, SaveStep, SavedIsNotTorn DEF Save, Up, Working, MapInv
    <3>2. bar = RecordOf(variant, journal) /\ bar' = RecordOf(variant, journal')
      BY <1>1, <2>2, <3>1
    <3>3. \/ Len(bar') = Len(bar) + 1 /\ IsPrefix(bar, bar')
          \/ Len(bar') \in 6 .. Len(bar) /\ IsPrefix(SubSeq(bar', 1, Len(bar') - 1), bar)
      BY <1>4, <2>4, <3>2, SaveRecords
    <3>4. bar # Lost /\ bar' # Lost
      BY <1>2, <3>2
    <3>5. UNCHANGED atom
      BY <2>1
    <3>6. CASE Len(bar') = Len(bar) + 1 /\ IsPrefix(bar, bar')
      <4>1. Abstract!Complete
        BY <3>4, <3>6 DEF Abstract!Complete, Abstract!IsPrefix, IsPrefix, bar
      <4>2. QED
        BY <3>5, <4>1 DEF Abstract!Next
    <3>7. CASE Len(bar') \in 6 .. Len(bar) /\ IsPrefix(SubSeq(bar', 1, Len(bar') - 1), bar)
      <4>1. Len(D20005Stages) - Cardinality(RECOVERABLE_STAGES) + 1 = 6
        BY SealedCount
      <4>2. Len(bar') \in Len(D20005Stages) - Cardinality(RECOVERABLE_STAGES) + 1 .. Len(bar)
        BY <3>7, <4>1
      <4>3. Abstract!Rebuild
        BY <3>4, <3>7, <4>2 DEF Abstract!Rebuild, Abstract!IsPrefix, IsPrefix, bar
      <4>4. QED
        BY <3>5, <4>3 DEF Abstract!Next
    <3>8. QED
      BY <3>3, <3>6, <3>7
  <2>5. CASE Crash
    <3>1. variant = "barrier3" /\ journal' = Torn
      BY <2>3, <2>5 DEF Crash
    <3>2. QED
      BY <2>1, <2>2, <3>1 DEF Abstract!Next, Abstract!Lose, bar
  <2>6. CASE UNCHANGED vars
    BY <2>3, <2>6 DEF vars
  <2>7. ASSUME NEW date \in Dates, Start(date) \/ OpenManifest(date) PROVE FALSE
    BY <2>3, <2>7 DEF Start, OpenManifest
  <2>8. CASE StepOn /\ ~Save
    BY <2>3, <2>8 DEF StepOn, WriteManifest, Skip, FailClosed, Begin, Produce, Finish
  <2>9. CASE Recover \/ AcceptanceGate \/ \E x \in StageSet : Damage(x)
    BY <2>3, <2>9 DEF Recover, AcceptanceGate, Damage
  <2>10. QED
    BY <1>4, <2>4, <2>5, <2>6, <2>7, <2>8, <2>9 DEF Next, Rerun
<1>5. Init => Abstract!Init
  BY <1>3 DEF Abstract!Init, bar
<1>6. IInv /\ MapInv /\ [Next]_vars => [Abstract!Next]_<<atom, bar>>
  BY <1>4
<1>7. QED
  BY <1>3, <1>5, <1>6, Invariant, MapStep, PTL DEF Spec, RefinesStagedRun, Abstract!Spec, bar
=============================================================================
