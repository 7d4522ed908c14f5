------------------------------ MODULE Rehearsal ------------------------------
(***************************************************************************)
(* The two staged rehearsals and the recovery tool, each over one output   *)
(* directory: certification/rehearsal_d20005.py (variant "d20005"),        *)
(* certification/rehearsal_barrier3.py with its core (variant "barrier3"), *)
(* and certification/evidence_recovery.py, which finishes the last stages  *)
(* of a d20005 run.  A run verifies the stages its journal names, produces *)
(* the missing ones in order and journals each after its artifact.         *)
(*                                                                         *)
(* The bytes of an artifact are modelled by what they were computed from,  *)
(* and a sha256 by the bytes, so that equal hashes are equal derivations.  *)
(* One artifact stands for all files of a stage.  One process works on a   *)
(* directory at a time; it may die at any step, inside a write too.  Other *)
(* hands (Damage) change the directory only between runs.                  *)
(***************************************************************************)
EXTENDS Naturals, Sequences, SequencesExt, FiniteSets

CONSTANTS
  Dates,        \* values of created_utc
  DefaultDate,  \* DEFAULT_CREATED_UTC
  None,         \* no such file, no such value
  Torn,         \* a file cut short in the middle of its write
  Foreign,      \* a whole file with other bytes than any stage produces
  Lost,         \* the abstract record when the journal is torn
  MaxCrashes,   \* bound: processes that die
  MaxDamage     \* bound: artifacts changed by other hands

ASSUME RehearsalAssumption ==
  /\ DefaultDate \in Dates
  /\ None \notin Dates
  /\ Torn \notin Dates
  /\ Torn # None
  /\ MaxCrashes \in Nat
  /\ MaxDamage \in Nat

VARIABLES
  variant,   \* which rehearsal the directory belongs to
  file,      \* the artifact of each stage
  manifest,  \* run-manifest.json, named by its created_utc (barrier3)
  journal,   \* rehearsal_journal.json
  proc,      \* the process that works on the directory
  package,   \* what the final report vouches for
  gate,      \* verdict of the acceptance gate on the directory as it is
  crashes, damages

vars == <<variant, file, manifest, journal, proc, package, gate, crashes, damages>>

-----------------------------------------------------------------------------
(* Stages.                                                                 *)

D20005Stages == <<"fixture", "selection", "freeze", "analysis", "seal", "release", "export">>

Barrier3Stages == <<"optimization", "eot", "detector_science", "pareto_style",
                    "printability", "physical_transfer">>

\* The order in which sort_keys=True writes the keys of `completed`.
Barrier3Keys == <<"detector_science", "eot", "optimization", "pareto_style",
                  "physical_transfer", "printability">>

STAGES == IF variant = "d20005" THEN D20005Stages ELSE Barrier3Stages
StageSet == ToSet(D20005Stages) \cup ToSet(Barrier3Stages)

\* Stages whose artifacts a stage reads, from disk or as data of this run.
D20005Reads(s) ==
  CASE s = "freeze"   -> {"selection"}
    [] s = "analysis" -> {"fixture"}
    [] s = "seal"     -> {"selection", "analysis"}
    [] s = "release"  -> {"fixture", "selection", "freeze", "analysis", "seal"}
    [] s = "export"   -> {"selection", "freeze", "analysis"}
    [] OTHER          -> {}

Barrier3Reads(s) ==
  CASE s = "eot"               -> {"optimization"}
    [] s = "detector_science"  -> {"eot"}
    [] s = "pareto_style"      -> {"optimization", "eot", "detector_science"}
    [] s = "printability"      -> {"eot"}
    [] s = "physical_transfer" -> {"eot", "detector_science"}
    [] OTHER                   -> {}

\* Stages whose journaled hash a stage writes into its own artifact.
UPSTREAM(s) ==
  CASE s \in {"freeze", "seal"}                  -> {"fixture"}
    [] s = "eot"                                 -> {"optimization"}
    [] s \in {"detector_science", "printability"} -> {"eot"}
    [] s = "pareto_style"                        -> {"optimization", "detector_science"}
    [] s = "physical_transfer"                   -> {"eot", "detector_science"}
    [] OTHER                                     -> {}

Reads(s) == IF variant = "d20005" THEN D20005Reads(s) ELSE Barrier3Reads(s)

\* The stages that carry created_utc: the barrier 3 ones through the manifest.
Dated(s) == variant = "barrier3" \/ s \in {"seal", "release"}

RECOVERABLE_STAGES == {"release", "export"}
ScientificStages == {"fixture", "selection", "freeze", "analysis", "seal"}

-----------------------------------------------------------------------------
(* Journals.                                                               *)

NewJournal(d) == [stages |-> << >>, artifacts |-> << >>, manifest |-> d]

\* d20005 asks the list, barrier3 the keys.
Done(j) == IF variant = "d20005" THEN ToSet(j.stages) ELSE DOMAIN j.artifacts

Completed(j, s, sha) ==
  [stages    |-> Append(j.stages, s),
   artifacts |-> [t \in DOMAIN j.artifacts \cup {s} |-> IF t = s THEN sha ELSE j.artifacts[t]],
   manifest  |-> j.manifest]

\* What is on disk after the journal in memory is written.
Saved(j) ==
  IF variant = "d20005" THEN j
  ELSE [stages    |-> SelectSeq(Barrier3Keys, LAMBDA s : s \in DOMAIN j.artifacts),
        artifacts |-> j.artifacts,
        manifest  |-> j.manifest]

\* _journal_load: no stage twice, an initial part of STAGES.
InOrder(j) == IsPrefix(j.stages, STAGES)

\* Mutant: an artifact that is there is good enough.
IsPresent(j, s) == file[s] # None

\* Every recorded artifact is there and hashes to what the journal says.
Intact(j, s) == file[s] = j.artifacts[s]

-----------------------------------------------------------------------------
(* The processes.                                                          *)

Down == [mode |-> "down", step |-> "none", at |-> 0, mem |-> NewJournal(None), date |-> None]

Init ==
  /\ variant \in {"d20005", "barrier3"}
  /\ file = [s \in StageSet |-> None]
  /\ manifest = None
  /\ journal = NewJournal(None)
  /\ proc = Down
  /\ package = None
  /\ gate = "none"
  /\ crashes = 0
  /\ damages = 0

Idle == proc.mode = "down"
Up(step) == ~Idle /\ proc.step = step
Stage == STAGES[proc.at]
HasStage == proc.at \in DOMAIN STAGES

\* Mutant: a rerun does not load the journal.
StartAfresh(date) ==
  /\ Idle
  /\ variant = "d20005"
  /\ proc' = [Down EXCEPT !.mode = "run", !.step = "check", !.at = 1, !.date = date]
  /\ gate' = "none"
  /\ UNCHANGED <<variant, file, manifest, journal, package, crashes, damages>>

\* d20005 run_rehearsal up to its first stage.
Start(date) ==
  /\ Idle
  /\ variant = "d20005"
  /\ InOrder(journal)
  /\ proc' = [mode |-> "run", step |-> "check", at |-> 1, mem |-> journal, date |-> date]
  /\ gate' = "none"
  /\ UNCHANGED <<variant, file, manifest, journal, package, crashes, damages>>

\* barrier3 run_rehearsal: another manifest than the directory's is refused,
\* the same one is written again.
OpenManifest(date) ==
  /\ Idle
  /\ variant = "barrier3"
  /\ manifest \in {None, date}
  /\ proc' = [Down EXCEPT !.mode = "run", !.step = "manifest", !.date = date]
  /\ gate' = "none"
  /\ UNCHANGED <<variant, file, manifest, journal, package, crashes, damages>>

\* _load_journal follows: a torn journal and one of another manifest are refused.
WriteManifest ==
  /\ Up("manifest")
  /\ manifest' = proc.date
  /\ proc' =
       IF journal = NewJournal(None)
       THEN [proc EXCEPT !.step = "check", !.at = 1, !.mem = NewJournal(proc.date)]
       ELSE IF journal # Torn /\ journal.manifest = proc.date
       THEN [proc EXCEPT !.step = "check", !.at = 1, !.mem = journal]
       ELSE Down
  /\ UNCHANGED <<variant, file, journal, package, gate, crashes, damages>>

\* resume_check: a completed stage is verified and skipped ...
Skip ==
  /\ Up("check") /\ HasStage
  /\ Stage \in Done(proc.mem)
  /\ Intact(proc.mem, Stage)
  /\ proc' = [proc EXCEPT !.at = @ + 1]
  /\ UNCHANGED <<variant, file, manifest, journal, package, gate, crashes, damages>>

\* Mutant: a stage whose artifact changed is emitted again.
EmitAgain ==
  /\ Up("check") /\ HasStage
  /\ Stage \in Done(proc.mem)
  /\ ~Intact(proc.mem, Stage)
  /\ proc' = [proc EXCEPT !.step = "write"]
  /\ UNCHANGED <<variant, file, manifest, journal, package, gate, crashes, damages>>

\* ... or the run fails closed.
FailClosed ==
  /\ Up("check") /\ HasStage
  /\ Stage \in Done(proc.mem)
  /\ ~Intact(proc.mem, Stage)
  /\ proc' = Down
  /\ UNCHANGED <<variant, file, manifest, journal, package, gate, crashes, damages>>

Derived(s) ==
  [stage |-> s,
   date  |-> IF ~Dated(s) THEN None
             ELSE IF proc.mode = "recover" THEN DefaultDate ELSE proc.date,
   read  |-> [p \in Reads(s) |-> file[p]],
   pins  |-> [p \in UPSTREAM(s) |-> proc.mem.artifacts[p]]]

\* Mutant: journaled before the artifact is written.
BeginJournaled ==
  /\ Up("check") /\ HasStage
  /\ Stage \notin Done(proc.mem)
  /\ proc' = [proc EXCEPT !.step = "write"]
  /\ journal' = Saved(Completed(proc.mem, Stage, Derived(Stage)))
  /\ UNCHANGED <<variant, file, manifest, package, gate, crashes, damages>>

Begin ==
  /\ Up("check") /\ HasStage
  /\ Stage \notin Done(proc.mem)
  /\ proc' = [proc EXCEPT !.step = "write"]
  /\ UNCHANGED <<variant, file, manifest, journal, package, gate, crashes, damages>>

\* The files of the stage are written in place.
Produce ==
  /\ Up("write")
  /\ file' = [file EXCEPT ![Stage] = Derived(Stage)]
  /\ proc' = [proc EXCEPT !.step = "save"]
  /\ UNCHANGED <<variant, manifest, journal, package, gate, crashes, damages>>

\* complete: into the journal in memory, then to disk.
Save ==
  /\ Up("save")
  /\ LET j == Completed(proc.mem, Stage, file[Stage]) IN
     /\ journal' = Saved(j)
     /\ proc' = [proc EXCEPT !.step = "check", !.at = @ + 1, !.mem = j]
  /\ UNCHANGED <<variant, file, manifest, package, gate, crashes, damages>>

Snapshot == [file |-> file, journal |-> journal, manifest |-> manifest]

\* The summary of d20005; telemetry, report and hashes.sha256 of barrier3.
Finish ==
  /\ Up("check") /\ ~HasStage
  /\ package' = IF proc.mode = "run" THEN Snapshot ELSE package
  /\ proc' = Down
  /\ UNCHANGED <<variant, file, manifest, journal, gate, crashes, damages>>

-----------------------------------------------------------------------------
(* recover_run.                                                            *)

Corrupt(j, s) == s \in Done(j) /\ ~Intact(j, s)

\* Mutant: a corrupt stage stays recorded.
NeverRolledBack(j) == j

\* The journal rolled back to before its first corrupt recoverable stage.
RolledBack(j) ==
  LET bad == {i \in DOMAIN j.stages :
                j.stages[i] \in RECOVERABLE_STAGES /\ Corrupt(j, j.stages[i])}
      kept == IF bad = {} THEN j.stages
              ELSE SubSeq(j.stages, 1, (CHOOSE i \in bad : \A k \in bad : i <= k) - 1)
  IN  [stages    |-> kept,
       artifacts |-> [s \in DOMAIN j.artifacts \cap ToSet(kept) |-> j.artifacts[s]],
       manifest  |-> j.manifest]

\* Corrupt or missing science is refused before anything is written; a stage
\* that classifies as done is passed over without another look.
Recover ==
  /\ Idle
  /\ variant = "d20005"
  /\ InOrder(journal)
  /\ \A s \in ScientificStages :
       s \in Done(journal) /\ Intact(journal, s)
  /\ LET j == RolledBack(journal) IN
     /\ Len(j.stages) < Len(STAGES)
     /\ proc' = [mode |-> "recover", step |-> "check", at |-> Len(j.stages) + 1,
                 mem |-> j, date |-> None]
  /\ gate' = "none"
  /\ UNCHANGED <<variant, file, manifest, journal, package, crashes, damages>>

-----------------------------------------------------------------------------
(* run_acceptance_gate.                                                    *)

GateAccepts ==
  /\ manifest \in Dates
  /\ journal # Torn
  /\ journal.stages = STAGES
  /\ \A s \in ToSet(STAGES) :
       /\ s \in Done(journal) /\ Intact(journal, s)
       /\ \A p \in UPSTREAM(s) : file[s].pins[p] = journal.artifacts[p]
  /\ package = Snapshot

AcceptanceGate ==
  /\ Idle
  /\ variant = "barrier3"
  /\ gate' = IF GateAccepts THEN "pass" ELSE "fail"
  /\ UNCHANGED <<variant, file, manifest, journal, proc, package, crashes, damages>>

-----------------------------------------------------------------------------
(* Faults.                                                                 *)

\* A write in place leaves the old file, a part of the new one or all of it;
\* the journal of d20005 is replaced in one step.
Crash ==
  /\ ~Idle
  /\ crashes < MaxCrashes
  /\ crashes' = crashes + 1
  /\ proc' = Down
  /\ \/ UNCHANGED <<file, manifest, journal, package>>
     \/ /\ Up("write")
        /\ file' = [file EXCEPT ![Stage] = Torn]
        /\ UNCHANGED <<manifest, journal, package>>
     \/ /\ Up("save") /\ variant = "barrier3"
        /\ journal' = Torn
        /\ UNCHANGED <<file, manifest, package>>
     \/ /\ Up("manifest")
        /\ manifest' = Torn
        /\ UNCHANGED <<file, journal, package>>
     \/ /\ Up("check") /\ ~HasStage
        /\ package' = Torn
        /\ UNCHANGED <<file, manifest, journal>>
  /\ UNCHANGED <<variant, gate, damages>>

Damage(s) ==
  /\ Idle
  /\ damages < MaxDamage
  /\ damages' = damages + 1
  /\ s \in ToSet(STAGES)
  /\ \E bytes \in {None, Foreign} :
       /\ file[s] # bytes
       /\ file' = [file EXCEPT ![s] = bytes]
  /\ gate' = "none"
  /\ UNCHANGED <<variant, manifest, journal, proc, package, crashes>>

-----------------------------------------------------------------------------

StepOn == WriteManifest \/ Skip \/ FailClosed \/ Begin \/ Produce \/ Save \/ Finish

Rerun == \E date \in Dates : Start(date) \/ OpenManifest(date)

Next ==
  \/ Rerun \/ Recover
  \/ StepOn
  \/ AcceptanceGate
  \/ Crash \/ \E s \in StageSet : Damage(s)

Fairness == WF_vars(StepOn) /\ WF_vars(Rerun) /\ SF_vars(Recover)

Spec == Init /\ [][Next]_vars /\ Fairness

-----------------------------------------------------------------------------
(* Properties.                                                             *)

\* Types: every artifact is absent, torn, foreign or produced by its own stage,
\* and journals record each stage they list.
IsJournal(j) == DOMAIN j.artifacts \subseteq StageSet /\ ToSet(j.stages) = DOMAIN j.artifacts

TypeOK ==
  /\ \A s \in StageSet : file[s] \notin {None, Torn, Foreign} => file[s].stage = s
  /\ manifest \in Dates \cup {None, Torn}
  /\ journal # Torn => IsJournal(journal)
  /\ IsJournal(proc.mem)
  /\ proc.mode \in {"down", "run", "recover"}
  /\ proc.step \in {"none", "manifest", "check", "write", "save"}
  /\ proc.at \in 0 .. Len(STAGES) + 1
  /\ gate \in {"none", "pass", "fail"}
  /\ crashes \in 0 .. MaxCrashes
  /\ damages \in 0 .. MaxDamage

\* Everything a journaled artifact was computed from, and every hash it pins,
\* is what the journal records of that stage: a resumed or recovered directory
\* never mixes evidence of different origins.
OneLineage ==
  journal # Torn =>
    \A s \in DOMAIN journal.artifacts :
      LET a == journal.artifacts[s] IN
      /\ \A p \in Reads(s) : p \in DOMAIN journal.artifacts /\ a.read[p] = journal.artifacts[p]
      /\ \A p \in UPSTREAM(s) : p \in DOMAIN journal.artifacts /\ a.pins[p] = journal.artifacts[p]

\* Whatever crashes did, a journal that loads records an initial part of the
\* stages and, unless other hands changed them, every recorded artifact is intact:
\* neither its artifact checks nor its stage order can refuse the next run.  A
\* manifest or a journal that a crash has torn still can.
CrashesAreHarmless ==
  journal # Torn =>
    /\ Done(journal) = {STAGES[i] : i \in 1 .. Cardinality(DOMAIN journal.artifacts)}
    /\ damages = 0 => \A s \in DOMAIN journal.artifacts : Intact(journal, s)

\* A sealed stage that is journaled is never journaled again with other bytes,
\* taken back or rewritten by any run or recovery.
ScienceIsWrittenOnce ==
  [][\A s \in ScientificStages \cup ToSet(Barrier3Stages) :
       journal # Torn /\ s \in DOMAIN journal.artifacts =>
         /\ journal' # Torn =>
              s \in DOMAIN journal'.artifacts /\ journal'.artifacts[s] = journal.artifacts[s]
         /\ damages' = damages => file'[s] = file[s]]_vars

\* The journal on disk implements the abstract record of a staged run.
Abstract == INSTANCE StagedRun WITH
  Sealed <- Len(D20005Stages) - Cardinality(RECOVERABLE_STAGES),
  atomic <- variant = "d20005",
  record <- IF journal = Torn THEN Lost
            ELSE [i \in 1 .. Cardinality(DOMAIN journal.artifacts) |-> journal.artifacts[STAGES[i]]]

RefinesStagedRun == Abstract!Spec

\* A directory that no rerun and no recovery can finish any more.
Stuck ==
  \/ journal = Torn \/ manifest = Torn
  \/ \E s \in DOMAIN journal.artifacts :
       /\ ~Intact(journal, s)
       /\ variant = "d20005" => s \notin RECOVERABLE_STAGES

Complete ==
  /\ journal # Torn
  /\ \A s \in ToSet(STAGES) : s \in DOMAIN journal.artifacts /\ Intact(journal, s)

\* Whoever keeps rerunning and recovering gets a complete rehearsal, unless
\* sealed artifacts were damaged or a write in place was torn.
RetriesComplete == <>[](Complete \/ Stuck)

\* docs/BARRIER3_REHEARSAL.md: the gate passes 14 of 14 on a finished package.
FinishedPackagePassesGate ==
  package = Snapshot /\ damages = 0 => gate # "fail"
=============================================================================
