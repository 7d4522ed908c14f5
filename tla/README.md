# A formal model of the certification pipeline

TLA+ modules, TLC configurations and TLAPS proofs about the parts of this
repository whose correctness is a matter of order, concurrency and failure: the
experiment lifecycle and its journal, the CTM adapters around it, the research
runtime that executes jobs, the Capture Lab page that records trials, the
ingestion of those trials, the console that drives it, the staged rehearsals
with their recovery, the governance ledger with its seals, and the release of
closed experiments. Every definition is translated from the code;
`PROJECT.json` names the lines each one stands for.

## 1. The system

The repository is a research pipeline for physical trials of printed garments
against a detector. What carries its own logic is the *evidence discipline*:
what may be recorded, in which order, and what can still be trusted afterwards.

| Component | State | Operations | Hard part |
|---|---|---|---|
| Experiment lifecycle (`certification/experiment_state_machine.py`) | `state`, pinned preregistration digest, `entries`, `journal.json` | `transition` (six guarded targets), `attach_infrastructure_failure`, `replay_journal`, `verify_journal`, constructor with a claimed state | memory moves before the file; restart loses the pin; files read twice by one guard; two machines on one file |
| CTM manifests and adapters (`ctm/manifests.py`) | `manifest.json`, `manifest.lock`, wrapped machine and its journal | `lock_manifest`, `verify_lock`, `start`, `preregister`, `attach_infrastructure_failure` | test-then-write of the lock, two files written one after the other, several processes |
| Research runtime (`platform_runtime.py`) | `_RUNS` under `_RUNS_LOCK`, `runs/<id>/status.json`, child processes, uploaded files | launch, one thread per run, status answers, uploads, `serve` | threads, a mirror write that raises in any of four sections, a server that dies while its children live on |
| Capture Lab page (`capture-lab.js`), session validation (`scripts/validate_capture_session.py`, `certification/p1_session_binding.py`) | arm, binding, calibration, frozen manifest, captures, staged files | load a trial, calibrate, freeze, still, record, switch arm, seal, stage, export; validate | clicks that run between the awaits of a handler; an upload that stops anywhere and is repeated |
| Trial ingestion (`scripts/ingest_capture_inference.py`, `certification/trial_statistics.py`) | `trials.jsonl` (hash chained), `trial-records.json`, `statistics.json` | load and verify, duplicate check, append, rewrite statistics, stopping rule, register | nothing locks the store, nothing serialises jobs, a failure after the append |
| Research Console (`research_console/console.js`) | two path fields, `validationPassedFor`, `analysisPassedFor`, pending click handlers | stage, validate, analyse, ingest, edit a field | state captured before an `await` and used after it |
| Rehearsals (`certification/rehearsal_d20005.py`, `rehearsal_barrier3.py`, `rehearsal_barrier3_core.py`) and `evidence_recovery.py` | stage journal, an artifact per stage, run manifest, final report | run from the first stage, resume, roll back and recover, acceptance gate | crash between a file and its journal entry or inside either; rebuilding on top of sealed stages |
| Governance (`governance/state.py`, `ledger.py`, `seal.py`, `ids.py`) | event ledger, machine positions, seals under way, all in the memory of one process | record, correct, advance, halt, seal a cohort around a timestamp adapter | the adapter is foreign code in the middle of a seal; identifiers have two spellings |
| Closing an experiment (`scripts/ingest_closed_generation.py`, `certification/release_format.py`, `certification/experiment.py`) | release directories, one registry file | create and fill a directory, freeze its revision log, manifest, verify, register | two scripts on one registry and one id; clean-up after an error; a crash at any step |
| PRC authority (`rac_prc/`) | admission records, receipts | admit, refuse, freeze predictions | atomic admission, duplicates |
| CTM firewall, stage outcomes (`ctm/firewall.py`, `stage_outcomes.py`) | none (pure) | reachability over imports, outcome rules | recursion |
| Evaluation exposure (`governance/evaluation_exposure.py`) | a list of exposure events, in memory | note an exposure, issue a label | cohorts have two spellings; a label outlives the list it was issued on |
| Numerical, rendering and report code | none that outlives a call | | floating point, text |

How they interact: the Capture Lab stages a session through the runtime's
uploads; the console launches jobs on it over HTTP; the runtime starts one child
process per job and mirrors its status to disk; validation, inference and ingest
are such children, and ingest reads what the others wrote and registers the
experiment in the registry that the closing script also writes; the CTM adapter
holds a lifecycle machine and checks its manifest lock before the machine may
leave `DRAFT`; the lifecycle's guards read freeze manifests, sealed artifacts
and release directories that rehearsals and closing scripts produce.

### What makes each part correct

* Lifecycle: the journal on disk is at all times a legal history that a later
  process can continue; nothing recorded is ever lost or changed; what was armed
  is what was preregistered.
* Chain: a file that verifies is an untouched prefix of what was accepted.
* Adapters: once a lock is there, only the manifest that both the lock and
  `manifest.json` name can still be preregistered, and none when they disagree.
* Runtime: a final status is final, never published while the child runs, and
  the same in memory and on disk, never replaced by a better one; every run gets
  there unless its own thread is lost.
* Capture Lab: an admitted session says of every frame what was really in front
  of the camera; what is staged is whole; what is sealed leaves the page.
* Store: it always loads; each trial counts once; a decision to stop collecting
  rests on trials that are in it.
* Console: only sessions that validate are analysed, and only their inferences
  offered for ingestion.
* Rehearsals: evidence of different origins is never mixed, a crash never makes
  the directory unusable, sealed science is written once, and whoever keeps
  trying finishes.
* Governance: the ledger verifies and tells every machine's history; sealing is
  atomic whatever the adapter does.
* Closing: what the registry calls closed has a sealed release that nobody
  touches again; no registration is lost to a script that runs alone.

The hazards, each with its line, are listed in `PROJECT.json`.

## 2. Modules

| Module | Models | State and actions in terms of the code |
|---|---|---|
| `LifecycleJournal` | the vocabulary: states, `TRANSITIONS`, the six guards, journal entries, `replay_journal` | guards take the digest the evidence pins and what the guard reads; a digest is a model value, so equal digests are equal bytes |
| `ExperimentStateMachine` | one process with a machine and its journal | one action per target of `transition`; `Record` is `_append` (memory first, then the file, which may raise); `Crash`, `Restart` (replay), `Adopt` (constructor with a claimed state, when `byHand`) |
| `JournalChain` | `make_journal_entry`, `_append`, `verify_journal` against edits of the file | a hash is what it hashes |
| `CTMAdapters` | several adapter processes on one directory | the file operations of `start` and of `_append` are separate steps; processes crash between and inside them |
| `PlatformRuntime` | `launch_job`, `_execute_run`, `_write_status`, `serve` | `thread[r]` is the position in those functions, `lock` is `_RUNS_LOCK`, `disk[r]` the status file, `job[r]` the child process |
| `CaptureLab` | the page's handlers, the runtime's `do_PUT` and the validation of what was staged | a handler is one action up to its `await` and one for each stretch after it; `handler[h]` holds what it carries over; `hasty` counts clicks made while something is pending |
| `CaptureSession` | abstract: a manifest frozen once, true records added one at a time, nothing after the seal, admitted as it was sealed | what the page promises an operator who waits |
| `TrialLog` | abstract: trials admitted one at a time, each at most once | |
| `TrialStore` | the ingest script, several runs at once | `Load`, `AppendTrial`, `WriteTrialRecords`, `WriteStatistics` are its steps, `Fail` ends a run at any of them; `ended` says that the last line has its newline, without which the next append spoils it |
| `ConsoleWorkflow` | the click handlers of the console over the runtime's jobs, and its reload | a handler record is one pending `async` function with the values it captured; `Reload` is a new page that calls `restoreLastSession` |
| `StagedRun` | abstract: stages recorded one at a time, the sealed ones for good | |
| `Rehearsal` | both staged rehearsals, the recovery tool, the acceptance gate | `Start` / `OpenManifest` + `WriteManifest`, then per stage `Skip`, `FailClosed`, or `Begin`, `Produce`, `Save`; `Recover` rolls back; `Crash` may tear what is being written in place; `Damage` is other hands |
| `AtomicSealing` | abstract: positions one after the other, sealing in one step | |
| `Governance` | ledger, machines, seals | a seal is `BeginSeal`, whatever happens inside the adapter, then `EndSeal` or `AbandonSeal`; `calls` is the stack of seals under way |
| `ReleaseIngest` | the closing script and `register_experiment`, several at once | `run[s].step` is the position in `run_ingest`; one action per file it writes, plus `Fail` (clean-up) and `Crash` |
| `*_proofs` | theorems about the module of that name | `ExperimentStateMachine_proofs` also proves about `JournalChain`, `PlatformRuntime_proofs` about `ConsoleWorkflow`; those two modules name their parts `Chain...` and `Console...` so that both can be extended |
| `MC*` | model values and sets for TLC | |

`ExperimentStateMachine` and `CTMAdapters` both extend `LifecycleJournal`, so
the adapter's machine takes the same guards and writes the same entries.
`CaptureLab` composes the page with the runtime's upload handler and with the
validation script; `ConsoleWorkflow` composes the console with the runtime's
jobs; `ReleaseIngest` composes the two scripts that share the registry. The
abstract modules are instantiated with a refinement mapping: `TrialLog` by
`TrialStore` with the ids in the store, `StagedRun` by `Rehearsal` with the
recorded artifacts in stage order, `AtomicSealing` by `Governance` with
positions and seals, the stack of calls hidden, and `CaptureSession` by
`CaptureLab` with the frozen manifest, the captures and the admitted sessions,
handlers and workspace hidden.

Definitions marked *Mutant* in the modules are what a plausible bug would make
of the definition that follows; no specification uses them. They show that the
properties can fail: with the definition replaced by its mutant, TLC finds the
property violated.

### Abstractions worth knowing

* An entry's `detail` is the manifest a CTM adapter names in the entry's detail
  text; it is in the file, and empty elsewhere.
* A history field: a captured frame's `shown` is what the page named while it
  was taken; the code keeps only the label.
* What a guard reads twice from one file is two values, each picked freely, so a
  file may change between the readings.
* `machine.failures` is the sequence of failure entries of the journal; no guard
  reads it, so it is not a variable.
* The closure artifact's parsed content and the release directory are one
  boolean each in the lifecycle: acceptable or not.
* The list a run had loaded stands for `prev_record_sha256`, which commits to it.
* An interval of the statistics is two booleans: narrow enough, below one half.
* A write that raises may have done nothing, truncated the file or completed.
* The journal's temporary file is written in one step in `CTMAdapters`; that its
  name is shared by all processes is kept, a mixture of two simultaneous writes
  is not. `VerifyLock` is one step, although `verify_lock` reads the lock and the
  manifest one after the other; the later reading of the manifest, in
  `preregister`, is a step of its own.
* `TrialStore`: a run that is refused (the store does not load, the trial is
  already in it) changes nothing and is not a step.
* `ConsoleWorkflow`: `validate` accepts exactly the good sessions, and whether a
  path holds a good session never changes; what the session binding checks is in
  `CaptureLab`, where what is staged under a name does change.
* `CaptureLab`: one page that stays open, its ids filled in and its camera
  running; recordings do not overlap; validation reads the workspace in one
  step. An upload that fails may leave a file or the session JSON torn, or stored
  whole when only the answer was lost. Of the analysis contract only that there
  is one is kept; that the page may make another is a step that changes nothing
  else.
* `Rehearsal`: an artifact is modelled by what it was computed from, and a
  sha256 by the bytes, so equal hashes are equal derivations. One artifact
  stands for all files of a stage. One process works on a directory at a time;
  other hands change artifacts only between runs.
* `Governance`: calls that are refused change nothing and are not steps. The
  hash chain of the ledger is the construction `JournalChain` models. The checks
  of a cohort manifest before its seal are one accepted input.
* `ReleaseIngest`: a directory is a function from its files to their contents;
  the payload files of the stages stand behind one entry. Writing the contents is
  one step, and so is rewriting artifact, report and `FAILURE.json` with the
  failure taxonomy: nobody reads the directory before it is sealed. The clean-up
  after an error removes the directory whole, although `rmtree` ignores errors
  and may leave a part of it; what is left has no registry entry and its id is
  refused from then on, as after a crash.

## 3. Runs

| Run | Bounds | What it shows |
|---|---|---|
| `lifecycle` | 2 digests; journals of 7 entries, of 4 when machines are constructed by hand, at `PREREGISTERED` or `RUNNING` | replay, no drift, fail closed after a lost pin, append-only |
| `chain_edits` | 3 entries, 2 bodies, 3 edits | a journal that verifies is an untouched prefix from the machine's genesis |
| `ctm_two_adapters` | 2 processes, 2 digests, 2 entries, calls of `start` that overlap and die | once they are over, only the manifest that lock and directory agree on can still be preregistered |
| `runtime` | 2 runs, 2 faults, 2 crashes of the server | statuses agree, none is final while the job lives, none gets better, and runs get there in the end, under faults and restarts |
| `store` | 3 trials, 2 processes, 3 lines, stopping rule 2 of 3 | the store loads and refines `TrialLog` for orderly runs; for overlapping and torn ones a stop decision is earned and a broken store frozen |
| `console_jobs` | 3 sessions (one bad), 1 inference path, 2 pending handlers | only good sessions analysed or ingested |
| `capture_lab` | 2 trials, 2 pending handlers, 3 stills and 1 recording of which 3 are taken, 1 hasty click, 2 calibration readings, 2 stagings | admitted sessions are true, first arm first, staged sessions whole, paths distinct, sealed sessions handed over, refinement of `CaptureSession` for an operator who waits |
| `rehearsal` | both variants, 2 dates, 2 crashes, 1 damaged artifact | one lineage, crashes harmless, science written once, refinement of `StagedRun`, retries complete |
| `governance` | 2 machines, 2 experiments, 1 cohort, 4 event names in two spellings, 4 records of which 2 without a machine, seals nested 2 deep | the ledger verifies and tells the machines' history, seals are ledgered, refinement of `AtomicSealing` |
| `release_ingest` | 2 scripts, 2 ids, 2 dates, 1 crash, overlapping or not | registered is sealed, sealed is final, entries stay |
| `barrier3_gate` | no faults | finding: the gate fails every finished package |
| `capture_seal` | no hasty click, 3 calibration readings | finding: a sealed session is replaced |

`overlap`, `orderly` and `byHand` are variables that keep their first value: one
run explores the system with and without the discipline they stand for, and each
property says which it needs.

Why the bounds are enough. Two digests are one that is pinned and one that is
not. Seven entries are a full lifecycle of six transitions and one failure
attachment, anywhere in it, with writes that fail and restarts in between. Two
processes, runs or scripts are one that acts between two steps of the other; a
third would only repeat it, since no condition counts them. Two faults let both
a write and the handler of its exception fail; two crashes let a restarted
server die again, and a resumed rehearsal too. Three trials reach `MaxValid` of
the small stopping rule (2 and 3 instead of 93 and 144), so that both its
boundaries are crossed. One inference path is the case in which the console's
captured path and current path agree although the session has changed. Three
edits are enough for a change together with the two repairs (position and link)
that might hide it. Two dates are the one a resumed rehearsal began with and
another. Seals nested two deep are a seal of the same machine inside a seal.
Four records are a machine's path to its seal with room for a halt or a
correction. Two pending handlers let one click overtake another; three captures
are two in one list and one in the other.

Every bound is a constant in a guard: `MaxEntries`, `MaxByHand`, `MaxEdits`,
`MaxFaults`, `MaxCrashes`, `MaxDamage`, `MaxLines`, `MaxRecords`, `MaxNotes`,
`MaxDepth`, `MaxHandlers`, `MaxFrames`, `MaxTaken`, `MaxHasty`, `MaxReadings`,
`MaxStagings`. Deadlock is checked in `capture_lab`, `capture_seal` and
`release_ingest`, where the page and the scripts can always go on. Elsewhere the
model stops when its bounds are used up, and the system itself may stop: an
experiment is published, no job runs.

Symmetry is used where only invariants, step properties and refinement without
fairness are checked (`governance`, `release_ingest`), never with liveness.

### Fairness

* `PlatformRuntime`: weak fairness of each run's thread, `WF_vars(ThreadStep(r))`:
  the operating system schedules every thread, and each run takes the lock at
  most four times for a section that ends, so a thread waiting for it is not
  shut out for ever. Nothing is assumed of child processes (`JobExit`), clients
  (`Launch`), the supervisor (`Serve`) or faults. `LaunchedRunsGetGoing` and
  `EndedJobsSettle` are checked with faults and restarts; what excuses a run is
  the loss of its own thread, to a write of its own that raised or to the death
  of the server, and nothing that happens to another run. Such a run stays
  unsettled for ever: no other thread, and no later server, writes its record.
* `CaptureLab`: weak fairness of `\E h \in Handlers : Continue(h)`: a promise
  the page awaits is settled in the end, by an answer or an error, and the
  browser runs what waits for it. Clicks are not fair.
* `Rehearsal`: weak fairness of a process's own steps (`StepOn`) and of `Rerun`,
  strong fairness of `Recover`. The last two are a person: `RetriesComplete`
  says what an operator gets who keeps rerunning and, when that is refused, also
  tries the recovery tool. Crashes and damage are bounded by their constants.
  The strong fairness is needed because each rerun disables `Recover` while it
  works.

## 4. Proofs

All for every value of the constants, from their named assumptions alone.

**`ExperimentStateMachine_proofs`**: `TypeCorrect`, `AppendOnly` (the file only
grows) for machines adopted at any position; `JournalAlwaysReplays`, `NoDrift`
and `FailsClosed` while no machine is constructed by hand (`~byHand`): every
machine is new or replayed, which is how the repository's own code constructs
them.

`JournalReplays` is inductive with types, but `NoPreregistrationDrift` is not: a
second preregistration entry with another digest would break it. The invariant
`Inv` rules that out by rank: each entry continues the one before it, so the
lifecycle rank never falls along a journal (`Ascending`), and a machine that is
still in `DRAFT` has journaled neither of the two entries. A live machine's pin,
when it has one, is the digest of every preregistration entry in its journal
(`PinnedAs`); arming compares with that pin, and a machine that has lost it
(`PinLost`) cannot arm: only a failure can be recorded, and a restart replays to
the same state, again without a pin.

The same module proves about the hash chain, for any entries, edits and lengths:
`VerifiedFilesAreGenuine` and `GenesisAlwaysPinned`. A file that verifies is a
first part of what was written because of two facts (`ChainInv`): an accepted
entry carries its position and hashes its own content, and every hash that
occurs in the file is the hash of an accepted entry, since no edit can make one.
Lemma `VerifiedEntry` walks along the file without induction: entry n of a file
that verifies carries the position n and the hash of an accepted entry, which
fixes it.

**`PlatformRuntime_proofs`**, for any number of runs, faults and crashes:
`TypeCorrect`, `SuccessIsGenuine` (success means exit code 0), `FinalIsFinal`,
`Agreement` and `NeverImproves`. The statuses of a run are tied
to the position of its thread (`RunInv`, one conjunct per phase); the difficulty
is the status file, which may be old, torn or complete after a write that
raised, and which the next section overwrites, and a child process that outlives
the record of its run. `NeverImproves` also needs that only the holder of
`_RUNS_LOCK` is inside a section (`LockHeld`), and that a step which changes a
status file is a write of the thread whose run it is (`FileStep`).

The same module proves about the console, for any sessions, paths and number of
pending handlers: `ConsoleTypeCorrect` and `OnlyGood`. The invariant says that
`validationPassedFor` only ever names a good session, that every pending handler
which analyses or ingests captured a good one when it was started (`Vouched`),
and that inference files come from good sessions. The gate `analysisPassedFor`
is not needed for it.

**`TrialStore_proofs`**, for any trials and stopping rule. With runs that
overlap, fail and tear lines: `TypeCorrect`, `StopIsEarned` and `FrozenForGood`
(a store that does not load stays as it is, since only a run that has loaded it
appends). A run knows less than one would like: its trial may already be in the
store when it appends. What it does know (`RunInv`) is that the list it analyses
is distinct, because it searched the list it loaded, and that a line stays where
it is as long as no line is spoilt; `DecisionInv` carries both into
`statistics.json`. For `orderly` runs, which follow one another and append all
or nothing of a line: `AlwaysLoadable`, `NothingUncounted` and `LogRefinement`.
`SerialInv` says that the one run under way still holds the whole store, so that
the line it appends continues the chain (lemma `AppendLoadable`), and that the
statistics count a first part of it.

**`Rehearsal_proofs`**, for any dates, crashes and damage, in both variants:
`OneLineageAlways`, `CrashesNeverHarm`, `ScienceWrittenOnce`. None of the three
is inductive: what the next `Save` records depends on what is on disk and what
the process holds. `IInv` says of a journal that it records the first n stages
and that each recorded artifact reads and pins only what is recorded
(`Journal`); of the directory, that only other hands make it differ from the
journal (`DiskInv`); and of a working process (`WorkInv`) that every stage
before its own is in place as its journal says, and that its journal agrees with
the one on disk: wholly in a run, on the sealed stages in a recovery, whose
rolled-back journal is not on disk yet. The facts about the stage lists (a stage
reads only earlier ones, the recoverable ones come last) are lemmas; lemma
`RollingBack` shows that a rollback is again a journal with only intact
artifacts, lemma `Completing` that recording a stage keeps it one.
`StagedRefinement` maps the journal to the list of what it records of the first
n stages. It needs that a working process holds no more than the journal on disk
(`MapInv`), so that a `Save` either adds the next stage or, in a recovery,
replaces the records after the sealed ones. Its two hypotheses are about what
stands for broken bytes: `TornIsNoJournal` (they do not parse as a journal) and
`LostIsNoRecord` (their abstract record is no list of stages).

**`CTMAdapters_proofs`**, for any adapters, digests and lengths, however many
adapters are inside `start` at once: `TypeCorrect` and `OnlyThePinned`. The
theorem starts from any state in which a lock is there and no call that looked
before it was is still under way (`Settled`); whatever overlapping and dying
calls made of the two files, they are fixed from then on, since `start` no
longer writes and nothing else does. `Shut(m)` says for a manifest that is not
the one both files name that no journal preregisters it and that no adapter is
about to: the journals include the temporary one, which a crash may leave for a
later rename, and those in memory.

**`Governance_proofs`**, for any experiments, machines, names and depth of
nesting: `TypeCorrect`, `AlwaysVerifies`, `HistoryIsTold`, `NoSealLost`,
`SealingIsAtomic`. Lemma `Steps` reduces every action to one of a
few effects (an event noted, a machine moved, a seal handed out), and each
invariant is then shown per effect. `SealsAreLedgered` alone does not exclude
that a machine is sealed twice; the strengthening `SealedGoOn` says that a
machine with a seal is past `PREFLIGHT` for good, so that of nested calls for
one machine only one can end.

**`ReleaseIngest_proofs`**, for any scripts, ids, dates and crashes:
`TypeCorrect`, `AlwaysSealed`, `ReleasesAreFinal`, `RegistryGrows`. The heart is
that a script that builds a directory is the only one (`BuildersApart`): `mkdir`
refuses an existing one, so what a directory holds at each step is known
(`Holds`), and a loser of the race ends without cleaning up. `SealInv` says that
everything in the registry, and everything a script has read from it, is sealed
and that nobody builds there. `RegistryGrows` is for scripts that follow one
another (`~overlap`): the one that writes has read what is there (`Alone`).

**`CaptureLab_proofs`**, for any trials, profiles, bounds and number of pending
handlers: `TypeCorrect`, `AdmittedPaths`, `AdmittedTrue`, `FirstFrameOfTrial`,
`StagedWhole`, `SessionRefinement`. However the operator clicks, every frame is
in one place (`FramesApart`): being recorded, in flight in one handler, or in
one list. A session keeps that on its way to the workspace (`SessionsApart`),
and since the script compares each record's bytes, two records of one path would
have to be of one frame; lemmas `RecordsAt` and `RecordsSpread` say where each
entry of the four concatenated lists comes from. The other four are for an
operator who waits, which is an assumption on the steps taken and not on the
state: `CalmInv` says what holds while `hasty` is 0, and a step that keeps it 0
was taken with nothing else pending (`CalmClick`). Lemma `CalmSteps` reduces
every step to what it does to the one pending handler. The invariant then
relates the handler to the page it will read when it goes on: the arm has not
changed since the frame was taken, the number it was given is still the length
of its list (`ArmInv`), the manifest being hashed is what the form says
(`ManifestInv`), and the session under way is the one on the page with its first
files uploaded (`StageInv`). That a path names one record (`PathsDiffer`) needs
`RecordInv`: a record's number is its place in its list. `SessionRefinement`
shows from the same invariant which step is which: the end of `freeze` is
`Freeze`, a record that joins its list is `Capture`, `seal` is `Seal` and the
validation is `Admit`; every other step leaves the abstract session alone.
`Admit` takes the records from the page, not from the workspace, so this says
that nothing is lost or mixed up on the way between.

`orderly`, `~overlap`, `~byHand` and an operator who waits
are not enforced by the code (section 5);
the theorems that assume them say what the code gives to a caller who keeps to
them.

Model-checked only: liveness (`LaunchedRunsGetGoing`, `EndedJobsSettle`,
`SealedIsHandedOver`, `RetriesComplete`), which is outside the prover's reach.
Every other property of a passing run is the conclusion of a theorem.

## 5. Where the code and its documents part

Shown by runs:

1. `barrier3_gate`: the acceptance gate asks that the keys of `completed`, as
   read back from the journal, are the stages in the order they were executed
   (`rehearsal_barrier3.py:353`), but the journal is written with
   `sort_keys=True` (`rehearsal_barrier3_core.py:150`), so they come back in
   alphabetical order and this check fails on every finished package.
   `docs/BARRIER3_REHEARSAL.md:83` says the gate passes 14 of 14.
2. `capture_seal`: the session is built anew at every staging from calibration
   sources that may still be read again after the seal (`capture-lab.js:82`), so
   the staged JSON of a sealed session can be replaced by another one. The page
   says "SEALED · IMMUTABLE CAPTURE SESSION" (`capture-lab.js:83`), and
   `docs/RAC_STUDIO_UX_SPEC.md:16` asks for it.

Conditions under which properties above hold, where the code does not enforce
them. Lifecycle and adapters:

* No property says that the bytes an entry pins are those its guard examined:
  `_guard_running` and `_guard_closed` parse a file and read it again for its
  digest, and a file that changes in between leaves an entry that pins bytes no
  guard has seen. The module's docstring (lines 43 to 45) says that each entry
  pins what was verified. `_guard_published` verifies the release but only checks
  that `release_manifest_sha256` is a well-formed digest.
* `~byHand` for replay: a machine constructed at a claimed state without its
  journal writes one that `replay_journal` refuses.
* `lock_manifest` tests for the lock before it writes two files, so overlapping
  calls of `start()` can leave a lock and a manifest that disagree, after which
  `verify_lock` refuses for good; and a `preregister` that overlaps a `start()`
  may preregister a manifest that is no longer the one in the directory.
  `OnlyThePinnedFollows` therefore speaks of the time after such calls. A crash
  inside the lock's write leaves a lock that no later call can read.
* Two adapters on one journal overwrite each other's entries: the file always
  replays, but is not append-only.
* Cutting entries off the end of a journal passes `verify_journal`, as
  `tests/test_experiment_state_machine.py:468` says and the module's own
  docstring (line 41) denies.

Store and console:

* `orderly`: two overlapping ingest jobs both pass the duplicate check and append
  the same trial, and the second line breaks the chain, so that the store blocks
  every later run (`docs/CAPTURE_LAB.md:114`: "only once"). The runtime does not
  serialise jobs.
* The append precedes everything that can still fail: a job that ends with a
  nonzero exit code may have stored its trial, and repeating it is refused as a
  duplicate (`docs/RESEARCH_WORKBENCH.md:137`: "failed jobs do not promote
  evidence").
* An append cut just before its newline leaves a line that loads, and that the
  next append spoils.
* An analysis that ends after the gates were reset opens the console's ingest
  gate for its captured inference path, whatever session has been validated
  since (`docs/RESEARCH_WORKBENCH.md:93`). No wrong trial is stored: the script
  compares the lineage itself.

Capture Lab:

* `hasty = 0`: `still` and `finishRecord` read the arm and the condition after
  their awaits, and the answer of a trial load rewrites the arm whenever it
  comes. Three of the properties speak of an operator who waits;
  `AdmittedPathsAreDistinct` does not need it.
* `seal` checks the calibration that follows the captures only; the one before
  them is checked at freeze and may be replaced by a failing one afterwards
  (`docs/RESEARCH_WORKBENCH.md:91` asks for both). Validation refuses such a
  session.
* A staging that fails may tear the session JSON of an earlier, complete one.

Rehearsals:

* The barrier 3 journal, manifest and artifacts are written in place, although
  `docs/BARRIER3_REHEARSAL.md:66` says "atomic per-stage artifacts": a torn
  journal or manifest ends the directory's use (`Stuck`).
* `created_utc` may differ between the seal and the release of one directory
  when a later run resumes it.
* `pareto_style` reads the candidate of `eot` without pinning its hash.

Governance:

* `transition` merges the caller's payload over its own fields (`state.py:127`);
  no caller passes one that replaces them, and the model has none.
* `SEALED` can also be reached by a plain `transition`, without a seal.
* A halted experiment can be continued by a new machine on the same ledger
  without a resume event.
* Read in the code, shown by no run: `events_for` compares cohorts as they are
  spelled (`evaluation_exposure.py:147`), although both spellings are one
  identifier (`ids.py:3-8`, `ids.py:72-75`). An exposure under the legacy
  spelling does not stop an `INDEPENDENT_CONFIRMATION` label under the canonical
  one, which such a cohort "can never receive" (`evaluation_exposure.py:13-16`,
  `205-212`).

Closing an experiment:

* A crash between the seal and the registry write leaves a sealed release that
  no registry names, whose id can never be ingested again; one between manifest
  and revision log leaves a directory that `verify_release` accepts without a
  freeze. The registry is written in place and can be torn.
* `~overlap` for `EntriesStay`: of two scripts that both read before either
  writes, one registration is lost.
* The lineage of a closed generation includes the time stamp, so the same
  generation under another id is not refused as a duplicate.

## 6. Not modelled

`PROJECT.json` lists every component with its status.

* PRC authority (`rac_prc/`): its adapter has no caller outside the tests. The
  documents the ingestion script writes lack the `session_id` it requires, so
  there is no running system whose interleavings could be modelled.
* `ctm/corpus.py` and `certification/physical_capture_rehearsal.py`: single
  straight-line writers of files in one process, without resumption; what they
  leave after a crash is listed under hazards.
* Adaptive governance, chaos and sentinel: validators and registries of immutable
  records in one process, whose events enter the ledger like any other record.
* Evaluation exposure: one append-only list in one process and a label that
  carries its hash; what could go wrong is the one comparison of section 5.
* The firewall and the stage outcomes: stateless, a reachability question over
  the import graph of the working tree and a table of rules.
* The schedule of P1 pairings: a table of constants with a hash; which arm is
  first enters `CaptureLab` as a constant.
* Sampling, overlap estimates, statistics, image, model and optimisation code:
  floating point, and no state that outlives a call.
* Reports, manuscripts, linting, dashboards, browser rendering and camera
  access: text and pixels from records.
* Of the modelled components: the validation of manifest fields, workspace
  listings and status answers that only read, the console's connection checks,
  prototype sessions' calibration acknowledgement, feature provenance reviews.
  Each is a check of one record or a read without effect.

Much of the repository's code is of the last kinds, so the map covers a small
share of its lines: the part in which the order of steps matters.
