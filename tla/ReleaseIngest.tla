---------------------------- MODULE ReleaseIngest ----------------------------
(***************************************************************************)
(* Scripts that close experiments over one registry file and one release   *)
(* root: scripts/ingest_closed_generation.py (a sealed release directory,  *)
(* then the registry) and register_experiment of                           *)
(* scripts/ingest_capture_inference.py (the registry only), with           *)
(* certification/experiment.py (ExperimentRegistry) and                    *)
(* certification/release_format.py (manifest, content hash, revision log). *)
(*                                                                         *)
(* A sha256 is modelled by what it hashes.  A directory is a function from *)
(* its files to their contents; stage payloads stand behind "stages".      *)
(* Nothing locks the registry: scripts may overlap, and one may die at any *)
(* step, inside a write too.                                               *)
(***************************************************************************)
EXTENDS Naturals, Sequences

CONSTANTS
  Scripts,      \* runs of the scripts
  Experiments,  \* experiment ids
  Evidence,     \* closed generations and sealed capture sessions
  Dates,        \* values of created_utc
  None,         \* no artifact, no date
  Torn,         \* a file cut short in the middle of its write
  MaxCrashes    \* bound: scripts that die

ASSUME ReleaseIngestAssumption ==
  /\ None \notin Experiments \cup Evidence \cup Dates
  /\ MaxCrashes \in Nat

VARIABLES
  overlap,   \* scripts may run at the same time
  registry,  \* the registry file: its artifacts, or Torn
  release,   \* the release directories there are, by experiment id
  run,       \* the scripts
  crashes

vars == <<overlap, registry, release, run, crashes>>

-----------------------------------------------------------------------------
(* Artifacts and the registry.                                             *)

\* `kind` tells a closed generation from a capture session; `flags` holds the
\* verdict and, once it is classified, the failure taxonomy.
Artifact ==
  [experiment_id : Experiments, kind : {"closed", "capture"}, generation : Evidence,
   created_utc : Dates, flags : SUBSET {"FAIL", "taxonomy"}]

\* The stage list: of a closed generation it holds the telemetry, and so the date.
lineage_hash(a) ==
  [kind |-> a.kind, generation |-> a.generation,
   date |-> IF a.kind = "closed" THEN a.created_utc ELSE None]

Addable(reg, a) ==
  \A b \in reg : b.experiment_id # a.experiment_id /\ lineage_hash(b) # lineage_hash(a)

\* ExperimentRegistry.from_json adds entry by entry.
Loads(reg) == reg # Torn /\ \A a \in reg : Addable(reg \ {a}, a)

-----------------------------------------------------------------------------
(* Release directories.                                                    *)

Write(dir, file, content) ==
  [f \in DOMAIN dir \cup {file} |-> IF f = file THEN content ELSE dir[f]]

\* ReleaseManifest.build: every file but MANIFEST.json itself.
ManifestOf(dir) == [f \in DOMAIN dir \ {"MANIFEST.json"} |-> dir[f]]

\* verify_release: nothing tampered, missing or extra.
verify_release(dir) ==
  /\ "MANIFEST.json" \in DOMAIN dir
  /\ dir["MANIFEST.json"] = ManifestOf(dir)

PIPELINE == <<"candidate", "generation", "optimization_telemetry">>
POST_FREEZE_APPENDABLE_STAGES == {"optimization_telemetry", "certificate"}

\* ReleaseRevisionLog.validate: one freeze, after it only appendable stages.
ValidLog(log) ==
  \A i \in DOMAIN log :
    log[i].action = "freeze" =>
      \A k \in DOMAIN log :
        k > i => log[k].action = "append" /\ log[k].stage \in POST_FREEZE_APPENDABLE_STAGES

record(stage) == [stage |-> stage, action |-> "append"]
freeze(log, stage) == Append(log, [stage |-> stage, action |-> "freeze"])
frozen(log) == \E i \in DOMAIN log : log[i].action = "freeze"

\* One record per stage, then the freeze.
RevisionLog == freeze([i \in DOMAIN PIPELINE |-> record(PIPELINE[i])], "generation")

-----------------------------------------------------------------------------
(* The scripts.                                                            *)

Off == [step |-> "off", artifact |-> None, loaded |-> {}]

Init ==
  /\ overlap \in BOOLEAN
  /\ registry = {}
  /\ release = << >>
  /\ run = [s \in Scripts |-> Off]
  /\ crashes = 0

At(s, step) == run[s].step = step
Id(s) == run[s].artifact.experiment_id
Go(s, step) == run' = [run EXCEPT ![s].step = step]
End(s) == run' = [run EXCEPT ![s] = Off]

MayStart(s) == At(s, "off") /\ (~overlap => \A t \in Scripts : At(t, "off"))

\* run_ingest up to the registry: an existing release directory is refused.
StartClosed(s, x, g, d, verdict) ==
  /\ MayStart(s)
  /\ x \notin DOMAIN release
  /\ run' = [run EXCEPT ![s] =
       [step |-> "load", loaded |-> {},
        artifact |-> [experiment_id |-> x, kind |-> "closed", generation |-> g,
                      created_utc |-> d, flags |-> verdict]]]
  /\ UNCHANGED <<overlap, registry, release, crashes>>

\* register_experiment.
StartCapture(s, x, g, d) ==
  /\ MayStart(s)
  /\ run' = [run EXCEPT ![s] =
       [step |-> "load", loaded |-> {},
        artifact |-> [experiment_id |-> x, kind |-> "capture", generation |-> g,
                      created_utc |-> d, flags |-> {}]]]
  /\ UNCHANGED <<overlap, registry, release, crashes>>

\* The registry is read and the artifact added to it in memory, or refused.
LoadRegistry(s) ==
  /\ At(s, "load")
  /\ IF Loads(registry) /\ Addable(registry, run[s].artifact)
     THEN run' = [run EXCEPT ![s].loaded = registry \cup {run[s].artifact},
                             ![s].step = IF run[s].artifact.kind = "closed"
                                         THEN "mkdir" ELSE "register"]
     ELSE End(s)
  /\ UNCHANGED <<overlap, registry, release, crashes>>

Dir(s) == release[Id(s)]
Put(s, dir) == release' = Write(release, Id(s), dir)
Remove(s) == release' = [x \in DOMAIN release \ {Id(s)} |-> release[x]]

\* Mutant: mkdir stands inside the block that cleans up.
MakeDirCleaning(s) ==
  /\ At(s, "mkdir")
  /\ IF Id(s) \notin DOMAIN release
     THEN Put(s, << >>) /\ Go(s, "content")
     ELSE Remove(s) /\ End(s)
  /\ UNCHANGED <<overlap, registry, crashes>>

\* mkdir fails if another script made the directory since the check.
MakeDir(s) ==
  /\ At(s, "mkdir")
  /\ IF Id(s) \notin DOMAIN release
     THEN Put(s, << >>) /\ Go(s, "content")
     ELSE UNCHANGED release /\ End(s)
  /\ UNCHANGED <<overlap, registry, crashes>>

Builds(s, step) == At(s, step) /\ Id(s) \in DOMAIN release

Content(dir, a) ==
  Write(Write(Write(dir, "experiment.json", a), "stages", lineage_hash(a)), "REPORT.md", a)

\* Artifact, stage files and report.
WriteContent(s) ==
  /\ Builds(s, "content")
  /\ Put(s, Content(Dir(s), run[s].artifact))
  /\ Go(s, IF "FAIL" \in run[s].artifact.flags THEN "classify" ELSE "release")
  /\ UNCHANGED <<overlap, registry, crashes>>

\* Mutant: the artifact in the registry is not the one that is classified.
ClassifyCopy(s) ==
  /\ Builds(s, "classify")
  /\ LET a == [run[s].artifact EXCEPT !.flags = @ \cup {"taxonomy"}] IN
     /\ Put(s, Write(Content(Dir(s), a), "FAILURE.json", a))
     /\ run' = [run EXCEPT ![s].step = "release", ![s].artifact = a]
  /\ UNCHANGED <<overlap, registry, crashes>>

\* A failed generation is classified on all its surfaces: the artifact, which is
\* the registry's object too, experiment.json, the report and FAILURE.json.
Classify(s) ==
  /\ Builds(s, "classify")
  /\ LET a == [run[s].artifact EXCEPT !.flags = @ \cup {"taxonomy"}] IN
     /\ Put(s, Write(Content(Dir(s), a), "FAILURE.json", a))
     /\ run' = [run EXCEPT ![s].step = "release", ![s].artifact = a,
                           ![s].loaded = (@ \ {run[s].artifact}) \cup {a}]
  /\ UNCHANGED <<overlap, registry, crashes>>

WriteRelease(s) ==
  /\ Builds(s, "release")
  /\ Put(s, Write(Dir(s), "RELEASE.json", ManifestOf(Dir(s))))
  /\ Go(s, "manifest")
  /\ UNCHANGED <<overlap, registry, crashes>>

WriteManifest(s) ==
  /\ Builds(s, "manifest")
  /\ Put(s, Write(Dir(s), "MANIFEST.json", ManifestOf(Dir(s))))
  /\ Go(s, "revisions")
  /\ UNCHANGED <<overlap, registry, crashes>>

WriteRevisions(s) ==
  /\ Builds(s, "revisions")
  /\ ValidLog(RevisionLog)
  /\ Put(s, Write(Dir(s), "REVISIONS.json", RevisionLog))
  /\ Go(s, "final")
  /\ UNCHANGED <<overlap, registry, crashes>>

\* The final manifest, and verify_release on what was written.
Seal(s) ==
  /\ Builds(s, "final")
  /\ LET dir == Write(Dir(s), "MANIFEST.json", ManifestOf(Dir(s))) IN
     /\ verify_release(dir)
     /\ Put(s, dir)
  /\ Go(s, "register")
  /\ UNCHANGED <<overlap, registry, crashes>>

Building == {"content", "classify", "release", "manifest", "revisions", "final"}

\* Any error while the bundle is built removes the directory; one that is gone
\* (Builds fails) is such an error.
RemoveBundle(s) ==
  /\ run[s].step \in Building
  /\ Remove(s)
  /\ End(s)
  /\ UNCHANGED <<overlap, registry, crashes>>

\* Mutant: only the new artifact is written.
RegisterAlone(s) ==
  /\ At(s, "register")
  /\ registry' = {run[s].artifact}
  /\ End(s)
  /\ UNCHANGED <<overlap, release, crashes>>

\* The registry as it was loaded, with the artifact, replaces the file.
Register(s) ==
  /\ At(s, "register")
  /\ registry' = run[s].loaded
  /\ End(s)
  /\ UNCHANGED <<overlap, release, crashes>>

\* A script dies between two writes or inside one; a directory being written
\* keeps what is there, the registry is truncated before it is written.
Crash(s) ==
  /\ ~At(s, "off")
  /\ crashes < MaxCrashes
  /\ crashes' = crashes + 1
  /\ End(s)
  /\ \/ UNCHANGED <<registry, release>>
     \/ /\ run[s].step \in Building /\ Id(s) \in DOMAIN release
        /\ \E f \in DOMAIN Dir(s) \cup {"MANIFEST.json"} : Put(s, Write(Dir(s), f, Torn))
        /\ UNCHANGED registry
     \/ /\ At(s, "register")
        /\ registry' = Torn
        /\ UNCHANGED release
  /\ UNCHANGED overlap

-----------------------------------------------------------------------------

Start(s) ==
  \E x \in Experiments, g \in Evidence, d \in Dates :
    StartCapture(s, x, g, d) \/ \E verdict \in SUBSET {"FAIL"} : StartClosed(s, x, g, d, verdict)

Proceed(s) ==
  \/ LoadRegistry(s) \/ MakeDir(s)
  \/ WriteContent(s) \/ Classify(s) \/ WriteRelease(s) \/ WriteManifest(s)
  \/ WriteRevisions(s) \/ Seal(s) \/ Register(s)

Next == \E s \in Scripts : Start(s) \/ Proceed(s) \/ RemoveBundle(s) \/ Crash(s)

Spec == Init /\ [][Next]_vars

-----------------------------------------------------------------------------
(* Properties.                                                             *)

Entries == IF registry = Torn THEN {} ELSE registry

Stages == {"load", "mkdir", "register"} \cup Building

TypeOK ==
  /\ overlap \in BOOLEAN
  /\ registry = Torn \/ registry \subseteq Artifact
  /\ DOMAIN release \subseteq Experiments
  /\ run \in [Scripts -> {Off} \cup [step : Stages, artifact : Artifact,
                                     loaded : SUBSET Artifact]]
  /\ crashes \in 0..MaxCrashes

\* A release directory that closes artifact `a`: its manifest verifies, its
\* revision log is frozen, experiment.json is `a`, and a failure is explained.
Closes(dir, a) ==
  /\ verify_release(dir)
  /\ {"experiment.json", "REVISIONS.json"} \subseteq DOMAIN dir
  /\ dir["experiment.json"] = a
  /\ frozen(dir["REVISIONS.json"])
  /\ "FAIL" \in a.flags => "FAILURE.json" \in DOMAIN dir /\ dir["FAILURE.json"] = a

\* An experiment the registry lists as closed has a sealed release that says the
\* same of it, the failure taxonomy included, whatever scripts overlapped or died
\* (RESEARCH_RELEASE_FORMAT section 7, run_ingest).
RegisteredIsSealed ==
  \A a \in Entries :
    a.kind = "closed" =>
      a.experiment_id \in DOMAIN release /\ Closes(release[a.experiment_id], a)

\* The directory of a closed experiment is never touched again, neither by a
\* script that raced for the same id nor by one that cleans up (run_ingest).
SealedReleaseIsFinal ==
  [][\A x \in Experiments :
       (\E a \in Entries : a.kind = "closed" /\ a.experiment_id = x)
         => x \in DOMAIN release' /\ release'[x] = release[x]]_vars

\* One script at a time: the registry only grows (experiment.py, "append-only").
EntriesStay ==
  [][~overlap /\ registry' # Torn => Entries \subseteq registry']_vars

=============================================================================
