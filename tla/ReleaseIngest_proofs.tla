------------------------- MODULE ReleaseIngest_proofs -------------------------
(***************************************************************************)
(* Proofs about ReleaseIngest, for any scripts, experiments and evidence,  *)
(* any overlap of the scripts and any number of crashes.                   *)
(***************************************************************************)
EXTENDS ReleaseIngest, TLAPS

-----------------------------------------------------------------------------
(* Type correctness.                                                       *)

RunType == {Off} \cup [step : Stages, artifact : Artifact, loaded : SUBSET Artifact]

LEMMA TypeStep == ASSUME TypeOK, [Next]_vars PROVE TypeOK'
<1> USE DEF TypeOK
<1>1. ASSUME NEW s \in Scripts, Start(s) PROVE TypeOK'
  <2>1. PICK x \in Experiments, g \in Evidence, d \in Dates :
          StartCapture(s, x, g, d) \/ \E verdict \in SUBSET {"FAIL"} : StartClosed(s, x, g, d, verdict)
    BY <1>1 DEF Start
  <2>2. CASE StartCapture(s, x, g, d)
    <3>1. [experiment_id |-> x, kind |-> "capture", generation |-> g,
           created_utc |-> d, flags |-> {}] \in Artifact
      BY DEF Artifact
    <3>2. QED
      BY <2>2, <3>1 DEF StartCapture, Stages
  <2>3. ASSUME NEW verdict \in SUBSET {"FAIL"}, StartClosed(s, x, g, d, verdict)
        PROVE  TypeOK'
    <3>1. [experiment_id |-> x, kind |-> "closed", generation |-> g,
           created_utc |-> d, flags |-> verdict] \in Artifact
      BY DEF Artifact
    <3>2. QED
      BY <2>3, <3>1 DEF StartClosed, Stages
  <2>4. QED
    BY <2>1, <2>2, <2>3
<1>2. ASSUME NEW s \in Scripts, LoadRegistry(s) PROVE TypeOK'
  BY <1>2 DEF LoadRegistry, At, End, Off, Loads, Stages
<1>3. ASSUME NEW s \in Scripts, MakeDir(s) PROVE TypeOK'
  BY <1>3 DEF MakeDir, At, Go, End, Off, Put, Write, Id, Stages, Building, Artifact
<1>4. ASSUME NEW s \in Scripts, WriteContent(s) PROVE TypeOK'
  BY <1>4 DEF WriteContent, Builds, At, Go, Off, Put, Write, Id, Stages, Building
<1>5. ASSUME NEW s \in Scripts, Classify(s) PROVE TypeOK'
  <2>1. run[s] # Off
    BY <1>5 DEF Classify, Builds, At, Off
  <2>2. [run[s].artifact EXCEPT !.flags = @ \cup {"taxonomy"}] \in Artifact
    BY <2>1 DEF Artifact
  <2>3. run[s].loaded \subseteq Artifact /\ Id(s) \in DOMAIN release
    BY <1>5, <2>1 DEF Classify, Builds
  <2>4. /\ DOMAIN release' \subseteq Experiments
        /\ UNCHANGED <<overlap, registry, crashes>>
    BY <1>5, <2>3 DEF Classify, Put, Write
  <2>5. run' \in [Scripts -> RunType]
    <3> DEFINE a == [run[s].artifact EXCEPT !.flags = @ \cup {"taxonomy"}]
               r == [run[s] EXCEPT !.step = "release", !.artifact = a,
                                   !.loaded = (@ \ {run[s].artifact}) \cup {a}]
    <3>1. run' = [run EXCEPT ![s] = r]
      BY <1>5 DEF Classify
    <3>2. r \in [step : Stages, artifact : Artifact, loaded : SUBSET Artifact]
      <4>1. a \in Artifact
        BY <2>2
      <4> HIDE DEF a
      <4>2. QED
        BY <2>1, <2>3, <4>1 DEF Stages, Building
    <3> HIDE DEF r
    <3>3. QED
      BY <3>1, <3>2 DEF RunType
  <2>6. QED
    BY <2>4, <2>5 DEF RunType
<1>6. ASSUME NEW s \in Scripts, WriteRelease(s) \/ WriteManifest(s) \/ WriteRevisions(s) \/ Seal(s)
      PROVE  TypeOK'
  BY <1>6 DEF WriteRelease, WriteManifest, WriteRevisions, Seal, Builds, At, Go, Off, Put, Write,
              Id, Stages, Building
<1>7. ASSUME NEW s \in Scripts, Register(s) PROVE TypeOK'
  BY <1>7 DEF Register, At, End, Off
<1>8. ASSUME NEW s \in Scripts, RemoveBundle(s) PROVE TypeOK'
  BY <1>8 DEF RemoveBundle, Remove, End, Off
<1>9. ASSUME NEW s \in Scripts, Crash(s) PROVE TypeOK'
  <2>1. run' \in [Scripts -> RunType]
    BY <1>9 DEF Crash, End, RunType
  <2>2. registry' = Torn \/ registry' \subseteq Artifact
    BY <1>9 DEF Crash
  <2>3. DOMAIN release' \subseteq Experiments
    BY <1>9 DEF Crash, Put, Write
  <2>4. crashes' \in 0 .. MaxCrashes
    BY <1>9, ReleaseIngestAssumption DEF Crash
  <2>5. overlap' \in BOOLEAN
    BY <1>9 DEF Crash
  <2>6. QED
    BY <2>1, <2>2, <2>3, <2>4, <2>5 DEF RunType
<1>10. QED
  BY <1>1, <1>2, <1>3, <1>4, <1>5, <1>6, <1>7, <1>8, <1>9 DEF Next, Proceed, vars

LEMMA InitType == Init => TypeOK
BY ReleaseIngestAssumption DEF Init, TypeOK

\* TypeOK: the types of the registry file, the release directories and the
\* scripts (run_ingest, register_experiment).
THEOREM TypeCorrect == Spec => []TypeOK
<1>1. TypeOK /\ [Next]_vars => TypeOK'
  BY TypeStep
<1>2. QED
  BY <1>1, InitType, PTL DEF Spec

-----------------------------------------------------------------------------
(* The scripts that build directories.                                     *)

Builder(s) == run[s].step \in Building

\* A builder works on a directory of its own that is there, for a closed
\* generation.
BuildersApart ==
  /\ \A s \in Scripts : Builder(s) => Id(s) \in DOMAIN release
  /\ \A s, t \in Scripts : Builder(s) /\ Builder(t) /\ s # t => Id(s) # Id(t)

\* The part of Closes that the steps after classification leave alone.
Explains(dir, a) ==
  /\ "experiment.json" \in DOMAIN dir
  /\ dir["experiment.json"] = a
  /\ "FAIL" \in a.flags => "FAILURE.json" \in DOMAIN dir /\ dir["FAILURE.json"] = a

\* What a builder's directory already holds at each step.
Holds(s) ==
  /\ run[s].step \in {"release", "manifest", "revisions", "final"} =>
       Explains(Dir(s), run[s].artifact)
  /\ At(s, "final") =>
       "REVISIONS.json" \in DOMAIN Dir(s) /\ Dir(s)["REVISIONS.json"] = RevisionLog

Contents == \A s \in Scripts : Holds(s)

\* A closed directory that no script is building.
Sealed(a) ==
  /\ a.experiment_id \in DOMAIN release
  /\ Closes(release[a.experiment_id], a)
  /\ \A s \in Scripts : Builder(s) => Id(s) # a.experiment_id

\* What the registry lists as closed is sealed, and what a script would write into
\* it: what it loaded, and at the end its own artifact.
SealInv ==
  /\ \A a \in Entries : a.kind = "closed" => Sealed(a)
  /\ \A s \in Scripts : \A a \in run[s].loaded :
       a.kind = "closed" /\ (a # run[s].artifact \/ At(s, "register")) => Sealed(a)

ReleaseInv == TypeOK /\ BuildersApart /\ Contents /\ SealInv

\* Putting a file leaves the others.
LEMMA Writing ==
  ASSUME NEW dir, NEW f, NEW content
  PROVE  /\ DOMAIN Write(dir, f, content) = DOMAIN dir \cup {f}
         /\ Write(dir, f, content)[f] = content
         /\ \A g \in DOMAIN dir : g # f => Write(dir, f, content)[g] = dir[g]
BY DEF Write

\* The revision log the script writes ends with its freeze.
LEMMA LogFrozen == frozen(RevisionLog)
<1> DEFINE log == [i \in DOMAIN PIPELINE |-> record(PIPELINE[i])]
<1>1. log \in Seq({record(PIPELINE[i]) : i \in 1 .. 3}) /\ Len(log) = 3
  BY DEF PIPELINE
<1>2. /\ 4 \in DOMAIN RevisionLog
      /\ RevisionLog[4] = [stage |-> "generation", action |-> "freeze"]
  BY <1>1 DEF RevisionLog, freeze
<1>3. QED
  BY <1>2 DEF frozen

\* The steps that begin or end a run, or read or write the registry, make no builder.
LEMMA RegistrySteps ==
  ASSUME TypeOK, NEW s \in Scripts, Start(s) \/ LoadRegistry(s) \/ Register(s)
  PROVE  /\ UNCHANGED release
         /\ \A t \in Scripts : t # s => run'[t] = run[t]
         /\ ~Builder(s)'
BY DEF TypeOK, Start, StartCapture, StartClosed, LoadRegistry, Register, End, Off, Builder, Building

\* A directory is made where there is none.
LEMMA MakeDirStep ==
  ASSUME TypeOK, NEW s \in Scripts, MakeDir(s)
  PROVE  /\ \A t \in Scripts : t # s => run'[t] = run[t]
         /\ UNCHANGED <<overlap, registry>>
         /\ \/ ~Builder(s)' /\ UNCHANGED release
            \/ /\ Id(s) \notin DOMAIN release /\ At(s, "mkdir")
               /\ release' = Write(release, Id(s), << >>)
               /\ run'[s] = [run[s] EXCEPT !.step = "content"]
BY DEF TypeOK, MakeDir, Put, Go, End, Off, Builder, Building

\* The other steps of a builder put a file into its directory, and keep its id.
LEMMA WriteSteps ==
  ASSUME TypeOK, NEW s \in Scripts,
         WriteContent(s) \/ Classify(s) \/ WriteRelease(s) \/ WriteManifest(s)
           \/ WriteRevisions(s) \/ Seal(s)
  PROVE  /\ Builder(s)
         /\ Id(s) \in DOMAIN release
         /\ \A t \in Scripts : t # s => run'[t] = run[t]
         /\ Id(s)' = Id(s)
         /\ UNCHANGED <<overlap, registry>>
         /\ \E dir : release' = Write(release, Id(s), dir)
<1>1. CASE WriteContent(s)
  BY <1>1 DEF TypeOK, WriteContent, Builds, At, Put, Go, Off, Builder, Building, Id
<1>2. CASE Classify(s)
  <2>1. run[s] # Off /\ Builder(s) /\ Id(s) \in DOMAIN release
    BY <1>2 DEF Classify, Builds, At, Off, Builder, Building
  <2>2. Id(s)' = Id(s)
    BY <1>2, <2>1 DEF TypeOK, Classify, Id, Artifact
  <2>3. QED
    BY <1>2, <2>1, <2>2 DEF TypeOK, Classify, Put
<1>3. CASE WriteRelease(s)
  BY <1>3 DEF TypeOK, WriteRelease, Builds, At, Put, Go, Off, Builder, Building, Id
<1>4. CASE WriteManifest(s)
  BY <1>4 DEF TypeOK, WriteManifest, Builds, At, Put, Go, Off, Builder, Building, Id
<1>5. CASE WriteRevisions(s)
  BY <1>5 DEF TypeOK, WriteRevisions, Builds, At, Put, Go, Off, Builder, Building, Id
<1>6. CASE Seal(s)
  BY <1>6 DEF TypeOK, Seal, Builds, At, Put, Go, Off, Builder, Building, Id
<1>7. QED
  BY <1>1, <1>2, <1>3, <1>4, <1>5, <1>6

\* A builder that gives up or dies is one no more, and touches at most its own
\* directory; a script that is no builder touches none.
LEMMA EndSteps ==
  ASSUME TypeOK, NEW s \in Scripts, RemoveBundle(s) \/ Crash(s)
  PROVE  /\ ~Builder(s)'
         /\ run' = [run EXCEPT ![s] = Off]
         /\ registry' \in {registry, Torn} /\ UNCHANGED overlap
         /\ \/ UNCHANGED release
            \/ Builder(s) /\ \E dir : release' = Write(release, Id(s), dir)
            \/ Builder(s) /\ release' = [x \in DOMAIN release \ {Id(s)} |-> release[x]]
BY DEF TypeOK, RemoveBundle, Crash, Remove, Put, End, Off, Builder, Building

LEMMA ApartStep == ASSUME TypeOK, BuildersApart, [Next]_vars PROVE BuildersApart'
<1>1. ASSUME NEW s \in Scripts, Start(s) \/ LoadRegistry(s) \/ Register(s)
      PROVE  BuildersApart'
  BY <1>1, RegistrySteps DEF BuildersApart, Builder, Id
<1>2. ASSUME NEW s \in Scripts, MakeDir(s) PROVE BuildersApart'
  <2>1. \A t \in Scripts : t # s => (Builder(t)' <=> Builder(t)) /\ Id(t)' = Id(t)
    BY <1>2, MakeDirStep DEF Builder, Id
  <2>2. CASE ~Builder(s)' /\ UNCHANGED release
    BY <2>1, <2>2 DEF BuildersApart
  <2>3. CASE /\ Id(s) \notin DOMAIN release
             /\ release' = Write(release, Id(s), << >>)
             /\ run'[s] = [run[s] EXCEPT !.step = "content"]
             /\ At(s, "mkdir")
    <3>1. Id(s)' = Id(s)
      BY <2>3 DEF Id, TypeOK, Off, At
    <3>2. DOMAIN release' = DOMAIN release \cup {Id(s)}
      BY <2>3, Writing
    <3>3. QED
      BY <2>1, <2>3, <3>1, <3>2 DEF BuildersApart
  <2>4. QED
    BY <1>2, <2>2, <2>3, MakeDirStep
<1>3. ASSUME NEW s \in Scripts,
             WriteContent(s) \/ Classify(s) \/ WriteRelease(s) \/ WriteManifest(s)
               \/ WriteRevisions(s) \/ Seal(s)
      PROVE  BuildersApart'
  <2>1. \A t \in Scripts : (Builder(t)' => Builder(t)) /\ Id(t)' = Id(t)
    BY <1>3, WriteSteps DEF Builder, Id
  <2>2. DOMAIN release \subseteq DOMAIN release'
    BY <1>3, WriteSteps DEF Write
  <2>3. QED
    BY <2>1, <2>2 DEF BuildersApart
<1>4. ASSUME NEW s \in Scripts, RemoveBundle(s) \/ Crash(s) PROVE BuildersApart'
  <2>1. \A t \in Scripts : t # s => (Builder(t)' <=> Builder(t)) /\ Id(t)' = Id(t)
    BY <1>4, EndSteps DEF Builder, Id, TypeOK
  <2>2. \/ DOMAIN release \subseteq DOMAIN release'
        \/ Builder(s) /\ DOMAIN release' = DOMAIN release \ {Id(s)}
    BY <1>4, EndSteps DEF Write
  <2>3. ~Builder(s)'
    BY <1>4, EndSteps
  <2>4. QED
    BY <2>1, <2>2, <2>3 DEF BuildersApart
<1>5. CASE UNCHANGED vars
  BY <1>5 DEF vars, BuildersApart, Builder, Id
<1>6. QED
  BY <1>1, <1>2, <1>3, <1>4, <1>5 DEF Next, Proceed

Step(s) == Start(s) \/ Proceed(s) \/ RemoveBundle(s) \/ Crash(s)

\* A step of one script leaves the others, and every directory it is not building.
LEMMA OthersStay ==
  ASSUME TypeOK, NEW s \in Scripts, Step(s)
  PROVE  /\ \A t \in Scripts : t # s => run'[t] = run[t]
         /\ \A x \in DOMAIN release : (Builder(s) => x # Id(s)) =>
              x \in DOMAIN release' /\ release'[x] = release[x]
<1>1. CASE Start(s) \/ LoadRegistry(s) \/ Register(s)
  BY <1>1, RegistrySteps
<1>2. CASE MakeDir(s)
  BY <1>2, MakeDirStep DEF Write
<1>3. CASE WriteContent(s) \/ Classify(s) \/ WriteRelease(s) \/ WriteManifest(s)
             \/ WriteRevisions(s) \/ Seal(s)
  BY <1>3, WriteSteps DEF Write
<1>4. CASE RemoveBundle(s) \/ Crash(s)
  <2>1. \A t \in Scripts : t # s => run'[t] = run[t]
    BY <1>4, EndSteps DEF TypeOK
  <2>2. CASE UNCHANGED release
    BY <2>1, <2>2
  <2>3. ASSUME Builder(s), NEW dir, release' = Write(release, Id(s), dir)
        PROVE  \A x \in DOMAIN release : x # Id(s) => x \in DOMAIN release' /\ release'[x] = release[x]
    BY <2>3 DEF Write
  <2>4. CASE Builder(s) /\ release' = [x \in DOMAIN release \ {Id(s)} |-> release[x]]
    BY <2>1, <2>4
  <2>5. QED
    BY <1>4, <2>1, <2>2, <2>3, <2>4, EndSteps
<1>5. QED
  BY <1>1, <1>2, <1>3, <1>4 DEF Step, Proceed

\* Files other than those of Explains do not disturb it.
LEMMA WritingExplains ==
  ASSUME NEW dir, NEW a, NEW f \in {"RELEASE.json", "MANIFEST.json", "REVISIONS.json"},
         NEW content, Explains(dir, a)
  PROVE  Explains(Write(dir, f, content), a)
BY DEF Explains, Write

LEMMA ContentsStep == ASSUME TypeOK, BuildersApart, Contents, [Next]_vars PROVE Contents'
<1>1. ASSUME NEW s \in Scripts, Step(s) PROVE Contents'
  <2>1. ASSUME NEW t \in Scripts, t # s PROVE Holds(t)'
    <3>1. Holds(t) /\ run'[t] = run[t]
      BY <1>1, <2>1, OthersStay DEF Contents, Holds
    <3>2. Builder(t) => Dir(t)' = Dir(t)
      BY <1>1, <2>1, <3>1, OthersStay DEF BuildersApart, Dir, Id
    <3>3. QED
      BY <3>1, <3>2 DEF Holds, At, Builder, Building
  <2>2. Holds(s)'
    <3>1. CASE ~Builder(s)'
      BY <3>1 DEF Holds, At, Builder, Building
    <3>2. CASE MakeDir(s) /\ Builder(s)'
      BY <3>2 DEF MakeDir, Go, End, Off, Builder, Building, Holds, At, TypeOK
    <3>3. CASE WriteContent(s)
      <4> DEFINE a == run[s].artifact
      <4>1. run'[s] = [run[s] EXCEPT !.step = IF "FAIL" \in a.flags THEN "classify" ELSE "release"]
        BY <3>3 DEF WriteContent, Go, TypeOK
      <4>2. run[s] # Off
        BY <3>3 DEF WriteContent, Builds, At, Off
      <4>3. Dir(s)' = Content(Dir(s), a)
        BY <3>3, <4>1, <4>2 DEF WriteContent, Put, Write, Dir, Id, TypeOK
      <4>4. "experiment.json" \in DOMAIN Content(Dir(s), a) /\ Content(Dir(s), a)["experiment.json"] = a
        BY DEF Content, Write
      <4>5. QED
        BY <4>1, <4>2, <4>3, <4>4 DEF Holds, At, Explains, TypeOK
    <3>4. CASE Classify(s)
      <4> DEFINE a == [run[s].artifact EXCEPT !.flags = @ \cup {"taxonomy"}]
      <4>1. run[s] # Off
        BY <3>4 DEF Classify, Builds, At, Off
      <4>2. run'[s].step = "release" /\ run'[s].artifact = a
        BY <3>4, <4>1 DEF Classify, TypeOK
      <4>3. Id(s)' = Id(s)
        BY <3>4, WriteSteps
      <4>4. Dir(s)' = Write(Content(Dir(s), a), "FAILURE.json", a)
        BY <3>4, <4>3 DEF Classify, Put, Write, Dir
      <4> HIDE DEF a
      <4>5. Explains(Dir(s)', a)
        BY <4>4 DEF Explains, Content, Write
      <4>6. QED
        BY <4>2, <4>5 DEF Holds, At
    <3>5. ASSUME NEW f \in {"RELEASE.json", "MANIFEST.json", "REVISIONS.json"}, NEW content,
                 Put(s, Write(Dir(s), f, content)),
                 NEW next \in {"manifest", "revisions", "final", "register"}, Go(s, next),
                 Explains(Dir(s), run[s].artifact), run[s] # Off,
                 next = "final" => f = "REVISIONS.json" /\ content = RevisionLog
          PROVE  Holds(s)'
      <4>1. run'[s] = [run[s] EXCEPT !.step = next] /\ run'[s].artifact = run[s].artifact
        BY <3>5 DEF Go, TypeOK
      <4>2. Dir(s)' = Write(Dir(s), f, content)
        BY <3>5, <4>1 DEF Put, Write, Dir, Id
      <4>3. Explains(Dir(s)', run[s].artifact)
        BY <3>5, <4>2, WritingExplains
      <4>4. run'[s].step = next
        BY <3>5, <4>1 DEF TypeOK
      <4>5. next = "final" => "REVISIONS.json" \in DOMAIN Dir(s)' /\ Dir(s)'["REVISIONS.json"] = RevisionLog
        BY <3>5, <4>2 DEF Write
      <4>6. QED
        BY <4>1, <4>3, <4>4, <4>5 DEF Holds, At
    <3>6. CASE WriteRelease(s)
      BY <3>5, <3>6 DEF WriteRelease, Builds, At, Contents, Holds, Off
    <3>7. CASE WriteManifest(s)
      BY <3>5, <3>7 DEF WriteManifest, Builds, At, Contents, Holds, Off
    <3>8. CASE WriteRevisions(s)
      BY <3>5, <3>8 DEF WriteRevisions, Builds, At, Contents, Holds, Off
    <3>9. CASE Seal(s)
      BY <3>5, <3>9 DEF Seal, Builds, At, Contents, Holds, Off
    <3>10. QED
      BY <1>1, <3>1, <3>2, <3>3, <3>4, <3>6, <3>7, <3>8, <3>9, RegistrySteps, EndSteps
         DEF Step, Proceed
  <2>3. QED
    BY <2>1, <2>2 DEF Contents
<1>2. CASE UNCHANGED vars
  BY <1>2 DEF vars, Contents, Holds, At, Dir, Id
<1>3. QED
  BY <1>1, <1>2 DEF Next, Step

-----------------------------------------------------------------------------
(* What is registered is sealed.                                           *)

\* A builder after a step was one before it, or has made its directory just now.
LEMMA NextBuilder ==
  ASSUME TypeOK, NEW s \in Scripts, Step(s), Builder(s)'
  PROVE  Id(s)' = Id(s) /\ (Builder(s) \/ Id(s) \notin DOMAIN release)
<1>1. CASE MakeDir(s)
  <2>1. At(s, "mkdir") /\ run'[s] = [run[s] EXCEPT !.step = "content"] /\ Id(s) \notin DOMAIN release
    BY <1>1, MakeDirStep
  <2>2. QED
    BY <2>1 DEF Id, At, TypeOK, Off
<1>2. CASE WriteContent(s) \/ Classify(s) \/ WriteRelease(s) \/ WriteManifest(s)
             \/ WriteRevisions(s) \/ Seal(s)
  BY <1>2, WriteSteps
<1>3. QED
  BY <1>1, <1>2, RegistrySteps, EndSteps DEF Step, Proceed

\* A sealed directory stays sealed: nobody builds it, and nobody will.
LEMMA KeepsSealed ==
  ASSUME TypeOK, NEW s \in Scripts, Step(s), NEW a, Sealed(a)
  PROVE  Sealed(a)' /\ release'[a.experiment_id] = release[a.experiment_id]
<1>1. a.experiment_id \in DOMAIN release' /\ release'[a.experiment_id] = release[a.experiment_id]
  BY OthersStay DEF Sealed
<1>2. ASSUME NEW t \in Scripts, Builder(t)' PROVE Id(t)' # a.experiment_id
  <2>1. CASE t = s
    BY <1>2, <2>1, NextBuilder DEF Sealed
  <2>2. CASE t # s
    BY <1>2, <2>2, OthersStay DEF Sealed, Builder, Id
  <2>3. QED
    BY <2>1, <2>2
<1>3. QED
  BY <1>1, <1>2 DEF Sealed

\* The script that seals leaves a directory that closes its artifact.
LEMMA SealsOwn ==
  ASSUME TypeOK, BuildersApart, Contents, NEW s \in Scripts, Seal(s)
  PROVE  Sealed(run[s].artifact)'
<1> DEFINE dir == Write(Dir(s), "MANIFEST.json", ManifestOf(Dir(s)))
           a == run[s].artifact
<1>1. run' = [run EXCEPT ![s].step = "register"] /\ run[s] # Off /\ At(s, "final")
  BY DEF Seal, Go, Builds, At, Off
<1>2. run'[s].artifact = a /\ run'[s].step = "register" /\ Id(s)' = Id(s)
  BY <1>1 DEF TypeOK, Id
<1>3. Dir(s)' = dir /\ Id(s) \in DOMAIN release'
  BY <1>2 DEF Seal, Put, Write, Dir
<1>4. verify_release(dir)
  BY DEF Seal
<1>5. Explains(Dir(s), a) /\ "REVISIONS.json" \in DOMAIN Dir(s)
        /\ Dir(s)["REVISIONS.json"] = RevisionLog
  BY <1>1 DEF Contents, Holds, At
<1>6. Explains(dir, a) /\ "REVISIONS.json" \in DOMAIN dir /\ dir["REVISIONS.json"] = RevisionLog
  BY <1>5 DEF Explains, Write
<1> HIDE DEF dir
<1>7. Closes(dir, a)
  BY <1>4, <1>6, LogFrozen DEF Closes, Explains
<1>8. ASSUME NEW t \in Scripts, Builder(t)' PROVE Id(t)' # Id(s)
  <2>1. t # s
    BY <1>2, <1>8 DEF Builder, Building
  <2>2. Builder(t) /\ Id(t)' = Id(t) /\ Builder(s)
    BY <1>1, <1>8, <2>1 DEF Builder, Id, At, Building, TypeOK
  <2>3. QED
    BY <2>1, <2>2 DEF BuildersApart
<1>9. QED
  BY <1>2, <1>3, <1>7, <1>8 DEF Sealed, Dir, Id

LEMMA SealStep ==
  ASSUME TypeOK, BuildersApart, Contents, SealInv, [Next]_vars
  PROVE  SealInv'
<1>1. ASSUME NEW s \in Scripts, Step(s) PROVE SealInv'
  <2>1. \A a : Sealed(a) => Sealed(a)'
    BY <1>1, KeepsSealed
  <2> DEFINE Knows(t) == \A a \in run[t].loaded :
               a.kind = "closed" /\ (a # run[t].artifact \/ At(t, "register")) => Sealed(a)
  <2>2. ASSUME NEW t \in Scripts, t # s PROVE Knows(t)'
    BY <1>1, <2>1, <2>2, OthersStay DEF SealInv, At
  <2>3. Knows(s)'
    <3>1. CASE run'[s].loaded = {}
      BY <3>1
    <3>2. CASE LoadRegistry(s) /\ run'[s].loaded # {}
      <4>1. /\ run'[s].loaded = Entries \cup {run[s].artifact}
            /\ run'[s].artifact = run[s].artifact
            /\ run'[s].step = IF run[s].artifact.kind = "closed" THEN "mkdir" ELSE "register"
        BY <3>2 DEF LoadRegistry, Loads, Entries, TypeOK, End, Off, At
      <4>2. QED
        BY <2>1, <4>1 DEF SealInv, At
    <3>3. CASE /\ run'[s].loaded = run[s].loaded /\ run'[s].artifact = run[s].artifact
               /\ run'[s].step # "register"
      BY <2>1, <3>3 DEF SealInv, At
    <3>4. CASE Classify(s)
      <4>1. run[s] # Off
        BY <3>4 DEF Classify, Builds, At, Off
      <4>2. /\ run'[s].loaded = (run[s].loaded \ {run[s].artifact}) \cup {run'[s].artifact}
            /\ run'[s].step = "release"
        BY <3>4, <4>1 DEF Classify, TypeOK
      <4>3. QED
        BY <2>1, <4>2 DEF SealInv, At
    <3>5. CASE Seal(s)
      <4>1. run'[s].loaded = run[s].loaded /\ run'[s].artifact = run[s].artifact
        BY <3>5 DEF Seal, Go, TypeOK
      <4>2. QED
        BY <2>1, <3>5, <4>1, SealsOwn DEF SealInv
    <3>6. QED
      <4>1. CASE Start(s) \/ Register(s) \/ RemoveBundle(s) \/ Crash(s)
        BY <3>1, <4>1 DEF Start, StartClosed, StartCapture, Register, RemoveBundle, Crash, End, Off, TypeOK
      <4>2. CASE MakeDir(s)
        BY <3>1, <3>3, <4>2, MakeDirStep DEF MakeDir, Go, End, Off, TypeOK, At
      <4>3. CASE WriteContent(s) \/ WriteRelease(s) \/ WriteManifest(s) \/ WriteRevisions(s)
        BY <3>3, <4>3 DEF WriteContent, WriteRelease, WriteManifest, WriteRevisions, Builds, At, Go, Off, TypeOK
      <4>4. QED
        BY <1>1, <3>1, <3>2, <3>4, <3>5, <4>1, <4>2, <4>3 DEF Step, Proceed
  <2>4. \A a \in Entries' : a.kind = "closed" => Sealed(a)'
    <3>1. CASE Register(s)
      BY <2>1, <3>1 DEF Register, Entries, SealInv
    <3>2. CASE registry' \in {registry, Torn}
      BY <2>1, <3>2 DEF Entries, SealInv
    <3>3. QED
      BY <1>1, <3>1, <3>2, RegistrySteps, EndSteps, WriteSteps, MakeDirStep
         DEF Step, Proceed, Start, StartClosed, StartCapture, LoadRegistry
  <2>5. QED
    BY <2>2, <2>3, <2>4 DEF SealInv
<1>2. CASE UNCHANGED vars
  BY <1>2 DEF vars, SealInv, Entries, Sealed, Builder, At, Id
<1>3. QED
  BY <1>1, <1>2 DEF Next, Step

LEMMA ReleaseInvariant == Spec => []ReleaseInv
<1>1. Init => ReleaseInv
  BY InitType DEF Init, ReleaseInv, BuildersApart, Contents, Holds, SealInv, Builder, Building, At, Off, Entries
<1>2. ReleaseInv /\ [Next]_vars => ReleaseInv'
  BY TypeStep, ApartStep, ContentsStep, SealStep DEF ReleaseInv
<1>3. QED
  BY <1>1, <1>2, PTL DEF Spec

\* RegisteredIsSealed: what the registry lists as closed has a sealed release that
\* says the same of it, whatever scripts overlap or die (run_ingest).
THEOREM AlwaysSealed == Spec => []RegisteredIsSealed
<1>1. ReleaseInv => RegisteredIsSealed
  BY DEF ReleaseInv, SealInv, Sealed, RegisteredIsSealed
<1>2. QED
  BY <1>1, ReleaseInvariant, PTL

\* SealedReleaseIsFinal: no script ever touches the directory of a closed
\* experiment again (mkdir and the cleanup of run_ingest).
THEOREM ReleasesAreFinal == Spec => SealedReleaseIsFinal
<1>1. ReleaseInv /\ [Next]_vars =>
        [\A x \in Experiments :
           (\E a \in Entries : a.kind = "closed" /\ a.experiment_id = x)
             => x \in DOMAIN release' /\ release'[x] = release[x]]_vars
  <2>1. ASSUME ReleaseInv, NEW s \in Scripts, Step(s), NEW a \in Entries, a.kind = "closed"
        PROVE  a.experiment_id \in DOMAIN release' /\ release'[a.experiment_id] = release[a.experiment_id]
    <3>1. Sealed(a)
      BY <2>1 DEF ReleaseInv, SealInv
    <3>2. QED
      BY <2>1, <3>1, KeepsSealed DEF ReleaseInv, Sealed
  <2>2. QED
    BY <2>1 DEF Next, Step
<1>2. QED
  BY <1>1, ReleaseInvariant, PTL DEF Spec, SealedReleaseIsFinal

-----------------------------------------------------------------------------
(* One script at a time.                                                   *)

\* The script under way has loaded every entry, and its own id is in none.
Alone ==
  ~overlap =>
    /\ \A s, t \in Scripts : s # t => At(s, "off") \/ At(t, "off")
    /\ \A s \in Scripts :
         run[s].step \in {"mkdir", "register"} \cup Building =>
           /\ Entries \subseteq run[s].loaded
           /\ \A b \in Entries : b.experiment_id # Id(s)

LEMMA OverlapIsFixed == ASSUME TypeOK, [Next]_vars PROVE overlap' = overlap
BY MakeDirStep, WriteSteps, EndSteps
   DEF Next, vars, Proceed, Start, StartClosed, StartCapture, LoadRegistry, Register

LEMMA AloneStep == ASSUME TypeOK, Alone, [Next]_vars PROVE Alone'
<1>1. ASSUME NEW s \in Scripts, Step(s), ~overlap PROVE Alone'
  <2>1. \A t \in Scripts : t # s => At(t, "off") /\ At(t, "off")'
    <3>1. CASE Start(s)
      BY <1>1, <3>1, OthersStay DEF Start, StartClosed, StartCapture, MayStart, At
    <3>2. CASE ~At(s, "off")
      BY <1>1, <3>2, OthersStay DEF Alone, At
    <3>3. QED
      BY <1>1, <3>1, <3>2 DEF Step, Proceed, LoadRegistry, MakeDir, WriteContent, Classify, WriteRelease,
         WriteManifest, WriteRevisions, Seal, Register, RemoveBundle, Crash, Builds, At, Building
  <2> DEFINE Busy(t) == run[t].step \in {"mkdir", "register"} \cup Building
             Owns(t) == Entries \subseteq run[t].loaded /\ \A b \in Entries : b.experiment_id # Id(t)
  <2>2. Busy(s)' => Owns(s)'
    <3>1. CASE LoadRegistry(s)
      <4>1. CASE run'[s] = Off
        BY <4>1 DEF Off, Building
      <4>2. CASE Loads(registry) /\ Addable(registry, run[s].artifact)
        <5>1. /\ run'[s].loaded = Entries \cup {run[s].artifact}
              /\ run'[s].artifact = run[s].artifact
              /\ registry' = registry
          BY <3>1, <4>2 DEF LoadRegistry, Loads, Entries, TypeOK, Off, At
        <5>2. QED
          BY <4>2, <5>1 DEF Addable, Entries, Id
      <4>3. QED
        BY <3>1, <4>1, <4>2 DEF LoadRegistry, End, TypeOK
    <3>2. CASE Classify(s)
      <4>1. run[s] # Off /\ Busy(s)
        BY <3>2 DEF Classify, Builds, At, Off, Building
      <4>2. /\ run'[s].loaded = (run[s].loaded \ {run[s].artifact}) \cup {run'[s].artifact}
            /\ Id(s)' = Id(s) /\ registry' = registry
        <5>1. Id(s)' = Id(s) /\ registry' = registry
          BY <3>2, WriteSteps
        <5>2. QED
          BY <3>2, <4>1, <5>1 DEF Classify, TypeOK
      <4>3. Entries \subseteq run[s].loaded /\ \A b \in Entries : b.experiment_id # Id(s)
        BY <1>1, <4>1 DEF Alone
      <4>4. QED
        BY <4>2, <4>3 DEF Entries, Id
    <3>3. CASE /\ run'[s].loaded = run[s].loaded /\ run'[s].artifact = run[s].artifact
               /\ registry' = registry /\ Busy(s)
      BY <1>1, <3>3 DEF Alone, Entries, Id
    <3>4. CASE run'[s].step \in {"off", "load"}
      BY <3>4 DEF Building
    <3>5. QED
      <4>1. CASE Start(s) \/ Register(s) \/ RemoveBundle(s) \/ Crash(s)
        BY <3>4, <4>1 DEF Start, StartClosed, StartCapture, Register, RemoveBundle, Crash, End, Off, TypeOK
      <4>2. CASE MakeDir(s)
        BY <3>3, <3>4, <4>2, MakeDirStep DEF MakeDir, Go, End, Off, TypeOK, At
      <4>3. CASE WriteContent(s) \/ WriteRelease(s) \/ WriteManifest(s) \/ WriteRevisions(s) \/ Seal(s)
        BY <3>3, <4>3 DEF WriteContent, WriteRelease, WriteManifest, WriteRevisions, Seal, Builds, At, Go,
           Off, TypeOK, Building
      <4>4. QED
        BY <1>1, <3>1, <3>2, <4>1, <4>2, <4>3 DEF Step, Proceed
  <2>3. QED
    BY <1>1, <2>1, <2>2 DEF Alone, At, Building
<1>2. CASE UNCHANGED vars
  BY <1>2 DEF vars, Alone, Entries, At, Id
<1>3. CASE overlap
  BY <1>3, OverlapIsFixed DEF Alone
<1>4. QED
  BY <1>1, <1>2, <1>3 DEF Next, Step

\* EntriesStay: scripts that follow one another only add to the registry
\* (ExperimentRegistry, register_experiment).
THEOREM RegistryGrows == Spec => EntriesStay
<1>1. Init => TypeOK /\ Alone
  BY InitType DEF Init, Alone, At, Off, Building
<1>2. TypeOK /\ Alone /\ [Next]_vars => TypeOK' /\ Alone'
  BY TypeStep, AloneStep
<1>3. TypeOK /\ Alone /\ [Next]_vars =>
        [~overlap /\ registry' # Torn => Entries \subseteq registry']_vars
  <2>1. ASSUME Alone, ~overlap, NEW s \in Scripts, Register(s) PROVE Entries \subseteq registry'
    BY <2>1 DEF Alone, Register, At
  <2>2. ASSUME TypeOK, NEW s \in Scripts, Step(s), ~Register(s) PROVE registry' \in {registry, Torn}
    BY <2>2, RegistrySteps, EndSteps, WriteSteps, MakeDirStep
       DEF Step, Proceed, Start, StartClosed, StartCapture, LoadRegistry
  <2>3. QED
    BY <2>1, <2>2 DEF Next, Step, Entries
<1>4. QED
  BY <1>1, <1>2, <1>3, PTL DEF Spec, EntriesStay

=============================================================================
