------------------------------ MODULE CaptureLab ------------------------------
(***************************************************************************)
(* The Capture Lab page (capture-lab.js), from loading a frozen P1 trial   *)
(* to sealing and staging the session, and the script that admits what it  *)
(* staged (scripts/validate_capture_session.py).                           *)
(*                                                                         *)
(* The page runs one handler at a time, but a handler that awaits gives    *)
(* way: other clicks run before it goes on, and it then reads the page as  *)
(* it has become.  A handler is one action up to its await and one action  *)
(* for each stretch after it; what it carries over is in handler.  A frame *)
(* remembers the arm the page named while it was taken (shown), which the  *)
(* code does not record: it labels the frame when its bytes have arrived.  *)
(*                                                                         *)
(* `hasty' counts the clicks made while a handler is pending or a          *)
(* recording runs: at 0 the operator has waited before every click.        *)
(* The form's identifiers are taken to be filled in, the camera to run,    *)
(* and the page to stay open.                                              *)
(***************************************************************************)
EXTENDS Integers, Sequences, FiniteSets

CONSTANTS
  Trials,       \* trials of the frozen schedule
  FirstArm,     \* the arm each trial captures first
  Profiles,     \* calibration profiles, ordered by created_utc
  Accepted,     \* the profiles within the acceptance thresholds
  None,         \* null
  MaxHandlers,  \* bound: handlers pending at once
  MaxFrames,    \* bound: captures of each kind begun
  MaxTaken,     \* bound: captures begun
  MaxStagings,  \* bound: stagings begun
  MaxReadings,  \* bound: calibration files chosen
  MaxHasty      \* bound: hasty clicks

Arms == {"control", "candidate"}
Kinds == {"still", "motion"}
Handlers == 1 .. MaxHandlers

ASSUME CaptureAssumption ==
  /\ FirstArm \in [Trials -> Arms]
  /\ Profiles \subseteq Int /\ Accepted \subseteq Profiles
  /\ None \notin Trials /\ None \notin Profiles
  /\ MaxFrames \in [Kinds -> Nat]
  /\ {MaxHandlers, MaxTaken, MaxStagings, MaxReadings, MaxHasty} \subseteq Nat

VARIABLES
  hasty,        \* clicks made while a handler was pending or a recording ran
  physical,     \* the evidence class is physical_garment_p1
  connected,    \* runtimeConnected
  binding,      \* p1Binding: the trial whose geometry the form shows
  arm,
  calibration,  \* calibrationSources: a profile for "pre" and for "post"
  frozen,       \* the frozen session manifest
  recording,    \* the recording in progress
  captures,     \* the records of each arm and kind
  reviewed,     \* review() has enabled the buttons it guards
  sealed,
  exported,     \* a sealed session was downloaded
  handler,      \* the pending handlers
  stagings,     \* number of stagings begun
  readings,     \* number of calibration files chosen
  frames,       \* number of captures begun of each kind
  files,        \* runtime workspace: the frame under each uploaded path
  staged,       \* runtime workspace: the session JSON of each session id
  admitted      \* the P1 sessions the validation script accepted

page == <<physical, connected, binding, arm, calibration, frozen,
          recording, captures, reviewed, sealed, exported, stagings, readings, frames>>
workspace == <<files, staged, admitted>>
vars == <<hasty, page, handler, workspace>>

List(a, k) == captures[<<a, k>>]

\* The records of a session in the order buildSession lists them.
Records(c) == c[<<"control", "still">>] \o c[<<"control", "motion">>] \o
              c[<<"candidate", "still">>] \o c[<<"candidate", "motion">>]

anyCapture == \E x \in Arms \X Kinds : captures[x] # <<>>

Pending(kind) == {h \in Handlers : handler[h] # None /\ handler[h].kind = kind}

Init ==
  /\ hasty = 0
  /\ physical = FALSE
  /\ connected = FALSE
  /\ binding = None
  /\ arm = "control"
  /\ calibration = [phase \in {"pre", "post"} |-> None]
  /\ frozen = None
  /\ recording = None
  /\ captures = [x \in Arms \X Kinds |-> <<>>]
  /\ reviewed = FALSE
  /\ sealed = FALSE
  /\ exported = FALSE
  /\ stagings = 0
  /\ readings = 0
  /\ handler = [h \in Handlers |-> None]
  /\ frames = [k \in Kinds |-> 0]
  /\ files = [x \in {} |-> 0]
  /\ staged = [x \in {} |-> None]
  /\ admitted = {}

-----------------------------------------------------------------------------
(* Handlers.                                                               *)

Idle == recording = None /\ \A h \in Handlers : handler[h] = None

Click ==
  /\ Idle \/ hasty < MaxHasty
  /\ hasty' = IF Idle THEN hasty ELSE hasty + 1

\* A handler runs up to its first await: it becomes pending.
Await(h, task) ==
  /\ handler[h] = None
  /\ \A g \in 1 .. (h - 1) : handler[g] # None
  /\ handler' = [handler EXCEPT ![h] = task]

Goes(h, task) == handler' = [handler EXCEPT ![h] = task]
Ends(h) == Goes(h, None)

-----------------------------------------------------------------------------
(* The experiment and the calibration.                                     *)

\* syncEvidenceMode drops the binding outside P1, until the manifest is frozen.
Synced(p) == IF ~p /\ frozen = None THEN None ELSE binding

\* The evidence class is a select that freezing disables.
SelectClass ==
  /\ Click
  /\ frozen = None
  /\ physical' = ~physical
  /\ binding' = Synced(physical')
  /\ UNCHANGED <<connected, arm, calibration, frozen, recording,
                 captures, reviewed, sealed, exported, stagings, readings, frames, handler, workspace>>

\* The runtime is polled every fifteen seconds.
checkRuntime ==
  /\ connected' \in BOOLEAN
  /\ binding' = Synced(physical)
  /\ UNCHANGED <<hasty, physical, arm, calibration, frozen, recording,
                 captures, reviewed, sealed, exported, stagings, readings, frames, handler, workspace>>

\* Mutant: the poll enables the button again after freezing.
LoadEnabledFrozen == physical /\ connected

\* The button is enabled for P1 while the runtime is connected and nothing is
\* frozen.
LoadEnabled == physical /\ connected /\ frozen = None

loadNextP1Trial(h) ==
  /\ Click
  /\ LoadEnabled
  /\ Await(h, [kind |-> "load"])
  /\ UNCHANGED <<page, workspace>>

\* The page names another arm, also to a recording that runs.
ShowArm(a) ==
  /\ arm' = a
  /\ recording' = IF recording = None THEN None
                  ELSE [recording EXCEPT !.shown = @ \cup {a}]

\* The answer: a trial, none left, or an error.
TrialLoaded(h) ==
  /\ h \in Pending("load")
  /\ Ends(h)
  /\ \/ \E t \in Trials : binding' = t /\ ShowArm(FirstArm[t])
     \/ UNCHANGED <<binding, arm, recording>>
  /\ UNCHANGED <<hasty, physical, connected, calibration, frozen,
                 captures, reviewed, sealed, exported, stagings, readings, frames, workspace>>

\* review() enables the button of the post profile.
validateCalibration(h, phase, p) ==
  /\ Click
  /\ physical
  /\ phase = "post" => reviewed /\ \E a \in Arms : List(a, "still") # <<>>
  /\ Await(h, [kind |-> "calibrate", phase |-> phase, profile |-> p])
  /\ readings < MaxReadings
  /\ readings' = readings + 1
  /\ UNCHANGED <<physical, connected, binding, arm, calibration, frozen, recording,
                 captures, reviewed, sealed, exported, stagings, frames, workspace>>

\* The file has been read.  It is refused (and the phase cleared) when it does
\* not parse, or when a post profile is dated before the pre profile.
CalibrationRead(h) ==
  /\ h \in Pending("calibrate")
  /\ LET task == handler[h]
         early == task.phase = "post" /\ calibration["pre"] # None
                    /\ task.profile < calibration["pre"]
     IN \/ calibration' = [calibration EXCEPT ![task.phase] = None]
        \/ /\ ~early
           /\ calibration' = [calibration EXCEPT ![task.phase] = task.profile]
  /\ Ends(h)
  /\ UNCHANGED <<hasty, physical, connected, binding, arm, frozen, recording,
                 captures, reviewed, sealed, exported, stagings, readings, frames, workspace>>

Passed(phase) == calibration[phase] \in Accepted

\* The manifest is read from the page before it is hashed.
manifest ==
  [id |-> 1 + Cardinality(Pending("freeze")),
   physical |-> physical,
   trial |-> IF physical THEN binding ELSE None,
   profile |-> IF physical THEN calibration["pre"] ELSE None,
   contract |-> FALSE]

freeze(h) ==
  /\ Click
  /\ frozen = None
  /\ physical => connected /\ binding # None /\ Passed("pre")
  /\ Await(h, [kind |-> "freeze", manifest |-> manifest])
  /\ UNCHANGED <<page, workspace>>

Frozen(h) ==
  /\ h \in Pending("freeze")
  /\ frozen' = handler[h].manifest
  /\ Ends(h)
  /\ UNCHANGED <<hasty, physical, connected, binding, arm, calibration,
                 recording, captures, reviewed, sealed, exported, stagings, readings, frames, workspace>>

-----------------------------------------------------------------------------
(* The captures.                                                           *)

\* Mutant: without the frozen arm order.
switchArmFreely(a) ==
  /\ Click
  /\ ShowArm(a)
  /\ UNCHANGED <<physical, connected, binding, calibration, frozen,
                 captures, reviewed, sealed, exported, stagings, readings, frames, handler,
                 workspace>>

switchArm(a) ==
  /\ Click
  /\ ~(physical /\ binding # None /\ ~anyCapture /\ a # FirstArm[binding])
  /\ ShowArm(a)
  /\ UNCHANGED <<physical, connected, binding, calibration, frozen,
                 captures, reviewed, sealed, exported, stagings, readings, frames, handler, workspace>>

\* A capture begins: frames are numbered in the order they are taken.
Taken == frames["still"] + frames["motion"]

\* Mutant: the capture buttons stay enabled after the seal.
TakeAfterSeal(k) ==
  /\ frozen # None
  /\ frames[k] < MaxFrames[k] /\ Taken < MaxTaken
  /\ frames' = [frames EXCEPT ![k] = @ + 1]

Take(k) ==
  /\ frozen # None /\ ~sealed
  /\ frames[k] < MaxFrames[k] /\ Taken < MaxTaken
  /\ frames' = [frames EXCEPT ![k] = @ + 1]

\* The frame is drawn; its bytes follow.
still(h) ==
  /\ Click
  /\ Take("still")
  /\ Await(h, [kind |-> "bytes", type |-> "still", frame |-> Taken + 1, shown |-> {arm}])
  /\ UNCHANGED <<physical, connected, binding, arm, calibration, frozen,
                 recording, captures, reviewed, sealed, exported, stagings, readings, workspace>>

\* The record button stays disabled until the last recording is in its list.
startRecord ==
  /\ Click
  /\ Take("motion")
  /\ recording = None
  /\ \A h \in Handlers : handler[h] # None => ~(handler[h].kind \in {"bytes", "hash"}
                                                 /\ handler[h].type = "motion")
  /\ recording' = [frame |-> Taken + 1, shown |-> {arm}]
  /\ UNCHANGED <<physical, connected, binding, arm, calibration, frozen,
                 captures, reviewed, sealed, exported, stagings, readings, handler, workspace>>

stopRecord(h) ==
  /\ recording # None
  /\ Await(h, [kind |-> "bytes", type |-> "motion", frame |-> recording.frame,
               shown |-> recording.shown])
  /\ recording' = None
  /\ UNCHANGED <<hasty, physical, connected, binding, arm, calibration, frozen,
                 captures, reviewed, sealed, exported, stagings, readings, frames, workspace>>

\* The bytes are there: the record takes its id, arm, condition and time from
\* the page as it is now.
Label(h) ==
  /\ h \in Pending("bytes")
  /\ LET task == handler[h] IN
       Goes(h, [kind |-> "hash", type |-> task.type, frame |-> task.frame,
                shown |-> task.shown, arm |-> arm,
                number |-> Len(List(arm, task.type)) + 1,
                condition |-> binding,
                time |-> Len(Records(captures)) + Cardinality(Pending("hash")) + 1])
  /\ UNCHANGED <<hasty, page, workspace>>

\* The hash is there: the record joins the list of the arm that is current now.
Push(h) ==
  /\ h \in Pending("hash")
  /\ LET task == handler[h]
         record == [list |-> arm, kind |-> task.type, frame |-> task.frame,
                    shown |-> task.shown, arm |-> task.arm, number |-> task.number,
                    condition |-> task.condition, time |-> task.time]
     IN captures' = [captures EXCEPT ![<<arm, task.type>>] = Append(@, record)]
  /\ Ends(h)
  /\ UNCHANGED <<hasty, physical, connected, binding, arm, calibration, frozen,
                 recording, reviewed, sealed, exported, stagings, readings, frames, workspace>>

-----------------------------------------------------------------------------
(* Review, analysis contract, seal and staging.                            *)

Paired == \A a \in Arms : List(a, "still") # <<>>

review ==
  /\ Click
  /\ ~sealed
  /\ Paired
  /\ reviewed' = TRUE
  /\ UNCHANGED <<physical, connected, binding, arm, calibration, frozen,
                 recording, captures, sealed, exported, stagings, readings, frames, handler, workspace>>

\* Of the contract, only that there is one is kept: analysing again replaces it.
analyze ==
  /\ Click
  /\ reviewed
  /\ frozen' = [frozen EXCEPT !.contract = TRUE]
  /\ UNCHANGED <<physical, connected, binding, arm, calibration,
                 recording, captures, reviewed, sealed, exported, stagings, readings, frames, handler,
                 workspace>>

buildSession == [manifest |-> frozen, pre |-> calibration["pre"],
                 post |-> calibration["post"], captures |-> captures]

Stage(h, sealing) ==
  /\ stagings < MaxStagings
  /\ stagings' = stagings + 1
  /\ Await(h, [kind |-> "stage", session |-> buildSession, sent |-> 0,
               sealing |-> sealing])

\* Sealing stages the session, or downloads it when there is no runtime.
seal(h) ==
  /\ Click
  /\ reviewed /\ ~sealed
  /\ frozen.physical => Passed("post")
  /\ Paired
  /\ frozen.contract
  /\ sealed' = TRUE
  /\ \/ connected /\ Stage(h, TRUE) /\ UNCHANGED exported
     \/ ~connected /\ exported' = TRUE /\ UNCHANGED <<handler, stagings>>
  /\ UNCHANGED <<physical, connected, binding, arm, calibration, frozen,
                 recording, captures, reviewed, readings, frames, workspace>>

\* The button that stages a sealed session again.
stageSessionToRuntime(h) ==
  /\ Click
  /\ sealed /\ connected
  /\ Stage(h, FALSE)
  /\ UNCHANGED <<physical, connected, binding, arm, calibration, frozen, recording,
                 captures, reviewed, sealed, exported, readings, frames, workspace>>

Path(session, r) == <<session.manifest.id, r.list, r.arm, r.kind, r.number>>

Stored(f, x, v) == [y \in DOMAIN f \cup {x} |-> IF y = x THEN v ELSE f[y]]

\* Mutant: the session JSON goes first.
UploadSessionFirst(h) ==
  /\ h \in Pending("stage")
  /\ LET task == handler[h]
         all == Records(task.session.captures)
     IN /\ IF task.sent = 0
             THEN /\ staged' = Stored(staged, task.session.manifest.id, task.session)
                  /\ UNCHANGED files
             ELSE /\ files' = Stored(files, Path(task.session, all[task.sent]),
                                     all[task.sent].frame)
                  /\ UNCHANGED staged
        /\ IF task.sent = Len(all) THEN Ends(h) ELSE Goes(h, [task EXCEPT !.sent = @ + 1])
  /\ UNCHANGED <<hasty, page, admitted>>

\* The next file is uploaded; after the last one, the session JSON.
Upload(h) ==
  /\ h \in Pending("stage")
  /\ LET task == handler[h]
         all == Records(task.session.captures)
     IN \/ /\ task.sent < Len(all)
           /\ files' = Stored(files, Path(task.session, all[task.sent + 1]),
                              all[task.sent + 1].frame)
           /\ Goes(h, [task EXCEPT !.sent = @ + 1])
           /\ UNCHANGED staged
        \/ /\ task.sent = Len(all)
           /\ staged' = Stored(staged, task.session.manifest.id, task.session)
           /\ Ends(h)
           /\ UNCHANGED files
  /\ UNCHANGED <<hasty, page, admitted>>

\* Mutant: a failed staging is only reported.
UploadFailsSilently(h) ==
  /\ h \in Pending("stage")
  /\ Ends(h)
  /\ UNCHANGED <<hasty, page, workspace>>

\* What is under a path after an upload that ended early.
TornFile == 0

\* An upload fails: before it reaches the workspace, in the middle, when the
\* runtime has truncated the file, or with the answer, when it has stored it.  A
\* torn session JSON does not parse.  While sealing, the session is downloaded
\* instead.
UploadFails(h) ==
  /\ h \in Pending("stage")
  /\ LET task == handler[h]
         all == Records(task.session.captures)
     IN \/ UNCHANGED <<files, staged>>
        \/ /\ task.sent < Len(all)
           /\ \E bytes \in {TornFile, all[task.sent + 1].frame} :
                files' = Stored(files, Path(task.session, all[task.sent + 1]), bytes)
           /\ UNCHANGED staged
        \/ /\ task.sent = Len(all)
           /\ \/ staged' = [id \in DOMAIN staged \ {task.session.manifest.id} |-> staged[id]]
              \/ staged' = Stored(staged, task.session.manifest.id, task.session)
           /\ UNCHANGED files
  /\ exported' = (exported \/ handler[h].sealing)
  /\ Ends(h)
  /\ UNCHANGED <<hasty, physical, connected, binding, arm, calibration, frozen,
                 recording, captures, reviewed, sealed, stagings, readings, frames, admitted>>

-----------------------------------------------------------------------------
(* The validation script.                                                  *)

\* validate_session_calibration_binding.
BindsCalibration(s) ==
  /\ s.pre \in Accepted /\ s.post \in Accepted
  /\ s.pre < s.post
  /\ s.manifest.profile = s.pre

\* validate_capture_first_arm: by the records' times and the lists they are in.
BindsFirstArm(s) ==
  \A i \in DOMAIN Records(s.captures) :
    LET r == Records(s.captures)[i] IN
      (\A j \in DOMAIN Records(s.captures) : r.time <= Records(s.captures)[j].time)
        => r.list = FirstArm[s.manifest.trial]

\* Mutant: the files are there.
FilesArePresent(s) ==
  \A i \in DOMAIN Records(s.captures) :
    Path(s, Records(s.captures)[i]) \in DOMAIN files

\* verify_capture_hashes.
FilesMatch(s) ==
  \A i \in DOMAIN Records(s.captures) :
    LET r == Records(s.captures)[i] IN
      Path(s, r) \in DOMAIN files /\ files[Path(s, r)] = r.frame

\* The Console runs the script on a staged session.
Validate(id) ==
  /\ id \in DOMAIN staged
  /\ LET s == staged[id] IN
       /\ s.manifest.physical
       /\ BindsCalibration(s)
       /\ BindsFirstArm(s)
       /\ FilesMatch(s)
       /\ admitted' = admitted \cup {s}
  /\ UNCHANGED <<hasty, page, handler, files, staged>>

-----------------------------------------------------------------------------

Continue(h) ==
  \/ TrialLoaded(h) \/ CalibrationRead(h) \/ Frozen(h) \/ Label(h) \/ Push(h)
  \/ Upload(h) \/ UploadFails(h)

Next ==
  \/ SelectClass \/ checkRuntime
  \/ \E a \in Arms : switchArm(a)
  \/ startRecord \/ review \/ analyze
  \/ \E h \in Handlers :
       \/ loadNextP1Trial(h) \/ freeze(h) \/ still(h) \/ stopRecord(h)
       \/ \E phase \in {"pre", "post"}, p \in Profiles : validateCalibration(h, phase, p)
       \/ seal(h) \/ stageSessionToRuntime(h)
       \/ Continue(h)
  \/ \E id \in DOMAIN staged : Validate(id)

\* The browser goes on with its pending handlers, one or another of them: a
\* digest completes and a request is answered or fails.
Fairness == WF_vars(\E h \in Handlers : Continue(h))

Spec == Init /\ [][Next]_vars /\ Fairness

-----------------------------------------------------------------------------
(* Properties.                                                             *)

Manifest == [id : Nat, physical : BOOLEAN, trial : Trials \cup {None},
             profile : Profiles \cup {None}, contract : BOOLEAN]

\* null is not a manifest.
ASSUME NullAssumption == None \notin Manifest

Record == [list : Arms, kind : Kinds, frame : Nat, shown : SUBSET Arms, arm : Arms,
           number : Nat, condition : Trials \cup {None}, time : Nat]

Session == [manifest : Manifest, pre : Profiles \cup {None}, post : Profiles \cup {None},
            captures : [Arms \X Kinds -> Seq(Record)]]

Task ==
  [kind : {"load"}]
    \cup [kind : {"calibrate"}, phase : {"pre", "post"}, profile : Profiles]
    \cup [kind : {"freeze"}, manifest : Manifest]
    \cup [kind : {"bytes"}, type : Kinds, frame : Nat, shown : SUBSET Arms]
    \cup [kind : {"hash"}, type : Kinds, frame : Nat, shown : SUBSET Arms, arm : Arms,
          number : Nat, condition : Trials \cup {None}, time : Nat]
    \cup [kind : {"stage"}, session : Session, sent : Nat, sealing : BOOLEAN]

\* The types of what the page and the runtime workspace hold.
TypeOK ==
  /\ hasty \in Nat /\ stagings \in Nat /\ readings \in Nat
  /\ physical \in BOOLEAN /\ connected \in BOOLEAN
  /\ binding \in Trials \cup {None}
  /\ arm \in Arms
  /\ calibration \in [{"pre", "post"} -> Profiles \cup {None}]
  /\ frozen \in Manifest \cup {None}
  /\ recording \in [frame : Nat, shown : SUBSET Arms] \cup {None}
  /\ captures \in [Arms \X Kinds -> Seq(Record)]
  /\ reviewed \in BOOLEAN /\ sealed \in BOOLEAN /\ exported \in BOOLEAN
  /\ handler \in [Handlers -> Task \cup {None}]
  /\ frames \in [Kinds -> Nat]
  /\ \A path \in DOMAIN files : files[path] \in Nat
  /\ \A id \in DOMAIN staged : id \in Nat /\ staged[id] \in Session
  /\ admitted \subseteq Session

RecordsOf(s) == {Records(s.captures)[i] : i \in DOMAIN Records(s.captures)}

\* With an operator who waits, an admitted P1 session is true to what was
\* captured: each record was taken while the page named the arm whose list it is
\* in, under the condition of the trial that was frozen (still, finishRecord and
\* loadNextP1Trial read both after their awaits).
AdmittedSessionsAreTrue ==
  hasty = 0 => \A s \in admitted : \A r \in RecordsOf(s) :
    r.shown = {r.list} /\ r.condition = s.manifest.trial

\* With an operator who waits, the first frame of a P1 session is taken of the
\* arm the frozen trial puts first, whatever was loaded, deselected and selected
\* again before freezing (switchArm, loadNextP1Trial, syncEvidenceMode).
FirstArmFirst ==
  (hasty = 0 /\ frozen # None) => (frozen.physical =>
    \A x \in Arms \X Kinds : \A i \in DOMAIN captures[x] :
      captures[x][i].frame = 1 => captures[x][i].shown = {FirstArm[frozen.trial]})

\* With an operator who waits, a session JSON in the workspace is accompanied by
\* all its files, each with the bytes it names or torn by an upload that failed:
\* never missing and never of another frame, also after failed and repeated
\* stagings (stageSessionToRuntime uploads the JSON last, do_PUT truncates first).
StagedSessionIsWhole ==
  hasty = 0 => \A id \in DOMAIN staged : \A r \in RecordsOf(staged[id]) :
    Path(staged[id], r) \in DOMAIN files
      /\ files[Path(staged[id], r)] \in {r.frame, TornFile}

\* However the operator clicks, no admitted session has two records under one
\* path: two captures labelled before either is listed get the same id, the
\* second upload overwrites the first, and verify_capture_hashes refuses the
\* session.
AdmittedPathsAreDistinct ==
  \A s \in admitted : \A i, j \in DOMAIN Records(s.captures) :
    Path(s, Records(s.captures)[i]) = Path(s, Records(s.captures)[j]) => i = j

\* The frozen manifest and the admitted sessions as CaptureSession knows them.
FrozenManifest == IF frozen = None THEN {}
                  ELSE {[physical |-> frozen.physical, trial |-> frozen.trial]}
Admissions == {[trial |-> s.manifest.trial, captures |-> s.captures] : s \in admitted}

Promised == INSTANCE CaptureSession WITH manifest <- FrozenManifest, admitted <- Admissions

\* As long as the operator waits, page, runtime and script implement the abstract
\* session: frozen once, every record true and appended, unchanged once sealed and
\* admitted as it was sealed (freeze, finishRecord, seal, buildSession, main).
RefinesCaptureSession ==
  Promised!Init /\ [][hasty' = 0 => Promised!Next \/ UNCHANGED Promised!vars]_vars

\* A sealed session does not stay in the page alone: it reaches the workspace or
\* is downloaded, also when the runtime fails during the staging (seal).  That it
\* stays there is not claimed: staging it again may tear the session JSON.
SealedIsHandedOver == <>sealed => <>(exported \/ DOMAIN staged # {})

\* "SEALED: IMMUTABLE CAPTURE SESSION": the staged JSON of a session is never
\* replaced by another one.
SealedSessionIsFinal ==
  [][\A id \in DOMAIN staged \cap DOMAIN staged' : staged'[id] = staged[id]]_vars
=============================================================================
