--------------------------- MODULE CaptureLab_proofs ---------------------------
(***************************************************************************)
(* Proofs about CaptureLab, for any trials, profiles and bounds, and any   *)
(* number of pending handlers.                                             *)
(***************************************************************************)
EXTENDS CaptureLab, FiniteSetTheorems, SequenceTheorems, TLAPS

-----------------------------------------------------------------------------
(* Type correctness.                                                       *)

Lists == Arms \X Kinds

Doing(h, kind) == handler[h] # None /\ handler[h].kind = kind

\* A frame was taken and is not in a list yet.
InFlight(h) == Doing(h, "bytes") \/ Doing(h, "hash")

\* Nothing is captured before the manifest is frozen.
FrozenFirst ==
  frozen = None =>
    /\ recording = None /\ ~reviewed /\ ~sealed
    /\ \A h \in Handlers : ~InFlight(h)
    /\ \A x \in Lists : captures[x] = << >>

StageTask == [kind : {"stage"}, session : Session, sent : Nat, sealing : BOOLEAN]

\* What a pending handler carries, by its kind.
LEMMA TaskFields ==
  ASSUME NEW t \in Task
  PROVE  /\ t.kind = "calibrate" => t.phase \in {"pre", "post"} /\ t.profile \in Profiles
         /\ t.kind = "freeze" => t.manifest \in Manifest
         /\ t.kind \in {"bytes", "hash"} =>
              t.type \in Kinds /\ t.frame \in Nat /\ t.shown \in SUBSET Arms
         /\ t.kind = "hash" =>
              t.arm \in Arms /\ t.number \in Nat /\ t.condition \in Trials \cup {None}
                /\ t.time \in Nat
         /\ t.kind = "stage" => t \in StageTask
BY DEF Task, StageTask

LEMMA StageTaskFields ==
  ASSUME NEW t \in StageTask
  PROVE  /\ t.kind = "stage" /\ t.session \in Session /\ t.sent \in Nat
         /\ t.sealing \in BOOLEAN
         /\ [t EXCEPT !.sent = @ + 1] \in StageTask
BY DEF StageTask

LEMMA StageTasks == StageTask \subseteq Task
BY DEF StageTask, Task

LEMMA PendingTask ==
  ASSUME TypeOK, NEW kind, NEW h \in Pending(kind)
  PROVE  h \in Handlers /\ handler[h] \in Task /\ handler[h] # None /\ handler[h].kind = kind
BY DEF Pending, TypeOK

\* The pending handlers of a kind are finitely many.
LEMMA PendingFinite ==
  ASSUME NEW kind
  PROVE  Cardinality(Pending(kind)) \in Nat
<1>1. IsFiniteSet(Handlers)
  BY CaptureAssumption, FS_Interval DEF Handlers
<1>2. IsFiniteSet(Pending(kind))
  BY <1>1, FS_Subset DEF Pending
<1>3. QED
  BY <1>2, FS_CardinalityType

LEMMA HandlersType ==
  ASSUME TypeOK, NEW h \in Handlers, NEW t \in Task \cup {None},
         handler' = [handler EXCEPT ![h] = t]
  PROVE  handler' \in [Handlers -> Task \cup {None}]
BY DEF TypeOK

\* The records of a session are records.
LEMMA RecordsType ==
  ASSUME NEW c \in [Arms \X Kinds -> Seq(Record)]
  PROVE  Records(c) \in Seq(Record) /\ Len(Records(c)) \in Nat
<1>1. /\ c[<<"control", "still">>] \in Seq(Record) /\ c[<<"control", "motion">>] \in Seq(Record)
      /\ c[<<"candidate", "still">>] \in Seq(Record) /\ c[<<"candidate", "motion">>] \in Seq(Record)
  BY DEF Arms, Kinds
<1>2. \A s, t \in Seq(Record) : s \o t \in Seq(Record)
  BY ConcatProperties
<1>3. QED
  BY <1>1, <1>2, LenProperties DEF Records

LEMMA AppendedType ==
  ASSUME NEW c \in [Arms \X Kinds -> Seq(Record)], NEW x \in Arms \X Kinds, NEW r \in Record
  PROVE  [c EXCEPT ![x] = Append(@, r)] \in [Arms \X Kinds -> Seq(Record)]
<1>1. Append(c[x], r) \in Seq(Record)
  BY AppendProperties
<1>2. QED
  BY <1>1

LEMMA TakenType == TypeOK => Taken \in Nat
BY DEF TypeOK, Taken, Kinds

LEMMA BuildType ==
  ASSUME TypeOK, frozen # None
  PROVE  buildSession \in Session
BY DEF TypeOK, buildSession, Session

LEMMA TypeInit == Init => TypeOK
<1> SUFFICES ASSUME Init PROVE TypeOK
  OBVIOUS
<1>1. captures \in [Arms \X Kinds -> Seq(Record)]
  BY DEF Init
<1>2. handler \in [Handlers -> Task \cup {None}]
  BY DEF Init
<1>3. (\A path \in DOMAIN files : files[path] \in Nat) /\ DOMAIN staged = {} /\ admitted = {}
  BY DEF Init
<1>4. /\ calibration \in [{"pre", "post"} -> Profiles \cup {None}]
      /\ frames \in [Kinds -> Nat]
  BY DEF Init
<1>5. QED
  BY <1>1, <1>2, <1>3, <1>4 DEF Init, TypeOK, Arms

\* What the handlers and the workspace hold changes by one handler's step.
LEMMA TypeStep == TypeOK /\ FrozenFirst /\ [Next]_vars => TypeOK'
<1> SUFFICES ASSUME TypeOK, FrozenFirst, [Next]_vars PROVE TypeOK'
  OBVIOUS
<1> USE DEF page, workspace
<1>1. CASE SelectClass
  BY <1>1 DEF SelectClass, Click, Synced, TypeOK
<1>2. CASE checkRuntime
  BY <1>2 DEF checkRuntime, Synced, TypeOK
<1>3. ASSUME NEW a \in Arms, switchArm(a)
      PROVE  TypeOK'
  <2>1. recording' \in [frame : Nat, shown : SUBSET Arms] \cup {None}
    BY <1>3 DEF switchArm, ShowArm, TypeOK
  <2>2. hasty' \in Nat
    BY <1>3 DEF switchArm, ShowArm, Click, TypeOK
  <2>3. QED
    BY <1>3, <2>1, <2>2 DEF switchArm, ShowArm, TypeOK
<1>4. CASE startRecord
  <2>1. recording' \in [frame : Nat, shown : SUBSET Arms]
    BY <1>4, TakenType DEF startRecord, TypeOK
  <2>2. hasty' \in Nat /\ frames' \in [Kinds -> Nat]
    BY <1>4 DEF startRecord, Take, Click, Kinds, TypeOK
  <2>3. QED
    BY <1>4, <2>1, <2>2 DEF startRecord, TypeOK
<1>5. CASE review
  BY <1>5 DEF review, Click, TypeOK
<1>6. CASE analyze
  <2>1. frozen' \in Manifest \cup {None}
    BY <1>6 DEF analyze, FrozenFirst, TypeOK, Manifest
  <2>2. QED
    BY <1>6, <2>1 DEF analyze, Click, TypeOK
<1>7. ASSUME NEW h \in Handlers, loadNextP1Trial(h)
      PROVE  TypeOK'
  <2>1. [kind |-> "load"] \in Task
    BY DEF Task
  <2>2. handler' \in [Handlers -> Task \cup {None}]
    BY <1>7, <2>1, HandlersType DEF loadNextP1Trial, Await
  <2>3. QED
    BY <1>7, <2>2 DEF loadNextP1Trial, Click, TypeOK
<1>8. ASSUME NEW h \in Handlers, freeze(h)
      PROVE  TypeOK'
  <2>1. manifest \in Manifest
    BY PendingFinite DEF manifest, Manifest, TypeOK
  <2>2. [kind |-> "freeze", manifest |-> manifest] \in Task
    BY <2>1 DEF Task
  <2>3. handler' \in [Handlers -> Task \cup {None}]
    BY <1>8, <2>2, HandlersType DEF freeze, Await
  <2>4. QED
    BY <1>8, <2>3 DEF freeze, Click, TypeOK
<1>9. ASSUME NEW h \in Handlers, still(h)
      PROVE  TypeOK'
  <2>1. [kind |-> "bytes", type |-> "still", frame |-> Taken + 1, shown |-> {arm}] \in Task
    BY TakenType DEF Task, TypeOK, Kinds
  <2>2. handler' \in [Handlers -> Task \cup {None}]
    BY <1>9, <2>1, HandlersType DEF still, Await
  <2>3. hasty' \in Nat /\ frames' \in [Kinds -> Nat]
    BY <1>9 DEF still, Take, Click, Kinds, TypeOK
  <2>4. QED
    BY <1>9, <2>2, <2>3 DEF still, TypeOK
<1>10. ASSUME NEW h \in Handlers, stopRecord(h)
       PROVE  TypeOK'
  <2>1. [kind |-> "bytes", type |-> "motion", frame |-> recording.frame,
         shown |-> recording.shown] \in Task
    BY <1>10 DEF stopRecord, Task, TypeOK, Kinds
  <2>2. handler' \in [Handlers -> Task \cup {None}]
    BY <1>10, <2>1, HandlersType DEF stopRecord, Await
  <2>3. QED
    BY <1>10, <2>2 DEF stopRecord, TypeOK
<1>11. ASSUME NEW h \in Handlers, NEW phase \in {"pre", "post"}, NEW p \in Profiles,
              validateCalibration(h, phase, p)
       PROVE  TypeOK'
  <2>1. [kind |-> "calibrate", phase |-> phase, profile |-> p] \in Task
    BY DEF Task
  <2>2. handler' \in [Handlers -> Task \cup {None}]
    BY <1>11, <2>1, HandlersType DEF validateCalibration, Await
  <2>3. QED
    BY <1>11, <2>2 DEF validateCalibration, Click, TypeOK
<1>12. ASSUME NEW h \in Handlers, NEW sealing \in BOOLEAN, Stage(h, sealing), frozen # None
       PROVE  stagings' \in Nat /\ handler' \in [Handlers -> Task \cup {None}]
  <2>1. [kind |-> "stage", session |-> buildSession, sent |-> 0, sealing |-> sealing] \in Task
    BY <1>12, BuildType DEF Task
  <2>2. QED
    BY <1>12, <2>1, HandlersType DEF Stage, Await, TypeOK

<1>13. ASSUME NEW h \in Handlers, seal(h)
       PROVE  TypeOK'
  <2>1. frozen # None
    BY <1>13 DEF seal, FrozenFirst
  <2>2. stagings' \in Nat /\ handler' \in [Handlers -> Task \cup {None}] /\ exported' \in BOOLEAN
    <3>1. CASE connected /\ Stage(h, TRUE) /\ UNCHANGED exported
      BY <3>1, <2>1, <1>12 DEF TypeOK
    <3>2. CASE ~connected /\ exported' = TRUE /\ UNCHANGED <<handler, stagings>>
      BY <3>2 DEF TypeOK
    <3>3. QED
      BY <1>13, <3>1, <3>2 DEF seal
  <2>3. QED
    BY <1>13, <2>2 DEF seal, Click, TypeOK
<1>14. ASSUME NEW h \in Handlers, stageSessionToRuntime(h)
       PROVE  TypeOK'
  <2>1. frozen # None
    BY <1>14 DEF stageSessionToRuntime, FrozenFirst
  <2>2. stagings' \in Nat /\ handler' \in [Handlers -> Task \cup {None}]
    BY <1>14, <2>1, <1>12 DEF stageSessionToRuntime
  <2>3. QED
    BY <1>14, <2>2 DEF stageSessionToRuntime, Click, TypeOK
<1>15. ASSUME NEW h \in Handlers, NEW kind, h \in Pending(kind), Ends(h)
       PROVE  handler' \in [Handlers -> Task \cup {None}]
  BY <1>15, HandlersType DEF Ends, Goes
<1>16. ASSUME NEW h \in Handlers, TrialLoaded(h)
       PROVE  TypeOK'
  <2>1. ASSUME NEW a \in Arms, ShowArm(a)
        PROVE  arm' \in Arms /\ recording' \in [frame : Nat, shown : SUBSET Arms] \cup {None}
    BY <2>1 DEF ShowArm, TypeOK
  <2>2. /\ binding' \in Trials \cup {None} /\ arm' \in Arms
        /\ recording' \in [frame : Nat, shown : SUBSET Arms] \cup {None}
    BY <1>16, <2>1, CaptureAssumption DEF TrialLoaded, TypeOK
  <2>3. handler' \in [Handlers -> Task \cup {None}]
    BY <1>16, <1>15 DEF TrialLoaded
  <2>4. QED
    BY <1>16, <2>2, <2>3 DEF TrialLoaded, TypeOK
<1>17. ASSUME NEW h \in Handlers, CalibrationRead(h)
       PROVE  TypeOK'
  <2>1. handler[h].phase \in {"pre", "post"} /\ handler[h].profile \in Profiles
    BY <1>17, PendingTask, TaskFields DEF CalibrationRead
  <2>2. calibration' \in [{"pre", "post"} -> Profiles \cup {None}]
    BY <1>17, <2>1 DEF CalibrationRead, TypeOK
  <2>3. QED
    BY <1>17, <1>15, <2>2 DEF CalibrationRead, TypeOK
<1>18. ASSUME NEW h \in Handlers, Frozen(h)
       PROVE  TypeOK'
  <2>1. handler[h].manifest \in Manifest
    BY <1>18, PendingTask, TaskFields DEF Frozen
  <2>2. QED
    BY <1>18, <1>15, <2>1 DEF Frozen, TypeOK
<1>19. ASSUME NEW h \in Handlers, Label(h)
       PROVE  TypeOK'
  <2> DEFINE task == handler[h]
             labelled == [kind |-> "hash", type |-> task.type, frame |-> task.frame,
                          shown |-> task.shown, arm |-> arm,
                          number |-> Len(List(arm, task.type)) + 1,
                          condition |-> binding,
                          time |-> Len(Records(captures)) + Cardinality(Pending("hash")) + 1]
  <2>1. task.type \in Kinds /\ task.frame \in Nat /\ task.shown \in SUBSET Arms
    BY <1>19, PendingTask, TaskFields DEF Label
  <2>2. List(arm, task.type) \in Seq(Record)
    BY <2>1 DEF List, TypeOK
  <2>3. Len(List(arm, task.type)) + 1 \in Nat
    BY <2>2, LenProperties
  <2>4. Len(Records(captures)) + Cardinality(Pending("hash")) + 1 \in Nat
    BY RecordsType, PendingFinite DEF TypeOK
  <2>5. arm \in Arms /\ binding \in Trials \cup {None}
    BY DEF TypeOK
  <2>6. labelled \in Task
    BY <2>1, <2>3, <2>4, <2>5 DEF Task
  <2>7. handler' = [handler EXCEPT ![h] = labelled]
    BY <1>19 DEF Label, Goes
  <2>8. handler' \in [Handlers -> Task \cup {None}]
    BY <2>6, <2>7, HandlersType
  <2>9. QED
    BY <1>19, <2>8 DEF Label, TypeOK
<1>20. ASSUME NEW h \in Handlers, Push(h)
       PROVE  TypeOK'
  <2> DEFINE task == handler[h]
             record == [list |-> arm, kind |-> task.type, frame |-> task.frame,
                        shown |-> task.shown, arm |-> task.arm, number |-> task.number,
                        condition |-> task.condition, time |-> task.time]
  <2>1. /\ task.type \in Kinds /\ task.frame \in Nat /\ task.shown \in SUBSET Arms
        /\ task.arm \in Arms /\ task.number \in Nat /\ task.condition \in Trials \cup {None}
        /\ task.time \in Nat
    BY <1>20, PendingTask, TaskFields DEF Push
  <2>2. record \in Record /\ <<arm, task.type>> \in Arms \X Kinds
    BY <2>1 DEF Record, TypeOK
  <2>3. captures' = [captures EXCEPT ![<<arm, task.type>>] = Append(@, record)]
    BY <1>20 DEF Push
  <2>4. captures' \in [Arms \X Kinds -> Seq(Record)]
    BY <2>2, <2>3, AppendedType DEF TypeOK
  <2>5. handler' \in [Handlers -> Task \cup {None}]
    BY <1>20, <1>15 DEF Push
  <2>6. QED
    BY <1>20, <2>4, <2>5 DEF Push, TypeOK
<1>21. ASSUME NEW h \in Pending("stage")
       PROVE  LET session == handler[h].session
                  all == Records(session.captures)
              IN /\ session \in Session /\ session.manifest.id \in Nat
                 /\ \A i \in 1 .. Len(all) : all[i].frame \in Nat
                 /\ handler[h].sent \in Nat
                 /\ [handler[h] EXCEPT !.sent = @ + 1] \in Task
  <2> DEFINE session == handler[h].session
             all == Records(session.captures)
  <2>1. handler[h] \in StageTask
    BY <1>21, PendingTask, TaskFields
  <2>2. /\ session \in Session /\ handler[h].sent \in Nat
        /\ [handler[h] EXCEPT !.sent = @ + 1] \in Task
    BY <2>1, StageTaskFields, StageTasks
  <2>3. session.manifest.id \in Nat /\ session.captures \in [Arms \X Kinds -> Seq(Record)]
    BY <2>2 DEF Session, Manifest
  <2>4. all \in Seq(Record)
    BY <2>3, RecordsType
  <2>5. \A i \in 1 .. Len(all) : all[i].frame \in Nat
    <3> HIDE DEF all
    <3>1. \A i \in 1 .. Len(all) : all[i] \in Record
      BY <2>4, ElementOfSeq
    <3>2. QED
      BY <3>1 DEF Record
  <2>6. QED
    BY <2>2, <2>3, <2>5
<1>22. ASSUME NEW h \in Handlers, Upload(h)
       PROVE  TypeOK'
  <2> DEFINE task == handler[h]
             all == Records(task.session.captures)
  <2>1. /\ task.session \in Session /\ task.session.manifest.id \in Nat /\ task.sent \in Nat
        /\ \A i \in 1 .. Len(all) : all[i].frame \in Nat
        /\ [task EXCEPT !.sent = @ + 1] \in Task
    BY <1>22, <1>21 DEF Upload
  <2>2. Len(all) \in Nat
    BY <2>1, RecordsType DEF Session
  <2>3. CASE /\ task.sent < Len(all)
             /\ files' = Stored(files, Path(task.session, all[task.sent + 1]),
                                all[task.sent + 1].frame)
             /\ Goes(h, [task EXCEPT !.sent = @ + 1])
             /\ UNCHANGED staged
    <3>1. all[task.sent + 1].frame \in Nat
      BY <2>1, <2>2, <2>3
    <3>2. \A path \in DOMAIN files' : files'[path] \in Nat
      BY <2>3, <3>1 DEF Stored, TypeOK
    <3>3. handler' \in [Handlers -> Task \cup {None}]
      BY <2>1, <2>3, HandlersType DEF Goes
    <3>4. QED
      BY <1>22, <2>3, <3>2, <3>3 DEF Upload, TypeOK
  <2>4. CASE /\ staged' = Stored(staged, task.session.manifest.id, task.session)
             /\ Ends(h)
             /\ UNCHANGED files
    <3>1. \A id \in DOMAIN staged' : id \in Nat /\ staged'[id] \in Session
      BY <2>1, <2>4 DEF Stored, TypeOK
    <3>2. handler' \in [Handlers -> Task \cup {None}]
      BY <1>22, <2>4, <1>15 DEF Upload
    <3>3. QED
      BY <1>22, <2>4, <3>1, <3>2 DEF Upload, TypeOK
  <2>5. QED
    BY <1>22, <2>3, <2>4 DEF Upload
<1>23. ASSUME NEW h \in Handlers, UploadFails(h)
       PROVE  TypeOK'
  <2> DEFINE all == Records(handler[h].session.captures)
  <2>1. /\ handler[h].session \in Session /\ handler[h].session.manifest.id \in Nat
        /\ handler[h] \in StageTask /\ handler[h].sent \in Nat
        /\ \A i \in 1 .. Len(all) : all[i].frame \in Nat
    BY <1>23, <1>21, PendingTask, TaskFields DEF UploadFails
  <2>2. \A path \in DOMAIN files' : files'[path] \in Nat
    <3>1. Len(all) \in Nat
      BY <2>1, RecordsType DEF Session
    <3>2. handler[h].sent < Len(all) => all[handler[h].sent + 1].frame \in Nat
      BY <2>1, <3>1
    <3>3. \/ UNCHANGED files
          \/ \E path : \E bytes \in Nat : files' = Stored(files, path, bytes)
      BY <1>23, <3>2 DEF UploadFails, TornFile
    <3>4. QED
      BY <3>3 DEF Stored, TypeOK
  <2>3. \A id \in DOMAIN staged' : id \in Nat /\ staged'[id] \in Session
    <3>1. \A id \in DOMAIN staged' :
            \/ id \in DOMAIN staged /\ staged'[id] = staged[id]
            \/ id = handler[h].session.manifest.id /\ staged'[id] = handler[h].session
      BY <1>23 DEF UploadFails, Stored
    <3>2. QED
      BY <2>1, <3>1 DEF TypeOK
  <2>4. exported' \in BOOLEAN
    BY <1>23, <2>1, StageTaskFields DEF UploadFails, TypeOK
  <2>5. handler' \in [Handlers -> Task \cup {None}]
    BY <1>23, <1>15 DEF UploadFails
  <2>6. QED
    BY <1>23, <2>2, <2>3, <2>4, <2>5 DEF UploadFails, TypeOK
<1>24. ASSUME NEW id \in DOMAIN staged, Validate(id)
       PROVE  TypeOK'
  BY <1>24 DEF Validate, TypeOK
<1>25. CASE UNCHANGED vars
  BY <1>25 DEF vars, TypeOK
<1>26. QED
  BY <1>1, <1>2, <1>3, <1>4, <1>5, <1>6, <1>7, <1>8, <1>9, <1>10, <1>11, <1>13, <1>14, <1>16,
     <1>17, <1>18, <1>19, <1>20, <1>22, <1>23, <1>24, <1>25 DEF Next, Continue

LEMMA FrozenInit == Init => FrozenFirst
BY DEF Init, FrozenFirst, Lists, InFlight, Doing

\* A step that takes no frame and moves none.
Quiet ==
  /\ UNCHANGED <<captures, frames>>
  /\ recording' # None => recording # None /\ recording'.frame = recording.frame
  /\ \A h \in Handlers : InFlight(h)' => InFlight(h) /\ handler'[h] = handler[h]

LEMMA HandlerQuiet ==
  ASSUME TypeOK, NEW h \in Handlers, NEW t,
         handler' = [handler EXCEPT ![h] = t],
         t # None => t.kind \notin {"bytes", "hash"}
  PROVE  \A g \in Handlers : InFlight(g)' => InFlight(g) /\ handler'[g] = handler[g]
BY DEF TypeOK, InFlight, Doing

LEMMA PageQuiet ==
  ASSUME UNCHANGED handler
  PROVE  \A g \in Handlers : InFlight(g)' => InFlight(g) /\ handler'[g] = handler[g]
BY DEF InFlight, Doing

\* Frames are taken, moved and listed by five actions only.
LEMMA FrameSteps ==
  ASSUME TypeOK, [Next]_vars
  PROVE  Quiet \/ startRecord
           \/ \E h \in Handlers : still(h) \/ stopRecord(h) \/ Label(h) \/ Push(h)
<1> USE DEF page, workspace
<1>1. CASE SelectClass \/ checkRuntime \/ review \/ analyze \/ UNCHANGED vars
           \/ (\E a \in Arms : switchArm(a)) \/ (\E id \in DOMAIN staged : Validate(id))
  <2>1. UNCHANGED <<handler, captures, frames>>
    BY <1>1 DEF SelectClass, checkRuntime, review, analyze, vars, switchArm, ShowArm, Validate
  <2>2. recording' # None => recording # None /\ recording'.frame = recording.frame
    BY <1>1 DEF SelectClass, checkRuntime, review, analyze, vars, switchArm, ShowArm, Validate, TypeOK
  <2>3. QED
    BY <2>1, <2>2, PageQuiet DEF Quiet
<1>2. ASSUME NEW h \in Handlers,
             \/ loadNextP1Trial(h) \/ freeze(h) \/ seal(h) \/ stageSessionToRuntime(h)
             \/ \E phase \in {"pre", "post"}, p \in Profiles : validateCalibration(h, phase, p)
             \/ TrialLoaded(h) \/ CalibrationRead(h) \/ Frozen(h) \/ UploadFails(h)
      PROVE  Quiet
  <2>1. /\ UNCHANGED <<captures, frames>>
        /\ recording' # None => recording # None /\ recording'.frame = recording.frame
    <3>1. UNCHANGED recording \/ \E a : ShowArm(a)
      BY <1>2 DEF loadNextP1Trial, freeze, seal, stageSessionToRuntime, validateCalibration,
         TrialLoaded, CalibrationRead, Frozen, UploadFails
    <3>2. ASSUME NEW a, ShowArm(a)
          PROVE  recording' # None => recording # None /\ recording'.frame = recording.frame
      BY <3>2 DEF ShowArm, TypeOK
    <3>3. UNCHANGED <<captures, frames>>
      BY <1>2 DEF loadNextP1Trial, freeze, seal, stageSessionToRuntime, validateCalibration,
         TrialLoaded, CalibrationRead, Frozen, UploadFails
    <3>4. QED
      BY <3>1, <3>2, <3>3
  <2>2. \/ UNCHANGED handler
        \/ \E t : handler' = [handler EXCEPT ![h] = t]
             /\ (t # None => t.kind \in {"load", "freeze", "stage", "calibrate"})
    BY <1>2 DEF loadNextP1Trial, freeze, seal, stageSessionToRuntime, validateCalibration,
       TrialLoaded, CalibrationRead, Frozen, UploadFails, Await, Stage, Goes, Ends
  <2>3. QED
    BY <2>1, <2>2, HandlerQuiet, PageQuiet DEF Quiet
<1>3. ASSUME NEW h \in Handlers, Upload(h)
      PROVE  Quiet
  <2>1. UNCHANGED <<captures, frames, recording>>
    BY <1>3 DEF Upload
  <2>2. [handler[h] EXCEPT !.sent = @ + 1].kind = "stage"
    BY <1>3, PendingTask, TaskFields, StageTaskFields DEF Upload
  <2>3. \E t : handler' = [handler EXCEPT ![h] = t] /\ (t # None => t.kind = "stage")
    BY <1>3, <2>2 DEF Upload, Goes, Ends
  <2>4. QED
    BY <2>1, <2>3, HandlerQuiet DEF Quiet
<1>4. QED
  BY <1>1, <1>2, <1>3 DEF Next, Continue

\* How the other flags of the page move.
LEMMA PageSteps ==
  ASSUME TypeOK, FrozenFirst, [Next]_vars
  PROVE  /\ frozen' = None => frozen = None
         /\ reviewed' => reviewed \/ Paired
         /\ sealed' => sealed \/ reviewed
<1> USE DEF page, workspace
<1>1. CASE SelectClass \/ checkRuntime \/ UNCHANGED vars \/ startRecord
           \/ (\E a \in Arms : switchArm(a)) \/ (\E id \in DOMAIN staged : Validate(id))
  BY <1>1 DEF SelectClass, checkRuntime, vars, switchArm, ShowArm, Validate, startRecord
<1>2. CASE review
  BY <1>2 DEF review
<1>3. CASE analyze
  <2>1. frozen \in Manifest
    BY <1>3 DEF analyze, FrozenFirst, TypeOK
  <2>2. [frozen EXCEPT !.contract = TRUE] \in Manifest
    BY <2>1 DEF Manifest
  <2>3. QED
    BY <1>3, <2>2, NullAssumption DEF analyze
<1>4. ASSUME NEW h \in Handlers, Frozen(h)
      PROVE  frozen' # None /\ UNCHANGED <<reviewed, sealed>>
  BY <1>4, PendingTask, TaskFields, NullAssumption DEF Frozen
<1>5. ASSUME NEW h \in Handlers,
             \/ loadNextP1Trial(h) \/ freeze(h) \/ still(h) \/ stopRecord(h) \/ stageSessionToRuntime(h)
             \/ \E phase \in {"pre", "post"}, p \in Profiles : validateCalibration(h, phase, p)
             \/ TrialLoaded(h) \/ CalibrationRead(h) \/ Label(h) \/ Push(h) \/ Upload(h) \/ UploadFails(h)
      PROVE  UNCHANGED <<frozen, reviewed, sealed>>
  BY <1>5 DEF loadNextP1Trial, freeze, still, stopRecord, stageSessionToRuntime, validateCalibration,
       TrialLoaded, ShowArm, CalibrationRead, Label, Push, Upload, UploadFails
<1>6. ASSUME NEW h \in Handlers, seal(h)
      PROVE  UNCHANGED <<frozen, reviewed>> /\ reviewed
  BY <1>6 DEF seal
<1>7. QED
  BY <1>1, <1>2, <1>3, <1>4, <1>5, <1>6 DEF Next, Continue

LEMMA FrozenStep == TypeOK /\ FrozenFirst /\ [Next]_vars => FrozenFirst'
<1> SUFFICES ASSUME TypeOK, FrozenFirst, [Next]_vars, frozen' = None PROVE FrozenFirst'
  BY DEF FrozenFirst
<1>1. frozen = None
  BY PageSteps
<1>2. /\ recording = None /\ ~reviewed /\ ~sealed
      /\ \A h \in Handlers : ~InFlight(h)
      /\ \A x \in Lists : captures[x] = << >>
  BY <1>1 DEF FrozenFirst
<1>3. ~reviewed' /\ ~sealed'
  BY <1>2, PageSteps DEF Paired, List, Lists, Arms, Kinds
<1>4. Quiet
  <2>1. ~startRecord
    BY <1>1 DEF startRecord, Take
  <2>2. ASSUME NEW h \in Handlers
        PROVE  ~still(h) /\ ~stopRecord(h) /\ ~Label(h) /\ ~Push(h)
    BY <1>1, <1>2 DEF still, Take, stopRecord, Label, Push, Pending, InFlight, Doing
  <2>3. QED
    BY <2>1, <2>2, FrameSteps
<1>5. QED
  BY <1>2, <1>3, <1>4 DEF Quiet, FrozenFirst

\* What the page and the runtime workspace hold keeps its types, and nothing is
\* captured, reviewed or sealed before the manifest is frozen.
THEOREM TypeCorrect == Spec => [](TypeOK /\ FrozenFirst)
<1>1. Init => TypeOK /\ FrozenFirst
  BY TypeInit, FrozenInit
<1>2. TypeOK /\ FrozenFirst /\ [Next]_vars => (TypeOK /\ FrozenFirst)'
  BY TypeStep, FrozenStep
<1>3. QED
  BY <1>1, <1>2, PTL DEF Spec

-----------------------------------------------------------------------------
(* Every frame is in one place.                                            *)

\* No two records of a session are of one frame.
Apart(c) ==
  \A x, y \in Lists : \A i \in DOMAIN c[x], j \in DOMAIN c[y] :
    c[x][i].frame = c[y][j].frame => x = y /\ i = j

\* A frame is being recorded, in flight or in a list.
RecordingApart == recording # None => recording.frame \in 1 .. Taken

FlightsApart ==
  \A h \in Handlers : InFlight(h) =>
    /\ handler[h].frame \in 1 .. Taken
    /\ recording # None => handler[h].frame # recording.frame
    /\ \A g \in Handlers : InFlight(g) /\ handler[g].frame = handler[h].frame => g = h

ListsApart ==
  \A x \in Lists : \A i \in DOMAIN captures[x] :
    /\ captures[x][i].frame \in 1 .. Taken
    /\ recording # None => captures[x][i].frame # recording.frame
    /\ \A h \in Handlers : InFlight(h) => handler[h].frame # captures[x][i].frame

FramesApart == RecordingApart /\ FlightsApart /\ ListsApart /\ Apart(captures)

LEMMA ApartInit == Init => FramesApart
BY DEF Init, FramesApart, RecordingApart, FlightsApart, ListsApart, Apart, Lists, InFlight, Doing

LEMMA QuietApart ==
  ASSUME FramesApart, Quiet
  PROVE  FramesApart'
<1>1. Taken' = Taken /\ captures' = captures
  BY DEF Quiet, Taken
<1>2. RecordingApart'
  BY <1>1 DEF Quiet, FramesApart, RecordingApart
<1>3. FlightsApart'
  BY <1>1 DEF Quiet, FramesApart, FlightsApart
<1>4. ListsApart'
  BY <1>1 DEF Quiet, FramesApart, ListsApart
<1>5. QED
  BY <1>1, <1>2, <1>3, <1>4 DEF FramesApart

\* A capture begins with the next number.
LEMMA TakeNext ==
  ASSUME TypeOK, NEW k \in Kinds, Take(k)
  PROVE  Taken \in Nat /\ Taken' = Taken + 1
BY DEF TypeOK, Take, Taken, Kinds

LEMMA StartApart ==
  ASSUME TypeOK, FramesApart, startRecord
  PROVE  FramesApart'
<1>1. Taken \in Nat /\ Taken' = Taken + 1
  BY TakeNext DEF startRecord, Kinds
<1>2. UNCHANGED <<handler, captures>> /\ recording'.frame = Taken + 1
  BY DEF startRecord
<1>3. RecordingApart'
  BY <1>1, <1>2 DEF RecordingApart
<1>4. FlightsApart'
  BY <1>1, <1>2 DEF FramesApart, FlightsApart, InFlight, Doing
<1>5. ListsApart'
  BY <1>1, <1>2 DEF FramesApart, ListsApart, InFlight, Doing
<1>6. QED
  BY <1>2, <1>3, <1>4, <1>5 DEF FramesApart

LEMMA StillApart ==
  ASSUME TypeOK, FramesApart, NEW h \in Handlers, still(h)
  PROVE  FramesApart'
<1>1. Taken \in Nat /\ Taken' = Taken + 1
  BY TakeNext DEF still, Kinds
<1>2. /\ UNCHANGED <<recording, captures>>
      /\ handler'[h].frame = Taken + 1
      /\ \A g \in Handlers \ {h} : handler'[g] = handler[g]
  BY DEF still, Await, TypeOK
<1>3. RecordingApart'
  BY <1>1, <1>2 DEF FramesApart, RecordingApart
<1>4. FlightsApart'
  BY <1>1, <1>2 DEF FramesApart, RecordingApart, FlightsApart, InFlight, Doing
<1>5. ListsApart'
  BY <1>1, <1>2 DEF FramesApart, ListsApart, InFlight, Doing
<1>6. QED
  BY <1>2, <1>3, <1>4, <1>5 DEF FramesApart

LEMMA StopApart ==
  ASSUME TypeOK, FramesApart, NEW h \in Handlers, stopRecord(h)
  PROVE  FramesApart'
<1>1. Taken' = Taken
  BY DEF stopRecord, Taken
<1>2. /\ UNCHANGED captures
      /\ recording # None /\ recording' = None
      /\ handler'[h].frame = recording.frame
      /\ \A g \in Handlers \ {h} : handler'[g] = handler[g]
  BY DEF stopRecord, Await, TypeOK
<1>3. RecordingApart'
  BY <1>2 DEF RecordingApart
<1>4. FlightsApart'
  BY <1>1, <1>2 DEF FramesApart, RecordingApart, FlightsApart, InFlight, Doing
<1>5. ListsApart'
  BY <1>1, <1>2 DEF FramesApart, ListsApart, InFlight, Doing
<1>6. QED
  BY <1>2, <1>3, <1>4, <1>5 DEF FramesApart

LEMMA LabelApart ==
  ASSUME TypeOK, FramesApart, NEW h \in Handlers, Label(h)
  PROVE  FramesApart'
<1>1. Taken' = Taken /\ UNCHANGED <<recording, captures>>
  BY DEF Label, page, Taken
<1>2. /\ InFlight(h)
      /\ handler'[h].frame = handler[h].frame
      /\ \A g \in Handlers \ {h} : handler'[g] = handler[g]
  BY DEF Label, Goes, TypeOK, Pending, InFlight, Doing
<1>3. RecordingApart'
  BY <1>1 DEF FramesApart, RecordingApart
<1>4. FlightsApart'
  BY <1>1, <1>2 DEF FramesApart, FlightsApart, InFlight, Doing
<1>5. ListsApart'
  BY <1>1, <1>2 DEF FramesApart, ListsApart, InFlight, Doing
<1>6. QED
  BY <1>1, <1>3, <1>4, <1>5 DEF FramesApart

\* The record Push(h) adds, and the list it adds it to.
PushRecord(h) ==
  [list |-> arm, kind |-> handler[h].type, frame |-> handler[h].frame,
   shown |-> handler[h].shown, arm |-> handler[h].arm, number |-> handler[h].number,
   condition |-> handler[h].condition, time |-> handler[h].time]

PushList(h) == <<arm, handler[h].type>>

\* Push(h) adds the frame in flight at the end of one list.
LEMMA Pushed ==
  ASSUME TypeOK, NEW h \in Handlers, Push(h)
  PROVE  LET x == PushList(h) IN
           /\ x \in Lists /\ Doing(h, "hash") /\ ~InFlight(h)'
           /\ \A g \in Handlers \ {h} : handler'[g] = handler[g]
           /\ Len(captures[x]) \in Nat /\ DOMAIN captures[x] = 1 .. Len(captures[x])
           /\ DOMAIN captures'[x] = 1 .. Len(captures[x]) + 1
           /\ \A i \in DOMAIN captures[x] : captures'[x][i] = captures[x][i]
           /\ captures'[x][Len(captures[x]) + 1] = PushRecord(h)
           /\ \A y \in Lists \ {x} : captures'[y] = captures[y]
<1> DEFINE x == PushList(h)
           record == PushRecord(h)
<1>1. Doing(h, "hash") /\ handler[h].type \in Kinds
  BY PendingTask, TaskFields DEF Push, Doing
<1>2. x \in Lists /\ x \in Arms \X Kinds
  BY <1>1 DEF TypeOK, Lists, PushList
<1>3. captures' = [captures EXCEPT ![x] = Append(@, record)]
  BY DEF Push, PushList, PushRecord
<1>4. ~InFlight(h)' /\ \A g \in Handlers \ {h} : handler'[g] = handler[g]
  BY DEF Push, Ends, Goes, TypeOK, InFlight, Doing
<1>5. captures[x] \in Seq(Record)
  BY <1>2 DEF TypeOK
<1> HIDE DEF x, record
<1>6. captures'[x] = Append(captures[x], record)
      /\ \A y \in Lists \ {x} : captures'[y] = captures[y]
  BY <1>2, <1>3 DEF TypeOK, Lists
<1>7. /\ Len(captures[x]) \in Nat /\ DOMAIN captures[x] = 1 .. Len(captures[x])
      /\ DOMAIN captures'[x] = 1 .. Len(captures[x]) + 1
      /\ \A i \in DOMAIN captures[x] : captures'[x][i] = captures[x][i]
      /\ captures'[x][Len(captures[x]) + 1] = record
  BY <1>5, <1>6
<1>8. QED
  BY <1>1, <1>2, <1>4, <1>6, <1>7 DEF x, record

LEMMA PushApart ==
  ASSUME TypeOK, FramesApart, NEW h \in Handlers, Push(h)
  PROVE  FramesApart'
<1>1. Taken' = Taken /\ UNCHANGED recording
  BY DEF Push, Taken
<1> DEFINE x == PushList(h)
<1>2. /\ x \in Lists /\ InFlight(h) /\ ~InFlight(h)'
      /\ \A g \in Handlers \ {h} : handler'[g] = handler[g]
      /\ Len(captures[x]) \in Nat /\ DOMAIN captures[x] = 1 .. Len(captures[x])
      /\ DOMAIN captures'[x] = 1 .. Len(captures[x]) + 1
      /\ \A i \in DOMAIN captures[x] : captures'[x][i] = captures[x][i]
      /\ captures'[x][Len(captures[x]) + 1].frame = handler[h].frame
      /\ \A y \in Lists \ {x} : captures'[y] = captures[y]
  <2>1. PushRecord(h).frame = handler[h].frame
    BY DEF PushRecord
  <2>2. QED
    BY <2>1, Pushed DEF InFlight
<1> HIDE DEF x
<1> DEFINE last == Len(captures[x]) + 1
<1>3. \A y \in Lists : \A i \in DOMAIN captures'[y] :
        \/ i \in DOMAIN captures[y] /\ captures'[y][i] = captures[y][i]
        \/ y = x /\ i = last /\ captures'[y][i].frame = handler[h].frame
  BY <1>2
<1>4. \A g \in Handlers : InFlight(g)' => g # h /\ InFlight(g) /\ handler'[g] = handler[g]
  BY <1>2 DEF InFlight, Doing
<1>5. RecordingApart'
  BY <1>1 DEF FramesApart, RecordingApart
<1>6. FlightsApart'
  BY <1>1, <1>4 DEF FramesApart, FlightsApart
<1>7. ListsApart'
  BY <1>1, <1>2, <1>3, <1>4 DEF FramesApart, FlightsApart, ListsApart
<1>8. Apart(captures)'
  BY <1>2, <1>3 DEF FramesApart, ListsApart, Apart
<1>9. QED
  BY <1>5, <1>6, <1>7, <1>8 DEF FramesApart

LEMMA ApartStep == TypeOK /\ FramesApart /\ [Next]_vars => FramesApart'
BY FrameSteps, QuietApart, StartApart, StillApart, StopApart, LabelApart, PushApart

-----------------------------------------------------------------------------
(* The list of all records.                                                *)

X1 == <<"control", "still">>
X2 == <<"control", "motion">>
X3 == <<"candidate", "still">>
X4 == <<"candidate", "motion">>

\* The list and the position in it of the i-th record of a session.
ListOf(c, i) ==
  IF i <= Len(c[X1]) THEN X1
  ELSE IF i <= Len(c[X1]) + Len(c[X2]) THEN X2
  ELSE IF i <= Len(c[X1]) + Len(c[X2]) + Len(c[X3]) THEN X3 ELSE X4

IndexOf(c, i) ==
  IF i <= Len(c[X1]) THEN i
  ELSE IF i <= Len(c[X1]) + Len(c[X2]) THEN i - Len(c[X1])
  ELSE IF i <= Len(c[X1]) + Len(c[X2]) + Len(c[X3]) THEN i - Len(c[X1]) - Len(c[X2])
  ELSE i - Len(c[X1]) - Len(c[X2]) - Len(c[X3])

LEMMA TheLists ==
  /\ Lists = {X1, X2, X3, X4}
  /\ X1 # X2 /\ X1 # X3 /\ X1 # X4 /\ X2 # X3 /\ X2 # X4 /\ X3 # X4
BY DEF Lists, Arms, Kinds, X1, X2, X3, X4

\* Records concatenates the four lists.
LEMMA RecordsAt ==
  ASSUME NEW c \in [Arms \X Kinds -> Seq(Record)]
  PROVE  /\ \A x \in Lists : Len(c[x]) \in Nat /\ DOMAIN c[x] = 1 .. Len(c[x])
         /\ Len(Records(c)) = Len(c[X1]) + Len(c[X2]) + Len(c[X3]) + Len(c[X4])
         /\ DOMAIN Records(c) = 1 .. Len(Records(c))
         /\ \A i \in DOMAIN Records(c) : Records(c)[i] = c[ListOf(c, i)][IndexOf(c, i)]
<1> DEFINE a == c[X1]
           b == c[X2]
           d == c[X3]
           e == c[X4]
<1>1. \A x \in Lists : c[x] \in Seq(Record)
  BY DEF Lists
<1>2. a \in Seq(Record) /\ b \in Seq(Record) /\ d \in Seq(Record) /\ e \in Seq(Record)
  BY <1>1, TheLists
<1>3. Records(c) = ((a \o b) \o d) \o e
  BY DEF Records, X1, X2, X3, X4
<1>4. \A x \in Lists : Len(c[x]) \in Nat /\ DOMAIN c[x] = 1 .. Len(c[x])
  BY <1>1, LenProperties
<1> HIDE DEF a, b, d, e
<1>5. /\ a \o b \in Seq(Record) /\ Len(a \o b) = Len(a) + Len(b)
      /\ \A i \in 1 .. Len(a) + Len(b) :
           (a \o b)[i] = IF i <= Len(a) THEN a[i] ELSE b[i - Len(a)]
  BY <1>2, ConcatProperties
<1>6. /\ (a \o b) \o d \in Seq(Record) /\ Len((a \o b) \o d) = Len(a \o b) + Len(d)
      /\ \A i \in 1 .. Len(a \o b) + Len(d) :
           ((a \o b) \o d)[i] = IF i <= Len(a \o b) THEN (a \o b)[i] ELSE d[i - Len(a \o b)]
  BY <1>2, <1>5, ConcatProperties
<1>7. /\ Records(c) \in Seq(Record) /\ Len(Records(c)) = Len((a \o b) \o d) + Len(e)
      /\ \A i \in 1 .. Len((a \o b) \o d) + Len(e) :
           Records(c)[i] = IF i <= Len((a \o b) \o d) THEN ((a \o b) \o d)[i]
                           ELSE e[i - Len((a \o b) \o d)]
  BY <1>2, <1>3, <1>6, ConcatProperties
<1>8. Len(a) \in Nat /\ Len(b) \in Nat /\ Len(d) \in Nat /\ Len(e) \in Nat
  BY <1>2, LenProperties
<1>9. Len(Records(c)) = Len(a) + Len(b) + Len(d) + Len(e)
      /\ DOMAIN Records(c) = 1 .. Len(Records(c))
  BY <1>5, <1>6, <1>7, <1>8, LenProperties
<1>10. ASSUME NEW i \in DOMAIN Records(c)
       PROVE  Records(c)[i] = c[ListOf(c, i)][IndexOf(c, i)]
  <2>1. i \in 1 .. Len(a) + Len(b) + Len(d) + Len(e)
    BY <1>9
  <2>2. Records(c)[i] = IF i <= Len(a) THEN a[i]
                        ELSE IF i <= Len(a) + Len(b) THEN b[i - Len(a)]
                        ELSE IF i <= Len(a) + Len(b) + Len(d) THEN d[i - Len(a) - Len(b)]
                        ELSE e[i - Len(a) - Len(b) - Len(d)]
    <3>1. CASE i <= Len(a)
      BY <3>1, <2>1, <1>5, <1>6, <1>7, <1>8
    <3>2. CASE ~(i <= Len(a)) /\ i <= Len(a) + Len(b)
      BY <3>2, <2>1, <1>5, <1>6, <1>7, <1>8
    <3>3. CASE ~(i <= Len(a) + Len(b)) /\ i <= Len(a) + Len(b) + Len(d)
      BY <3>3, <2>1, <1>5, <1>6, <1>7, <1>8
    <3>4. CASE ~(i <= Len(a) + Len(b) + Len(d))
      BY <3>4, <2>1, <1>5, <1>6, <1>7, <1>8
    <3>5. QED
      BY <3>1, <3>2, <3>3, <3>4, <2>1, <1>8
  <2>3. QED
    BY <2>2 DEF ListOf, IndexOf, a, b, d, e
<1>11. QED
  BY <1>4, <1>9, <1>10 DEF a, b, d, e

\* A position in four adjoining stretches is a position in one of them.
LEMMA FourStretches ==
  \A n1, n2, n3, n4 \in Nat : \A i \in 1 .. n1 + n2 + n3 + n4 :
    \/ i <= n1 /\ i \in 1 .. n1
    \/ ~(i <= n1) /\ i <= n1 + n2 /\ i - n1 \in 1 .. n2
    \/ ~(i <= n1) /\ ~(i <= n1 + n2) /\ i <= n1 + n2 + n3 /\ i - n1 - n2 \in 1 .. n3
    \/ ~(i <= n1) /\ ~(i <= n1 + n2) /\ ~(i <= n1 + n2 + n3) /\ i - n1 - n2 - n3 \in 1 .. n4
OBVIOUS

\* The four stretches of that list.
LEMMA Stretches ==
  ASSUME NEW c \in [Arms \X Kinds -> Seq(Record)], NEW i \in DOMAIN Records(c)
  PROVE  \/ ListOf(c, i) = X1 /\ IndexOf(c, i) = i /\ i \in 1 .. Len(c[X1])
         \/ ListOf(c, i) = X2 /\ IndexOf(c, i) = i - Len(c[X1])
              /\ i - Len(c[X1]) \in 1 .. Len(c[X2])
         \/ ListOf(c, i) = X3 /\ IndexOf(c, i) = i - Len(c[X1]) - Len(c[X2])
              /\ i - Len(c[X1]) - Len(c[X2]) \in 1 .. Len(c[X3])
         \/ ListOf(c, i) = X4 /\ IndexOf(c, i) = i - Len(c[X1]) - Len(c[X2]) - Len(c[X3])
              /\ i - Len(c[X1]) - Len(c[X2]) - Len(c[X3]) \in 1 .. Len(c[X4])
<1>1. /\ Len(c[X1]) \in Nat /\ Len(c[X2]) \in Nat /\ Len(c[X3]) \in Nat /\ Len(c[X4]) \in Nat
      /\ i \in 1 .. Len(c[X1]) + Len(c[X2]) + Len(c[X3]) + Len(c[X4])
  BY RecordsAt, TheLists
<1>2. QED
  BY <1>1, FourStretches DEF ListOf, IndexOf

\* Each record comes from a position of its own.
LEMMA RecordsSpread ==
  ASSUME NEW c \in [Arms \X Kinds -> Seq(Record)], NEW i \in DOMAIN Records(c)
  PROVE  /\ ListOf(c, i) \in Lists
         /\ IndexOf(c, i) \in DOMAIN c[ListOf(c, i)]
         /\ \A j \in DOMAIN Records(c) :
              ListOf(c, i) = ListOf(c, j) /\ IndexOf(c, i) = IndexOf(c, j) => i = j
<1> DEFINE n1 == Len(c[X1])
           n2 == Len(c[X2])
           n3 == Len(c[X3])
           n4 == Len(c[X4])
<1>1. /\ n1 \in Nat /\ n2 \in Nat /\ n3 \in Nat /\ n4 \in Nat
      /\ \A x \in Lists : DOMAIN c[x] = 1 .. Len(c[x])
      /\ \A j \in DOMAIN Records(c) : j \in Int
  <2>1. /\ n1 \in Nat /\ n2 \in Nat /\ n3 \in Nat /\ n4 \in Nat
        /\ \A x \in Lists : DOMAIN c[x] = 1 .. Len(c[x])
    BY RecordsAt, TheLists
  <2>2. DOMAIN Records(c) = 1 .. Len(Records(c))
    BY RecordsAt
  <2>3. QED
    BY <2>1, <2>2
<1>2. ListOf(c, i) \in Lists
  <2>1. ListOf(c, i) \in {X1, X2, X3, X4}
    BY DEF ListOf
  <2>2. QED
    BY <2>1, TheLists
<1>3. IndexOf(c, i) \in DOMAIN c[ListOf(c, i)]
  <2>1. IndexOf(c, i) \in 1 .. Len(c[ListOf(c, i)])
    BY Stretches
  <2>2. QED
    BY <1>1, <1>2, <2>1
<1>4. ASSUME NEW j \in DOMAIN Records(c),
             ListOf(c, i) = ListOf(c, j), IndexOf(c, i) = IndexOf(c, j)
      PROVE  i = j
  <2> HIDE DEF n1, n2, n3, n4
  <2>1. \A k \in DOMAIN Records(c) :
          \/ ListOf(c, k) = X1 /\ IndexOf(c, k) = k
          \/ ListOf(c, k) = X2 /\ IndexOf(c, k) = k - n1
          \/ ListOf(c, k) = X3 /\ IndexOf(c, k) = k - n1 - n2
          \/ ListOf(c, k) = X4 /\ IndexOf(c, k) = k - n1 - n2 - n3
    BY Stretches DEF n1, n2, n3, n4
  <2>2. QED
    BY <1>1, <1>4, <2>1, TheLists
<1>5. QED
  BY <1>2, <1>3, <1>4

\* Records of different frames stay different in the list of all records.
LEMMA RecordsApart ==
  ASSUME NEW c \in [Arms \X Kinds -> Seq(Record)], Apart(c),
         NEW i \in DOMAIN Records(c), NEW j \in DOMAIN Records(c),
         Records(c)[i].frame = Records(c)[j].frame
  PROVE  i = j
<1>1. Records(c)[i] = c[ListOf(c, i)][IndexOf(c, i)]
      /\ Records(c)[j] = c[ListOf(c, j)][IndexOf(c, j)]
  BY RecordsAt
<1>2. /\ ListOf(c, i) \in Lists /\ IndexOf(c, i) \in DOMAIN c[ListOf(c, i)]
      /\ ListOf(c, j) \in Lists /\ IndexOf(c, j) \in DOMAIN c[ListOf(c, j)]
  BY RecordsSpread
<1>3. ListOf(c, i) = ListOf(c, j) /\ IndexOf(c, i) = IndexOf(c, j)
  BY <1>1, <1>2 DEF Apart
<1>4. QED
  BY <1>3, RecordsSpread

-----------------------------------------------------------------------------
(* The sessions that leave the page.                                       *)

\* A staging uploads the session the page held when it began; a session JSON is
\* one that was being staged, and an admitted session one that was staged and
\* whose files matched.
LEMMA SessionSteps ==
  ASSUME TypeOK, [Next]_vars
  PROVE  /\ \A h \in Handlers : Doing(h, "stage")' =>
              \/ Doing(h, "stage") /\ handler'[h].session = handler[h].session
              \/ handler'[h].session = buildSession
         /\ \A id \in DOMAIN staged' :
              \/ id \in DOMAIN staged /\ staged'[id] = staged[id]
              \/ \E h \in Handlers : Doing(h, "stage") /\ staged'[id] = handler[h].session
         /\ \A s \in admitted' :
              \/ s \in admitted
              \/ \E id \in DOMAIN staged : s = staged[id] /\ s.manifest.physical
                   /\ FilesMatch(s)
<1> USE DEF page, workspace
<1> DEFINE Staging == \A h \in Handlers : Doing(h, "stage")' =>
                        \/ Doing(h, "stage") /\ handler'[h].session = handler[h].session
                        \/ handler'[h].session = buildSession
<1>1. ASSUME UNCHANGED handler
      PROVE  Staging
  BY <1>1 DEF Doing
<1>2. ASSUME NEW h \in Handlers, NEW t, handler' = [handler EXCEPT ![h] = t],
             t # None => \/ t.kind # "stage" \/ t.session = buildSession
                         \/ (Doing(h, "stage") /\ t.session = handler[h].session)
      PROVE  Staging
  BY <1>2 DEF Doing, TypeOK
<1> HIDE DEF Staging
<1>3. ASSUME \/ SelectClass \/ checkRuntime \/ review \/ analyze \/ UNCHANGED vars
             \/ startRecord \/ \E a \in Arms : switchArm(a)
      PROVE  Staging /\ UNCHANGED <<staged, admitted>>
  <2>1. UNCHANGED <<handler, staged, admitted>>
    BY <1>3 DEF SelectClass, checkRuntime, review, analyze, vars, startRecord, switchArm, ShowArm
  <2>2. QED
    BY <1>1, <2>1
<1>4. ASSUME NEW id \in DOMAIN staged, Validate(id)
      PROVE  /\ Staging /\ UNCHANGED staged
             /\ \A s \in admitted' : \/ s \in admitted
                                     \/ s = staged[id] /\ s.manifest.physical /\ FilesMatch(s)
  <2>1. UNCHANGED <<handler, staged>>
    BY <1>4 DEF Validate
  <2>2. \A s \in admitted' : \/ s \in admitted
                             \/ s = staged[id] /\ s.manifest.physical /\ FilesMatch(s)
    BY <1>4 DEF Validate
  <2>3. QED
    BY <1>1, <2>1, <2>2
<1>5. ASSUME NEW h \in Handlers,
             \/ loadNextP1Trial(h) \/ freeze(h) \/ still(h) \/ stopRecord(h)
             \/ \E phase \in {"pre", "post"}, p \in Profiles : validateCalibration(h, phase, p)
             \/ TrialLoaded(h) \/ CalibrationRead(h) \/ Frozen(h) \/ Label(h) \/ Push(h)
      PROVE  Staging /\ UNCHANGED <<staged, admitted>>
  <2>1. UNCHANGED <<staged, admitted>>
    BY <1>5 DEF loadNextP1Trial, freeze, still, stopRecord, validateCalibration,
       TrialLoaded, ShowArm, CalibrationRead, Frozen, Label, Push
  <2>2. \E t : handler' = [handler EXCEPT ![h] = t] /\ (t # None => t.kind # "stage")
    BY <1>5 DEF loadNextP1Trial, freeze, still, stopRecord, validateCalibration,
       TrialLoaded, ShowArm, CalibrationRead, Frozen, Label, Push, Await, Goes, Ends
  <2>3. PICK t : handler' = [handler EXCEPT ![h] = t] /\ (t # None => t.kind # "stage")
    BY <2>2
  <2>4. QED
    BY <1>2, <2>1, <2>3
<1>6. ASSUME NEW h \in Handlers, seal(h) \/ stageSessionToRuntime(h)
      PROVE  Staging /\ UNCHANGED <<staged, admitted>>
  <2>1. UNCHANGED <<staged, admitted>>
    BY <1>6 DEF seal, stageSessionToRuntime
  <2>2. ASSUME NEW sealing, Stage(h, sealing)
        PROVE  Staging
    <3> DEFINE t == [kind |-> "stage", session |-> buildSession, sent |-> 0,
                     sealing |-> sealing]
    <3>1. handler' = [handler EXCEPT ![h] = t] /\ t.session = buildSession
      BY <2>2 DEF Stage, Await
    <3> HIDE DEF t
    <3>2. QED
      BY <1>2, <3>1
  <2>3. UNCHANGED handler \/ Stage(h, TRUE) \/ Stage(h, FALSE)
    BY <1>6 DEF seal, stageSessionToRuntime
  <2>4. QED
    BY <1>1, <2>1, <2>2, <2>3
<1>7. ASSUME NEW h \in Handlers, Upload(h)
      PROVE  /\ Staging /\ UNCHANGED admitted
             /\ \A id \in DOMAIN staged' : \/ id \in DOMAIN staged /\ staged'[id] = staged[id]
                                           \/ Doing(h, "stage") /\ staged'[id] = handler[h].session
  <2>1. Doing(h, "stage") /\ handler[h] \in StageTask
    BY <1>7, PendingTask, TaskFields DEF Upload, Doing
  <2>2. [handler[h] EXCEPT !.sent = @ + 1].session = handler[h].session
    BY <2>1 DEF StageTask
  <2>3. Staging
    BY <1>2, <1>7, <2>1, <2>2 DEF Upload, Goes, Ends
  <2>4. \A id \in DOMAIN staged' : \/ id \in DOMAIN staged /\ staged'[id] = staged[id]
                                   \/ staged'[id] = handler[h].session
    BY <1>7 DEF Upload, Stored
  <2>5. QED
    BY <1>7, <2>1, <2>3, <2>4 DEF Upload
<1>8. ASSUME NEW h \in Handlers, UploadFails(h)
      PROVE  /\ Staging /\ UNCHANGED admitted
             /\ \A id \in DOMAIN staged' : \/ id \in DOMAIN staged /\ staged'[id] = staged[id]
                                           \/ Doing(h, "stage") /\ staged'[id] = handler[h].session
  <2>1. Staging /\ Doing(h, "stage")
    BY <1>2, <1>8 DEF UploadFails, Goes, Ends, Pending, Doing
  <2>2. \A id \in DOMAIN staged' : \/ id \in DOMAIN staged /\ staged'[id] = staged[id]
                                   \/ staged'[id] = handler[h].session
    BY <1>8 DEF UploadFails, Stored
  <2>3. QED
    BY <1>8, <2>1, <2>2 DEF UploadFails
<1>9. Staging
  BY <1>3, <1>4, <1>5, <1>6, <1>7, <1>8 DEF Next, Continue
<1>10. CASE UNCHANGED <<staged, admitted>>
  BY <1>9, <1>10 DEF Staging
<1>11. \/ UNCHANGED <<staged, admitted>>
       \/ \E h \in Handlers : Upload(h) \/ UploadFails(h)
       \/ \E id \in DOMAIN staged : Validate(id)
  BY <1>3, <1>5, <1>6 DEF Next, Continue
<1>12. QED
  BY <1>4, <1>7, <1>8, <1>9, <1>10, <1>11 DEF Staging

\* No two records of a session on its way, in the workspace or admitted are of one
\* frame.
SessionsApart ==
  /\ \A h \in Handlers : Doing(h, "stage") => Apart(handler[h].session.captures)
  /\ \A id \in DOMAIN staged : Apart(staged[id].captures)
  /\ \A s \in admitted : Apart(s.captures)

LEMMA SessionsApartInit == Init => SessionsApart
BY DEF Init, SessionsApart, Doing

LEMMA SessionsApartStep == TypeOK /\ FramesApart /\ SessionsApart /\ [Next]_vars => SessionsApart'
<1> SUFFICES ASSUME TypeOK, FramesApart, SessionsApart, [Next]_vars PROVE SessionsApart'
  OBVIOUS
<1>1. Apart(buildSession.captures)
  BY DEF buildSession, FramesApart
<1>2. QED
  BY <1>1, SessionSteps DEF SessionsApart

\* Sessions without a frame in two places give each record a path of its own: files
\* under one path have one content, and the script compares it with both records.
LEMMA MatchedPaths ==
  ASSUME NEW s \in Session, Apart(s.captures), FilesMatch(s)
  PROVE  \A i, j \in DOMAIN Records(s.captures) :
           Path(s, Records(s.captures)[i]) = Path(s, Records(s.captures)[j]) => i = j
<1>1. s.captures \in [Arms \X Kinds -> Seq(Record)]
  BY DEF Session
<1>2. ASSUME NEW i \in DOMAIN Records(s.captures), NEW j \in DOMAIN Records(s.captures),
             Path(s, Records(s.captures)[i]) = Path(s, Records(s.captures)[j])
      PROVE  i = j
  <2>1. Records(s.captures)[i].frame = Records(s.captures)[j].frame
    BY <1>2 DEF FilesMatch
  <2>2. QED
    BY <1>1, <2>1, RecordsApart
<1>3. QED
  BY <1>2

LEMMA DistinctStep ==
  TypeOK /\ SessionsApart /\ AdmittedPathsAreDistinct /\ [Next]_vars => AdmittedPathsAreDistinct'
<1> SUFFICES ASSUME TypeOK, SessionsApart, AdmittedPathsAreDistinct, [Next]_vars
             PROVE  AdmittedPathsAreDistinct'
  OBVIOUS
<1>1. \A s \in admitted' : s \in admitted
        \/ \E id \in DOMAIN staged : s = staged[id] /\ FilesMatch(s)
  BY SessionSteps
<1>2. \A id \in DOMAIN staged : staged[id] \in Session /\ Apart(staged[id].captures)
  BY DEF TypeOK, SessionsApart
<1>3. QED
  BY <1>1, <1>2, MatchedPaths DEF AdmittedPathsAreDistinct

\* AdmittedPathsAreDistinct: no two records of an admitted session share a path,
\* however the clicks and the awaits of still, finishRecord and stageSession
\* interleave (verify_capture_hashes compares every record's bytes).
THEOREM AdmittedPaths == Spec => []AdmittedPathsAreDistinct
<1> DEFINE Inv == TypeOK /\ FrozenFirst /\ FramesApart /\ SessionsApart /\ AdmittedPathsAreDistinct
<1>1. Init => Inv
  BY TypeInit, FrozenInit, ApartInit, SessionsApartInit DEF Init, AdmittedPathsAreDistinct
<1>2. Inv /\ [Next]_vars => Inv'
  BY TypeStep, FrozenStep, ApartStep, SessionsApartStep, DistinctStep
<1>3. QED
  BY <1>1, <1>2, PTL DEF Spec

-----------------------------------------------------------------------------
(* An operator who waits.                                                  *)

\* There is one thing at a time ...
OneAtATime ==
  /\ \A g, h \in Handlers : handler[g] # None /\ handler[h] # None => g = h
  /\ recording # None => \A h \in Handlers : handler[h] = None

\* ... the manifest says what the page says ...
Pinned(m) == m.id = 1 /\ m.physical = physical /\ (physical => m.trial = binding /\ binding # None)

ManifestInv ==
  /\ frozen # None => Pinned(frozen)
  /\ \A h \in Handlers : Doing(h, "freeze") => frozen = None /\ Pinned(handler[h].manifest)
  /\ \A h \in Handlers : Doing(h, "load") => frozen = None /\ physical
  /\ ~physical /\ frozen = None => binding = None

\* ... the arm stays where the trial put it until there is a capture ...
FirstFrame(frame, a) == frame = 1 /\ physical => a = FirstArm[binding]

ArmInv ==
  /\ physical /\ binding # None /\ ~anyCapture => arm = FirstArm[binding]
  /\ recording # None => recording.shown = {arm} /\ FirstFrame(recording.frame, arm)
  /\ \A h \in Handlers : InFlight(h) =>
       handler[h].shown = {arm} /\ FirstFrame(handler[h].frame, arm)
  /\ \A h \in Handlers : Doing(h, "hash") =>
       /\ handler[h].arm = arm /\ handler[h].condition = binding
       /\ handler[h].number = Len(captures[<<arm, handler[h].type>>]) + 1

\* ... every record is of its list and its place there ...
TrueRecord(r, x, i) ==
  /\ r.list = x[1] /\ r.arm = x[1] /\ r.kind = x[2] /\ r.number = i
  /\ r.shown = {x[1]} /\ FirstFrame(r.frame, x[1])
  /\ physical => r.condition = binding

RecordInv == \A x \in Lists : \A i \in DOMAIN captures[x] : TrueRecord(captures[x][i], x, i)

\* ... and every session is the page's, with its files uploaded in order.
Current(s) == s.captures = captures /\ Pinned(s.manifest)

PathOf(r) == <<1, r.list, r.arm, r.kind, r.number>>

StageInv ==
  /\ sealed => recording = None /\ \A h \in Handlers : ~InFlight(h)
  /\ ~sealed => /\ DOMAIN files = {} /\ DOMAIN staged = {} /\ admitted = {}
                /\ \A h \in Handlers : ~Doing(h, "stage")
  /\ \A h \in Handlers : Doing(h, "stage") =>
       /\ Current(handler[h].session)
       /\ handler[h].sent \in 0 .. Len(Records(captures))
       /\ \A i \in 1 .. handler[h].sent : PathOf(Records(captures)[i]) \in DOMAIN files
  /\ \A id \in DOMAIN staged :
       /\ Current(staged[id])
       /\ \A i \in DOMAIN Records(captures) : PathOf(Records(captures)[i]) \in DOMAIN files
  /\ \A i \in DOMAIN Records(captures) : PathOf(Records(captures)[i]) \in DOMAIN files =>
       files[PathOf(Records(captures)[i])] \in {Records(captures)[i].frame, TornFile}
  /\ \A s \in admitted : Current(s) /\ s.manifest.physical

CalmInv == hasty = 0 => OneAtATime /\ ManifestInv /\ ArmInv /\ RecordInv /\ StageInv

LEMMA CalmInit == Init => CalmInv
<1> SUFFICES ASSUME Init PROVE OneAtATime /\ ManifestInv /\ ArmInv /\ RecordInv /\ StageInv
  BY DEF CalmInv
<1>1. OneAtATime /\ ManifestInv
  BY DEF Init, OneAtATime, ManifestInv, Doing
<1>2. ArmInv
  BY DEF Init, ArmInv, InFlight, Doing
<1>3. RecordInv
  BY DEF Init, RecordInv, Lists
<1>4. StageInv
  BY DEF Init, StageInv, InFlight, Doing
<1>5. QED
  BY <1>1, <1>2, <1>3, <1>4

\* The actions by which the operator clicks.
Clicks ==
  \/ SelectClass \/ startRecord \/ review \/ analyze
  \/ \E a \in Arms : switchArm(a)
  \/ \E h \in Handlers :
       \/ loadNextP1Trial(h) \/ freeze(h) \/ still(h) \/ seal(h) \/ stageSessionToRuntime(h)
       \/ \E phase \in {"pre", "post"}, p \in Profiles : validateCalibration(h, phase, p)

LEMMA ClickActions == Clicks => Click
BY DEF Clicks, SelectClass, startRecord, review, analyze, switchArm, loadNextP1Trial, freeze,
   still, seal, stageSessionToRuntime, validateCalibration

LEMMA ClickOrNot ==
  ASSUME [Next]_vars
  PROVE  \/ Clicks /\ Click
         \/ UNCHANGED hasty
<1>1. Clicks => Click
  BY ClickActions
<1>2. checkRuntime \/ (\E id \in DOMAIN staged : Validate(id)) \/ UNCHANGED vars => UNCHANGED hasty
  BY DEF checkRuntime, Validate, vars
<1>3. \A h \in Handlers : Continue(h) \/ stopRecord(h) => UNCHANGED hasty
  BY DEF Continue, TrialLoaded, CalibrationRead, Frozen, Label, Push, Upload, UploadFails, stopRecord
<1>4. QED
  BY <1>1, <1>2, <1>3 DEF Next, Clicks

\* Waiting once given up is given up for good, and a click that keeps it finds
\* nothing pending.
LEMMA CalmClick ==
  ASSUME TypeOK, [Next]_vars, hasty' = 0
  PROVE  hasty = 0 /\ (Click => Idle)
<1>1. hasty \in Nat
  BY DEF TypeOK
<1>2. Click => hasty = 0 /\ Idle
  BY <1>1 DEF Click
<1>3. QED
  BY <1>2, ClickOrNot

\* What each action leaves alone.
LEMMA Footprints ==
  ASSUME [Next]_vars
  PROVE  /\ UNCHANGED physical \/ SelectClass
         /\ UNCHANGED binding \/ SelectClass \/ checkRuntime \/ \E h \in Handlers : TrialLoaded(h)
         /\ UNCHANGED arm \/ (\E a \in Arms : switchArm(a)) \/ \E h \in Handlers : TrialLoaded(h)
         /\ UNCHANGED frozen \/ analyze \/ \E h \in Handlers : Frozen(h)
         /\ UNCHANGED captures \/ \E h \in Handlers : Push(h)
         /\ UNCHANGED sealed \/ \E h \in Handlers : seal(h)
         /\ \/ UNCHANGED recording \/ startRecord \/ \E a \in Arms : switchArm(a)
            \/ \E h \in Handlers : stopRecord(h) \/ TrialLoaded(h)
         /\ UNCHANGED <<files, staged>> \/ \E h \in Handlers : Upload(h) \/ UploadFails(h)
<1> USE DEF page, workspace
<1>1. SelectClass => UNCHANGED <<arm, frozen, captures, sealed, recording, files, staged>>
  BY DEF SelectClass
<1>2. checkRuntime => UNCHANGED <<physical, arm, frozen, captures, sealed, recording, files, staged>>
  BY DEF checkRuntime
<1>3. \A a \in Arms : switchArm(a) =>
        UNCHANGED <<physical, binding, frozen, captures, sealed, files, staged>>
  BY DEF switchArm, ShowArm
<1>4. startRecord => UNCHANGED <<physical, binding, arm, frozen, captures, sealed, files, staged>>
  BY DEF startRecord
<1>5. review => UNCHANGED <<physical, binding, arm, frozen, captures, sealed, recording, files, staged>>
  BY DEF review
<1>6. analyze => UNCHANGED <<physical, binding, arm, captures, sealed, recording, files, staged>>
  BY DEF analyze
<1>7. \A h \in Handlers : loadNextP1Trial(h) \/ freeze(h) \/ still(h) \/ stageSessionToRuntime(h)
                            \/ CalibrationRead(h) \/ Label(h) =>
        UNCHANGED <<physical, binding, arm, frozen, captures, sealed, recording, files, staged>>
  BY DEF loadNextP1Trial, freeze, still, stageSessionToRuntime, CalibrationRead, Label
<1>8. \A h \in Handlers, phase \in {"pre", "post"}, p \in Profiles :
        validateCalibration(h, phase, p) =>
          UNCHANGED <<physical, binding, arm, frozen, captures, sealed, recording, files, staged>>
  BY DEF validateCalibration
<1>9. \A h \in Handlers : seal(h) =>
        UNCHANGED <<physical, binding, arm, frozen, captures, recording, files, staged>>
  BY DEF seal
<1>10. \A h \in Handlers : stopRecord(h) =>
         UNCHANGED <<physical, binding, arm, frozen, captures, sealed, files, staged>>
  BY DEF stopRecord
<1>11. \A h \in Handlers : TrialLoaded(h) =>
         UNCHANGED <<physical, frozen, captures, sealed, files, staged>>
  BY DEF TrialLoaded
<1>12. \A h \in Handlers : Frozen(h) =>
         UNCHANGED <<physical, binding, arm, captures, sealed, recording, files, staged>>
  BY DEF Frozen
<1>13. \A h \in Handlers : Push(h) =>
         UNCHANGED <<physical, binding, arm, frozen, sealed, recording, files, staged>>
  BY DEF Push
<1>14. \A h \in Handlers : Upload(h) \/ UploadFails(h) =>
         UNCHANGED <<physical, binding, arm, frozen, captures, sealed, recording>>
  BY DEF Upload, UploadFails
<1>15. (\E id \in DOMAIN staged : Validate(id)) \/ UNCHANGED vars =>
         UNCHANGED <<physical, binding, arm, frozen, captures, sealed, recording, files, staged>>
  BY DEF Validate, vars
<1>16. QED
  BY <1>1, <1>2, <1>3, <1>4, <1>5, <1>6, <1>7, <1>8, <1>9, <1>10, <1>11, <1>12, <1>13, <1>14,
     <1>15 DEF Next, Continue

Alone(h, t) ==
  /\ handler' = [handler EXCEPT ![h] = t]
  /\ \A g \in Handlers \ {h} : handler[g] = None

LEMMA AloneAfter ==
  ASSUME TypeOK, NEW h \in Handlers, NEW t, Alone(h, t)
  PROVE  handler'[h] = t /\ \A g \in Handlers \ {h} : handler'[g] = None
BY DEF Alone, TypeOK

\* What a handler is left with, by the action that made it go on.
StillTask == [kind |-> "bytes", type |-> "still", frame |-> Taken + 1, shown |-> {arm}]
StopTask == [kind |-> "bytes", type |-> "motion", frame |-> recording.frame,
             shown |-> recording.shown]
LabelTask(h) ==
  [kind |-> "hash", type |-> handler[h].type, frame |-> handler[h].frame,
   shown |-> handler[h].shown, arm |-> arm,
   number |-> Len(List(arm, handler[h].type)) + 1, condition |-> binding,
   time |-> Len(Records(captures)) + Cardinality(Pending("hash")) + 1]
StagingTask(sealing) ==
  [kind |-> "stage", session |-> buildSession, sent |-> 0, sealing |-> sealing]

Origin(h, t) ==
  \/ t.kind = "calibrate"
  \/ loadNextP1Trial(h) /\ t = [kind |-> "load"]
  \/ freeze(h) /\ Idle /\ t = [kind |-> "freeze", manifest |-> manifest]
  \/ still(h) /\ Idle /\ t = StillTask
  \/ stopRecord(h) /\ t = StopTask
  \/ Label(h) /\ t = LabelTask(h)
  \/ (seal(h) \/ stageSessionToRuntime(h)) /\ Idle /\ \E sealing : t = StagingTask(sealing)
  \/ Upload(h) /\ t = [handler[h] EXCEPT !.sent = @ + 1]

CalmStep ==
  \/ UNCHANGED <<handler, recording>>
  \/ Idle /\ startRecord
  \/ \E h \in Handlers : \E t :
       Alone(h, t) /\ recording' = None /\ (t # None => Origin(h, t))

\* With an operator who waits, a step leaves the pending handler and the recording
\* alone, begins a recording, or is one handler's step with no other pending.
LEMMA CalmSteps ==
  ASSUME TypeOK, OneAtATime, [Next]_vars, hasty' = 0
  PROVE  CalmStep
<1> USE DEF page, workspace
<1> HIDE DEF CalmStep
<1>1. hasty = 0 /\ (Click => Idle)
  BY CalmClick
<1>2. CASE SelectClass \/ checkRuntime \/ review \/ analyze \/ UNCHANGED vars
           \/ \E id \in DOMAIN staged : Validate(id)
  BY <1>2 DEF SelectClass, checkRuntime, review, analyze, vars, Validate, CalmStep
<1>3. ASSUME NEW a \in Arms, switchArm(a)
      PROVE  CalmStep
  <2>1. recording = None
    BY <1>1, <1>3 DEF switchArm, ShowArm, Idle
  <2>2. QED
    BY <1>3, <2>1 DEF switchArm, ShowArm, CalmStep
<1>4. CASE startRecord
  BY <1>1, <1>4 DEF startRecord, CalmStep
<1>5. ASSUME NEW h \in Handlers, NEW t, Await(h, t), Idle, UNCHANGED recording, Origin(h, t)
      PROVE  CalmStep
  <2>1. Alone(h, t) /\ recording' = None
    BY <1>5 DEF Await, Idle, Alone
  <2>2. QED
    BY <1>5, <2>1 DEF CalmStep
<1>6. ASSUME NEW h \in Handlers, loadNextP1Trial(h)
      PROVE  CalmStep
  <2>1. Idle /\ Await(h, [kind |-> "load"]) /\ UNCHANGED recording
    BY <1>1, <1>6 DEF loadNextP1Trial
  <2>2. Origin(h, [kind |-> "load"])
    BY <1>6 DEF Origin
  <2>3. QED
    BY <1>5, <2>1, <2>2
<1>7. ASSUME NEW h \in Handlers, freeze(h)
      PROVE  CalmStep
  <2> DEFINE t == [kind |-> "freeze", manifest |-> manifest]
  <2>1. Idle /\ Await(h, t) /\ UNCHANGED recording
    BY <1>1, <1>7 DEF freeze
  <2>2. Origin(h, t)
    BY <1>7, <2>1 DEF Origin
  <2>3. QED
    BY <1>5, <2>1, <2>2
<1>8. ASSUME NEW h \in Handlers, still(h)
      PROVE  CalmStep
  <2>1. Idle /\ Await(h, StillTask) /\ UNCHANGED recording
    BY <1>1, <1>8 DEF still, StillTask
  <2>2. Origin(h, StillTask)
    BY <1>8, <2>1 DEF Origin
  <2>3. QED
    BY <1>5, <2>1, <2>2
<1>9. ASSUME NEW h \in Handlers, NEW phase \in {"pre", "post"}, NEW p \in Profiles,
             validateCalibration(h, phase, p)
      PROVE  CalmStep
  <2> DEFINE t == [kind |-> "calibrate", phase |-> phase, profile |-> p]
  <2>1. Idle /\ Await(h, t) /\ UNCHANGED recording
    BY <1>1, <1>9 DEF validateCalibration
  <2>2. Origin(h, t)
    BY DEF Origin
  <2>3. QED
    BY <1>5, <2>1, <2>2
<1>10. ASSUME NEW h \in Handlers, NEW sealing, Stage(h, sealing), Idle, UNCHANGED recording,
              seal(h) \/ stageSessionToRuntime(h)
       PROVE  CalmStep
  <2>1. Await(h, StagingTask(sealing))
    BY <1>10 DEF Stage, StagingTask
  <2>2. Origin(h, StagingTask(sealing))
    BY <1>10 DEF Origin
  <2>3. QED
    BY <1>5, <1>10, <2>1, <2>2
<1>11. ASSUME NEW h \in Handlers, seal(h)
       PROVE  CalmStep
  <2>1. Idle /\ UNCHANGED recording /\ (Stage(h, TRUE) \/ UNCHANGED handler)
    BY <1>1, <1>11 DEF seal
  <2>2. QED
    BY <1>10, <1>11, <2>1 DEF CalmStep
<1>12. ASSUME NEW h \in Handlers, stageSessionToRuntime(h)
       PROVE  CalmStep
  BY <1>1, <1>10, <1>12 DEF stageSessionToRuntime
<1>13. ASSUME NEW h \in Handlers, stopRecord(h)
       PROVE  CalmStep
  <2>1. Alone(h, StopTask) /\ recording' = None
    BY <1>13 DEF stopRecord, Await, StopTask, Alone, OneAtATime
  <2>2. Origin(h, StopTask)
    BY <1>13 DEF Origin
  <2>3. QED
    BY <2>1, <2>2 DEF CalmStep
<1>14. ASSUME NEW h \in Handlers, NEW t, handler[h] # None, Goes(h, t), UNCHANGED recording,
              t # None => Origin(h, t)
       PROVE  CalmStep
  <2>1. Alone(h, t) /\ recording' = None
    BY <1>14 DEF Goes, Alone, OneAtATime
  <2>2. QED
    BY <1>14, <2>1 DEF CalmStep
<1>15. ASSUME NEW h \in Handlers,
              TrialLoaded(h) \/ CalibrationRead(h) \/ Frozen(h) \/ Push(h) \/ UploadFails(h)
       PROVE  CalmStep
  <2>1. handler[h] # None /\ Goes(h, None)
    BY <1>15 DEF TrialLoaded, CalibrationRead, Frozen, Push, UploadFails, Pending, Ends
  <2>2. recording = None
    BY <2>1 DEF OneAtATime
  <2>3. UNCHANGED recording
    BY <1>15, <2>2 DEF TrialLoaded, ShowArm, CalibrationRead, Frozen, Push, UploadFails
  <2>4. QED
    BY <1>14, <2>1, <2>3
<1>16. ASSUME NEW h \in Handlers, Label(h)
       PROVE  CalmStep
  <2>1. handler[h] # None /\ Goes(h, LabelTask(h)) /\ UNCHANGED recording
    BY <1>16 DEF Label, Pending, LabelTask
  <2>2. Origin(h, LabelTask(h))
    BY <1>16 DEF Origin
  <2>3. QED
    BY <1>14, <2>1, <2>2
<1>17. ASSUME NEW h \in Handlers, Upload(h)
       PROVE  CalmStep
  <2> DEFINE t == [handler[h] EXCEPT !.sent = @ + 1]
  <2>1. handler[h] # None /\ UNCHANGED recording /\ (Goes(h, t) \/ Goes(h, None))
    BY <1>17 DEF Upload, Pending, Ends
  <2>2. Origin(h, t)
    BY <1>17 DEF Origin
  <2>3. QED
    BY <1>14, <2>1, <2>2
<1>18. QED
  BY <1>2, <1>3, <1>4, <1>6, <1>7, <1>8, <1>9, <1>11, <1>12, <1>13, <1>15, <1>16, <1>17
     DEF Next, Continue

LEMMA OneAtATimeStep ==
  ASSUME TypeOK, OneAtATime, [Next]_vars, hasty' = 0
  PROVE  OneAtATime'
<1>1. CASE UNCHANGED <<handler, recording>>
  BY <1>1 DEF OneAtATime
<1>2. CASE Idle /\ startRecord
  BY <1>2 DEF Idle, startRecord, OneAtATime
<1>3. ASSUME NEW h \in Handlers, NEW t, Alone(h, t), recording' = None
      PROVE  OneAtATime'
  BY <1>3, AloneAfter DEF OneAtATime
<1>4. QED
  BY <1>1, <1>2, <1>3, CalmSteps DEF CalmStep

\* The kind of what is carried names the action it came from.
LEMMA OriginKind ==
  ASSUME TypeOK, NEW h \in Handlers, NEW t, Origin(h, t)
  PROVE  /\ t.kind = "load" => loadNextP1Trial(h)
         /\ t.kind = "freeze" =>
              freeze(h) /\ Idle /\ t = [kind |-> "freeze", manifest |-> manifest]
         /\ t.kind = "bytes" => \/ still(h) /\ Idle /\ t = StillTask
                                \/ stopRecord(h) /\ t = StopTask
         /\ t.kind = "hash" => Label(h) /\ t = LabelTask(h)
         /\ t.kind = "stage" =>
              \/ (seal(h) \/ stageSessionToRuntime(h)) /\ Idle /\ \E sealing : t = StagingTask(sealing)
              \/ Upload(h) /\ t = [handler[h] EXCEPT !.sent = @ + 1]
<1>1. StillTask.kind = "bytes" /\ StopTask.kind = "bytes" /\ LabelTask(h).kind = "hash"
      /\ \A sealing : StagingTask(sealing).kind = "stage"
  BY DEF StillTask, StopTask, LabelTask, StagingTask
<1>2. Upload(h) => [handler[h] EXCEPT !.sent = @ + 1].kind = "stage"
  BY PendingTask, TaskFields, StageTaskFields DEF Upload
<1>3. CASE t.kind = "calibrate"
  BY <1>3
<1>4. CASE loadNextP1Trial(h) /\ t = [kind |-> "load"]
  BY <1>4
<1>5. CASE freeze(h) /\ Idle /\ t = [kind |-> "freeze", manifest |-> manifest]
  BY <1>5
<1>6. CASE (still(h) /\ Idle /\ t = StillTask) \/ (stopRecord(h) /\ t = StopTask)
  BY <1>1, <1>6
<1>7. CASE Label(h) /\ t = LabelTask(h)
  BY <1>1, <1>7
<1>8. CASE (seal(h) \/ stageSessionToRuntime(h)) /\ Idle /\ \E sealing : t = StagingTask(sealing)
  BY <1>1, <1>8
<1>9. CASE Upload(h) /\ t = [handler[h] EXCEPT !.sent = @ + 1]
  BY <1>2, <1>9
<1>10. QED
  BY <1>3, <1>4, <1>5, <1>6, <1>7, <1>8, <1>9 DEF Origin

\* With an operator who waits, a pending handler is the one that was pending, in a
\* step without handlers, or the one whose step this is.
LEMMA Carried ==
  ASSUME TypeOK, OneAtATime, [Next]_vars, hasty' = 0, NEW h \in Handlers, handler'[h] # None
  PROVE  \/ UNCHANGED <<handler, recording>>
         \/ recording' = None /\ Alone(h, handler'[h]) /\ Origin(h, handler'[h])
<1>1. CASE UNCHANGED <<handler, recording>>
  BY <1>1
<1>2. CASE Idle /\ startRecord
  BY <1>2 DEF Idle, startRecord
<1>3. ASSUME NEW g \in Handlers, NEW t, Alone(g, t), recording' = None, t # None => Origin(g, t)
      PROVE  recording' = None /\ Alone(h, handler'[h]) /\ Origin(h, handler'[h])
  BY <1>3, AloneAfter
<1>4. QED
  BY <1>1, <1>2, <1>3, CalmSteps DEF CalmStep

\* With an operator who waits, the trial and the evidence class are changed only
\* before the manifest is frozen, and the poll changes neither.
LEMMA BindingSteps ==
  ASSUME ManifestInv, [Next]_vars
  PROVE  /\ checkRuntime => UNCHANGED <<physical, binding>>
         /\ \/ UNCHANGED <<physical, binding>>
            \/ frozen = None /\ frozen' = None
                 /\ (SelectClass \/ \E h \in Handlers : TrialLoaded(h))
<1>1. checkRuntime => UNCHANGED <<physical, binding>>
  BY DEF checkRuntime, Synced, ManifestInv
<1>2. SelectClass => frozen = None /\ frozen' = None
  BY DEF SelectClass
<1>3. ASSUME NEW h \in Handlers, TrialLoaded(h)
      PROVE  frozen = None /\ frozen' = None
  BY <1>3 DEF TrialLoaded, ShowArm, Pending, ManifestInv, Doing
<1>4. QED
  BY <1>1, <1>2, <1>3, Footprints

\* What was frozen stays: analyze only adds the contract.
LEMMA FrozenStays ==
  ASSUME TypeOK, FrozenFirst, ManifestInv, [Next]_vars, frozen # None
  PROVE  /\ frozen' # None /\ UNCHANGED <<physical, binding>>
         /\ frozen'.id = frozen.id /\ frozen'.physical = frozen.physical
         /\ frozen'.trial = frozen.trial
<1>1. frozen' # None /\ UNCHANGED <<physical, binding>>
  BY PageSteps, BindingSteps
<1>2. ASSUME NEW h \in Handlers, Frozen(h)
      PROVE  FALSE
  BY <1>2 DEF Frozen, Pending, ManifestInv, Doing
<1>3. CASE analyze
  <2>1. frozen \in Manifest
    BY DEF TypeOK
  <2>2. QED
    BY <1>1, <1>3, <2>1 DEF analyze, Manifest
<1>4. QED
  BY <1>1, <1>2, <1>3, Footprints

\* While something is going on and no handler goes on, the page stays as it is.
LEMMA WhilePending ==
  ASSUME TypeOK, FrozenFirst, ManifestInv, [Next]_vars, hasty' = 0, ~Idle, UNCHANGED handler
  PROVE  UNCHANGED <<frozen, physical, binding, arm, captures>>
<1>1. ~Clicks
  BY CalmClick, ClickActions
<1>2. ASSUME NEW g \in Handlers
      PROVE  ~TrialLoaded(g) /\ ~Frozen(g) /\ ~Push(g)
  <2>1. ~(handler[g] # None /\ handler' = [handler EXCEPT ![g] = None])
    BY DEF TypeOK
  <2>2. QED
    BY <2>1 DEF TrialLoaded, ShowArm, Frozen, Push, Pending, Ends, Goes
<1>3. QED
  BY <1>1, <1>2, BindingSteps, Footprints DEF Clicks

LEMMA PinnedStays ==
  ASSUME UNCHANGED <<physical, binding>>, NEW m
  PROVE  Pinned(m)' <=> Pinned(m)
BY DEF Pinned

\* A manifest read by a click that found nothing pending.
LEMMA ManifestPinned ==
  ASSUME NEW h \in Handlers, freeze(h), Idle
  PROVE  frozen = None /\ Pinned(manifest)
<1>1. Pending("freeze") = {}
  BY DEF Idle, Pending
<1>2. Cardinality(Pending("freeze")) = 0
  BY <1>1, FS_EmptySet
<1>3. manifest.id = 1
  BY <1>2 DEF manifest
<1>4. QED
  BY <1>3 DEF freeze, manifest, Pinned

LEMMA ManifestStep ==
  ASSUME TypeOK, FrozenFirst, OneAtATime, ManifestInv, [Next]_vars, hasty' = 0
  PROVE  ManifestInv'
<1>1. frozen' # None => Pinned(frozen)'
  <2>1. CASE frozen # None
    BY <2>1, FrozenStays DEF ManifestInv, Pinned
  <2>2. ASSUME frozen = None, NEW h \in Handlers, Frozen(h)
        PROVE  Pinned(frozen)'
    BY <2>2 DEF Frozen, Pending, ManifestInv, Doing, Pinned
  <2>3. analyze => frozen # None
    BY DEF analyze, FrozenFirst
  <2>4. QED
    BY <2>1, <2>2, <2>3, Footprints
<1>2. ASSUME NEW h \in Handlers, Doing(h, "freeze")'
      PROVE  frozen' = None /\ Pinned(handler[h].manifest)'
  <2>1. CASE UNCHANGED handler
    <3>1. Doing(h, "freeze") /\ handler[h] # None
      BY <1>2, <2>1 DEF Doing
    <3>2. UNCHANGED <<frozen, physical, binding>>
      BY <2>1, <3>1, WhilePending DEF Idle
    <3>3. QED
      BY <2>1, <3>1, <3>2 DEF ManifestInv, Pinned
  <2>2. CASE Origin(h, handler'[h])
    <3>1. freeze(h) /\ Idle /\ handler'[h] = [kind |-> "freeze", manifest |-> manifest]
      BY <1>2, <2>2, OriginKind DEF Doing
    <3>2. UNCHANGED <<frozen, physical, binding>> /\ handler'[h].manifest = manifest
      BY <3>1 DEF freeze, page
    <3>3. QED
      BY <3>1, <3>2, ManifestPinned DEF Pinned
  <2>3. QED
    BY <1>2, <2>1, <2>2, Carried DEF Doing
<1>3. ASSUME NEW h \in Handlers, Doing(h, "load")'
      PROVE  frozen' = None /\ physical'
  <2>1. CASE UNCHANGED handler
    <3>1. Doing(h, "load") /\ handler[h] # None
      BY <1>3, <2>1 DEF Doing
    <3>2. UNCHANGED <<frozen, physical, binding>>
      BY <2>1, <3>1, WhilePending DEF Idle
    <3>3. QED
      BY <3>1, <3>2 DEF ManifestInv
  <2>2. CASE Origin(h, handler'[h])
    <3>1. loadNextP1Trial(h)
      BY <1>3, <2>2, OriginKind DEF Doing
    <3>2. QED
      BY <3>1 DEF loadNextP1Trial, LoadEnabled, page
  <2>3. QED
    BY <1>3, <2>1, <2>2, Carried DEF Doing
<1>4. ~physical' /\ frozen' = None => binding' = None
  <2>1. SelectClass => (~physical' => binding' = None)
    BY DEF SelectClass, Synced
  <2>2. \A h \in Handlers : TrialLoaded(h) => physical'
    BY DEF TrialLoaded, ShowArm, Pending, ManifestInv, Doing
  <2>3. QED
    BY <2>1, <2>2, BindingSteps, PageSteps DEF ManifestInv
<1>5. QED
  BY <1>1, <1>2, <1>3, <1>4 DEF ManifestInv

\* The first frame is taken of the arm the trial puts first.
LEMMA FirstTake ==
  ASSUME TypeOK, FramesApart, ManifestInv, ArmInv, NEW k \in Kinds, Take(k)
  PROVE  FirstFrame(Taken + 1, arm)
<1> SUFFICES ASSUME Taken + 1 = 1, physical PROVE arm = FirstArm[binding]
  BY DEF FirstFrame
<1>1. Taken = 0
  BY TakenType
<1>2. ASSUME NEW x \in Lists
      PROVE  captures[x] = << >>
  <2>1. captures[x] \in Seq(Record)
    BY DEF TypeOK, Lists
  <2>2. DOMAIN captures[x] = {}
    BY <1>1 DEF FramesApart, ListsApart
  <2>3. Len(captures[x]) \in Nat /\ 1 \notin 1 .. Len(captures[x])
    BY <2>1, <2>2, LenProperties
  <2>4. Len(captures[x]) = 0
    BY <2>3
  <2>5. QED
    BY <2>1, <2>4, EmptySeq
<1>3. ~anyCapture
  BY <1>2 DEF anyCapture, Lists
<1>4. frozen # None /\ binding # None
  BY DEF Take, ManifestInv, Pinned
<1>5. QED
  BY <1>3, <1>4 DEF ArmInv

\* Push leaves a capture.
LEMMA PushedCapture ==
  ASSUME TypeOK, NEW h \in Handlers, Push(h)
  PROVE  anyCapture'
<1>1. PICK x \in Lists : /\ Len(captures[x]) \in Nat
                        /\ DOMAIN captures'[x] = 1 .. Len(captures[x]) + 1
  BY Pushed
<1>2. captures'[x] # << >>
  BY <1>1
<1>3. QED
  BY <1>2 DEF anyCapture, Lists

LEMMA ArmStep ==
  ASSUME TypeOK, FrozenFirst, FramesApart, OneAtATime, ManifestInv, ArmInv, [Next]_vars, hasty' = 0
  PROVE  ArmInv'
<1>1. ASSUME physical', binding' # None, ~anyCapture'
      PROVE  arm' = FirstArm[binding']
  <2>1. captures' = captures
    BY <1>1, PushedCapture, Footprints
  <2>2. ~anyCapture
    BY <1>1, <2>1 DEF anyCapture
  <2>3. ~SelectClass
    BY <1>1 DEF SelectClass, Synced, ManifestInv, TypeOK
  <2>4. ASSUME NEW h \in Handlers, TrialLoaded(h)
        PROVE  arm' = FirstArm[binding']
    BY <1>1, <2>2, <2>4 DEF TrialLoaded, ShowArm, ArmInv
  <2>5. ASSUME NEW a \in Arms, switchArm(a)
        PROVE  arm' = FirstArm[binding']
    BY <1>1, <2>2, <2>5 DEF switchArm, ShowArm
  <2>6. CASE UNCHANGED <<physical, binding, arm>>
    BY <1>1, <2>2, <2>6 DEF ArmInv
  <2>7. QED
    BY <2>3, <2>4, <2>5, <2>6, BindingSteps, Footprints
<1>2. ASSUME UNCHANGED handler, ~Idle
      PROVE  /\ UNCHANGED <<physical, binding, arm, captures>>
             /\ \A frame, a : FirstFrame(frame, a)' <=> FirstFrame(frame, a)
  BY <1>2, WhilePending DEF FirstFrame
<1>3. ASSUME recording' # None
      PROVE  recording'.shown = {arm'} /\ FirstFrame(recording.frame, arm)'
  <2>1. CASE UNCHANGED <<handler, recording>>
    <3>1. ~Idle
      BY <1>3, <2>1 DEF Idle
    <3>2. QED
      BY <1>2, <1>3, <2>1, <3>1 DEF ArmInv, FirstFrame
  <2>2. CASE startRecord
    <3>1. FirstFrame(Taken + 1, arm)
      BY <2>2, FirstTake DEF startRecord, Kinds
    <3>2. QED
      BY <2>2, <3>1 DEF startRecord, FirstFrame
  <2>3. QED
    BY <1>3, <2>1, <2>2, CalmSteps DEF CalmStep
<1>4. ASSUME NEW h \in Handlers, InFlight(h)'
      PROVE  handler'[h].shown = {arm'} /\ FirstFrame(handler[h].frame, arm)'
  <2>1. CASE UNCHANGED handler
    <3>1. ~Idle /\ InFlight(h)
      BY <1>4, <2>1 DEF Idle, InFlight, Doing
    <3>2. QED
      BY <1>2, <2>1, <3>1 DEF ArmInv, FirstFrame
  <2>2. CASE Origin(h, handler'[h])
    <3>1. CASE still(h) /\ handler'[h] = StillTask
      <4>1. FirstFrame(Taken + 1, arm)
        BY <3>1, FirstTake DEF still, Kinds
      <4>2. QED
        BY <3>1, <4>1 DEF still, StillTask, FirstFrame
    <3>2. CASE stopRecord(h) /\ handler'[h] = StopTask
      BY <3>2 DEF stopRecord, StopTask, ArmInv, FirstFrame
    <3>3. CASE Label(h) /\ handler'[h] = LabelTask(h)
      BY <3>3 DEF Label, page, LabelTask, Pending, ArmInv, InFlight, Doing, FirstFrame
    <3>4. QED
      BY <1>4, <2>2, <3>1, <3>2, <3>3, OriginKind DEF InFlight, Doing
  <2>3. QED
    BY <1>4, <2>1, <2>2, Carried DEF InFlight, Doing
<1>5. ASSUME NEW h \in Handlers, Doing(h, "hash")'
      PROVE  /\ handler'[h].arm = arm' /\ handler'[h].condition = binding'
             /\ handler'[h].number = Len(captures'[<<arm', handler'[h].type>>]) + 1
  <2>1. CASE UNCHANGED handler
    <3>1. ~Idle /\ Doing(h, "hash")
      BY <1>5, <2>1 DEF Idle, Doing
    <3>2. QED
      BY <1>2, <2>1, <3>1 DEF ArmInv
  <2>2. CASE Origin(h, handler'[h])
    <3>1. Label(h) /\ handler'[h] = LabelTask(h)
      BY <1>5, <2>2, OriginKind DEF Doing
    <3>2. QED
      BY <3>1 DEF Label, page, LabelTask, List
  <2>3. QED
    BY <1>5, <2>1, <2>2, Carried DEF Doing
<1>6. QED
  BY <1>1, <1>3, <1>4, <1>5 DEF ArmInv

\* With an operator who waits, the record that joins a list is of that list, and
\* its number is its place there.
LEMMA PushedTrue ==
  ASSUME TypeOK, ArmInv, NEW h \in Handlers, Push(h), UNCHANGED <<physical, binding>>
  PROVE  \A y \in Lists : \A i \in DOMAIN captures'[y] :
           \/ i \in DOMAIN captures[y] /\ captures'[y][i] = captures[y][i]
           \/ TrueRecord(captures[y][i], y, i)'
<1> DEFINE x == PushList(h)
<1>1. /\ x \in Lists /\ Doing(h, "hash")
      /\ Len(captures[x]) \in Nat /\ DOMAIN captures[x] = 1 .. Len(captures[x])
      /\ DOMAIN captures'[x] = 1 .. Len(captures[x]) + 1
      /\ \A i \in DOMAIN captures[x] : captures'[x][i] = captures[x][i]
      /\ captures'[x][Len(captures[x]) + 1] = PushRecord(h)
      /\ \A y \in Lists \ {x} : captures'[y] = captures[y]
  BY Pushed
<1>2. TrueRecord(PushRecord(h), x, Len(captures[x]) + 1)
  BY <1>1 DEF ArmInv, InFlight, PushRecord, PushList, TrueRecord
<1> HIDE DEF x
<1>3. \A y, i : TrueRecord(captures[y][i], y, i)' <=> TrueRecord(captures'[y][i], y, i)
  BY DEF TrueRecord, FirstFrame
<1>4. ASSUME NEW y \in Lists, NEW i \in DOMAIN captures'[y]
      PROVE  \/ i \in DOMAIN captures[y] /\ captures'[y][i] = captures[y][i]
             \/ y = x /\ i = Len(captures[x]) + 1
  BY <1>1
<1>5. QED
  BY <1>1, <1>2, <1>3, <1>4

LEMMA RecordStep ==
  ASSUME TypeOK, FrozenFirst, ManifestInv, ArmInv, RecordInv, [Next]_vars
  PROVE  RecordInv'
<1>1. CASE UNCHANGED captures /\ UNCHANGED <<physical, binding>>
  BY <1>1 DEF RecordInv, TrueRecord, FirstFrame
<1>2. CASE UNCHANGED captures /\ frozen = None
  BY <1>2 DEF FrozenFirst, RecordInv
<1>3. ASSUME NEW h \in Handlers, Push(h)
      PROVE  RecordInv'
  <2>1. UNCHANGED <<physical, binding>>
    BY <1>3 DEF Push
  <2>2. ASSUME NEW y \in Lists, NEW i \in DOMAIN captures'[y]
        PROVE  TrueRecord(captures[y][i], y, i)'
    BY <1>3, <2>1, PushedTrue DEF RecordInv, TrueRecord, FirstFrame
  <2>3. QED
    BY <2>2 DEF RecordInv
<1>4. QED
  BY <1>1, <1>2, <1>3, BindingSteps, Footprints

\* The paths of the records differ: a record's path names its list and its place.
LEMMA PathsDiffer ==
  ASSUME TypeOK, RecordInv, NEW i \in DOMAIN Records(captures), NEW j \in DOMAIN Records(captures),
         PathOf(Records(captures)[i]) = PathOf(Records(captures)[j])
  PROVE  i = j
<1>1. captures \in [Arms \X Kinds -> Seq(Record)]
  BY DEF TypeOK
<1>2. ASSUME NEW k \in DOMAIN Records(captures)
      PROVE  TrueRecord(Records(captures)[k], ListOf(captures, k), IndexOf(captures, k))
  BY <1>1, RecordsAt, RecordsSpread DEF RecordInv
<1>3. /\ ListOf(captures, i)[1] = ListOf(captures, j)[1]
      /\ ListOf(captures, i)[2] = ListOf(captures, j)[2]
      /\ IndexOf(captures, i) = IndexOf(captures, j)
  BY <1>2 DEF TrueRecord, PathOf
<1>4. ListOf(captures, i) \in Lists /\ ListOf(captures, j) \in Lists
  BY <1>1, RecordsSpread
<1>5. ListOf(captures, i) = ListOf(captures, j)
  BY <1>3, <1>4 DEF Lists
<1>6. QED
  BY <1>1, <1>3, <1>5, RecordsSpread

-----------------------------------------------------------------------------
(* The staging, with an operator who waits.                                *)

\* A session built of a frozen page is the page's.
LEMMA BuildCurrent ==
  ASSUME ManifestInv, frozen # None
  PROVE  Current(buildSession)
BY DEF ManifestInv, Current, buildSession

LEMMA CurrentStays ==
  ASSUME UNCHANGED <<physical, binding, captures>>
  PROVE  \A s : Current(s)' <=> Current(s)
BY DEF Current, Pinned

LEMMA CurrentPath ==
  ASSUME NEW s, Current(s), NEW r
  PROVE  Path(s, r) = PathOf(r)
BY DEF Current, Pinned, Path, PathOf

\* Until the session is sealed nothing is staged.
Unstaged ==
  /\ DOMAIN files = {} /\ DOMAIN staged = {} /\ admitted = {}
  /\ \A h \in Handlers : ~Doing(h, "stage")

LEMMA UnstagedInv ==
  ASSUME ~sealed, Unstaged
  PROVE  StageInv
BY DEF StageInv, Unstaged

LEMMA StaysUnstaged ==
  ASSUME TypeOK, OneAtATime, [Next]_vars, hasty' = 0, ~sealed, ~sealed', Unstaged
  PROVE  Unstaged'
<1>1. ASSUME NEW h \in Handlers
      PROVE  ~Upload(h) /\ ~UploadFails(h) /\ ~seal(h) /\ ~stageSessionToRuntime(h)
  BY DEF Upload, UploadFails, seal, stageSessionToRuntime, Pending, Unstaged, Doing
<1>2. UNCHANGED files
  BY <1>1, Footprints
<1>3. DOMAIN staged' = {} /\ admitted' = {}
  BY SessionSteps DEF Unstaged
<1>4. ASSUME NEW h \in Handlers, Doing(h, "stage")'
      PROVE  FALSE
  <2>1. CASE UNCHANGED handler
    BY <1>4, <2>1 DEF Unstaged, Doing
  <2>2. CASE Origin(h, handler'[h])
    BY <1>1, <1>4, <2>2, OriginKind DEF Doing
  <2>3. QED
    BY <1>4, <2>1, <2>2, Carried DEF Doing
<1>5. QED
  BY <1>2, <1>3, <1>4 DEF Unstaged

\* Sealing, with nothing pending, stages the session of the page or downloads it.
LEMMA SealStage ==
  ASSUME TypeOK, FrozenFirst, ManifestInv, StageInv, NEW h \in Handlers, seal(h), Idle
  PROVE  StageInv'
<1>1. /\ ~sealed /\ sealed' /\ frozen # None /\ recording' = None
      /\ UNCHANGED <<files, staged, admitted, captures, physical, binding>>
  BY DEF seal, FrozenFirst, workspace, Idle
<1>2. DOMAIN files = {} /\ DOMAIN staged = {} /\ admitted = {}
  BY <1>1 DEF StageInv
<1>3. \/ UNCHANGED handler
      \/ handler' = [handler EXCEPT ![h] = StagingTask(TRUE)]
  BY DEF seal, Stage, Await, StagingTask
<1>4. ASSUME NEW g \in Handlers, handler'[g] # None
      PROVE  handler'[g] = StagingTask(TRUE)
  <2>1. handler[g] = None /\ handler \in [Handlers -> Task \cup {None}]
    BY DEF Idle, TypeOK
  <2>2. QED
    BY <1>3, <1>4, <2>1
<1>5. /\ StagingTask(TRUE).kind = "stage" /\ StagingTask(TRUE).sent = 0
      /\ StagingTask(TRUE).session = buildSession
  BY DEF StagingTask
<1>6. \A g \in Handlers : ~InFlight(g)'
  BY <1>4, <1>5 DEF InFlight, Doing
<1>7. Current(buildSession)
  BY <1>1, BuildCurrent
<1>8. Len(Records(captures)) \in Nat
  BY RecordsType DEF TypeOK
<1>9. ASSUME NEW g \in Handlers, Doing(g, "stage")'
      PROVE  /\ Current(handler[g].session)'
             /\ handler'[g].sent = 0
  <2>1. handler'[g] = StagingTask(TRUE)
    BY <1>4, <1>9 DEF Doing
  <2>2. handler'[g].session = buildSession /\ handler'[g].sent = 0
    BY <1>5, <2>1
  <2>3. QED
    BY <1>1, <1>7, <2>2 DEF Current, Pinned
<1>10. ASSUME NEW g \in Handlers, Doing(g, "stage")'
       PROVE  /\ Current(handler[g].session)'
              /\ handler'[g].sent \in 0 .. Len(Records(captures'))
              /\ \A i \in 1 .. handler'[g].sent : PathOf(Records(captures')[i]) \in DOMAIN files'
  BY <1>1, <1>8, <1>9, <1>10
<1>11. QED
  BY <1>1, <1>2, <1>6, <1>10 DEF StageInv

\* What an upload stores, seen from the page.
LEMMA UploadCurrent ==
  ASSUME TypeOK, StageInv, NEW h \in Handlers, Upload(h) \/ UploadFails(h)
  PROVE  LET task == handler[h]
             all == Records(captures)
         IN /\ Doing(h, "stage") /\ Current(task.session)
            /\ Records(task.session.captures) = all
            /\ \A r : Path(task.session, r) = PathOf(r)
            /\ Len(all) \in Nat /\ DOMAIN all = 1 .. Len(all) /\ task.sent \in 0 .. Len(all)
            /\ \A i \in 1 .. task.sent : PathOf(all[i]) \in DOMAIN files
<1>1. Doing(h, "stage")
  BY DEF Upload, UploadFails, Pending, Doing
<1>2. /\ Current(handler[h].session)
      /\ handler[h].sent \in 0 .. Len(Records(captures))
      /\ \A i \in 1 .. handler[h].sent : PathOf(Records(captures)[i]) \in DOMAIN files
  BY <1>1 DEF StageInv
<1>3. Records(handler[h].session.captures) = Records(captures)
  BY <1>2 DEF Current
<1>4. \A r : Path(handler[h].session, r) = PathOf(r)
  BY <1>2, CurrentPath
<1>5. Len(Records(captures)) \in Nat /\ DOMAIN Records(captures) = 1 .. Len(Records(captures))
  BY RecordsType, RecordsAt DEF TypeOK
<1>6. QED
  BY <1>1, <1>2, <1>3, <1>4, <1>5

\* A stored file is the next record's, and the others keep theirs.
LEMMA FilesStep ==
  ASSUME TypeOK, RecordInv, StageInv, [Next]_vars
  PROVE  /\ DOMAIN files \subseteq DOMAIN files'
         /\ \A i \in DOMAIN Records(captures) : PathOf(Records(captures)[i]) \in DOMAIN files' =>
              files'[PathOf(Records(captures)[i])] \in {Records(captures)[i].frame, TornFile}
<1> DEFINE all == Records(captures)
           Held(f) == \A i \in DOMAIN all : PathOf(all[i]) \in DOMAIN f =>
                        f[PathOf(all[i])] \in {all[i].frame, TornFile}
<1>1. Held(files)
  BY DEF StageInv
<1>2. ASSUME NEW k \in DOMAIN all, NEW v \in {all[k].frame, TornFile},
             files' = Stored(files, PathOf(all[k]), v)
      PROVE  DOMAIN files \subseteq DOMAIN files' /\ Held(files')
  <2>1. DOMAIN files' = DOMAIN files \cup {PathOf(all[k])}
    BY <1>2 DEF Stored
  <2>2. files'[PathOf(all[k])] = v
        /\ \A y \in DOMAIN files \ {PathOf(all[k])} : files'[y] = files[y]
    BY <1>2 DEF Stored
  <2>3. \A i \in DOMAIN all : PathOf(all[i]) = PathOf(all[k]) => i = k
    BY PathsDiffer
  <2>4. QED
    BY <1>1, <1>2, <2>1, <2>2, <2>3
<1>3. ASSUME NEW h \in Handlers, Upload(h) \/ UploadFails(h)
      PROVE  \/ UNCHANGED files
             \/ \E k \in DOMAIN all : \E v \in {all[k].frame, TornFile} :
                  files' = Stored(files, PathOf(all[k]), v)
  <2> DEFINE task == handler[h]
  <2>1. /\ Records(task.session.captures) = all
        /\ \A r : Path(task.session, r) = PathOf(r)
        /\ Len(all) \in Nat /\ DOMAIN all = 1 .. Len(all) /\ task.sent \in 0 .. Len(all)
    BY <1>3, UploadCurrent
  <2>2. \/ UNCHANGED files
        \/ task.sent < Len(all) /\ \E v \in {all[task.sent + 1].frame, TornFile} :
             files' = Stored(files, PathOf(all[task.sent + 1]), v)
    BY <1>3, <2>1 DEF Upload, UploadFails
  <2>3. task.sent < Len(all) => task.sent + 1 \in DOMAIN all
    BY <2>1
  <2>4. QED
    BY <2>2, <2>3
<1>4. UNCHANGED files => DOMAIN files \subseteq DOMAIN files' /\ Held(files')
  BY <1>1
<1>5. DOMAIN files \subseteq DOMAIN files' /\ Held(files')
  <2> HIDE DEF Held
  <2>1. QED
    BY <1>2, <1>3, <1>4, Footprints
<1>6. QED
  BY <1>5

\* Once the session is sealed no frame is taken, and the page stays as it is.
LEMMA SealedPage ==
  ASSUME TypeOK, FrozenFirst, ManifestInv, StageInv, [Next]_vars, sealed
  PROVE  /\ sealed' /\ frozen # None
         /\ UNCHANGED <<physical, binding, captures>>
         /\ recording' = None /\ \A h \in Handlers : ~InFlight(h)'
<1>1. frozen # None /\ recording = None /\ \A h \in Handlers : ~InFlight(h)
  BY DEF FrozenFirst, StageInv
<1>2. sealed'
  BY Footprints DEF seal
<1>3. ~startRecord
  BY DEF startRecord, Take
<1>4. ASSUME NEW h \in Handlers
      PROVE  ~still(h) /\ ~stopRecord(h) /\ ~Label(h) /\ ~Push(h)
  BY <1>1 DEF still, Take, stopRecord, Label, Push, Pending, InFlight, Doing
<1>5. Quiet
  BY <1>3, <1>4, FrameSteps
<1>6. QED
  BY <1>1, <1>2, <1>5, FrozenStays DEF Quiet

\* The staging of a sealed session goes on, or another one begins.
LEMMA SealedTasks ==
  ASSUME TypeOK, FrozenFirst, OneAtATime, ManifestInv, RecordInv, StageInv, [Next]_vars,
         hasty' = 0, sealed, NEW h \in Handlers, Doing(h, "stage")'
  PROVE  /\ Current(handler[h].session)'
         /\ handler'[h].sent \in 0 .. Len(Records(captures))
         /\ \A i \in 1 .. handler'[h].sent : PathOf(Records(captures)[i]) \in DOMAIN files'
<1>1. UNCHANGED <<physical, binding, captures>> /\ frozen # None
  BY SealedPage
<1>2. DOMAIN files \subseteq DOMAIN files'
  BY FilesStep
<1>3. CASE UNCHANGED handler
  <2>1. Doing(h, "stage") /\ handler'[h] = handler[h]
    BY <1>3 DEF Doing
  <2>2. QED
    BY <1>1, <1>2, <2>1 DEF StageInv, Current, Pinned
<1>4. ASSUME NEW sealing, handler'[h] = StagingTask(sealing)
      PROVE  /\ handler'[h].sent = 0 /\ Current(handler[h].session)'
  <2>1. handler'[h].session = buildSession /\ handler'[h].sent = 0
    BY <1>4 DEF StagingTask
  <2>2. Current(buildSession)
    BY <1>1, BuildCurrent
  <2>3. QED
    BY <1>1, <2>1, <2>2 DEF Current, Pinned
<1>5. CASE Upload(h) /\ handler'[h] = [handler[h] EXCEPT !.sent = @ + 1]
  <2> DEFINE task == handler[h]
             all == Records(captures)
  <2>1. /\ Current(task.session)
        /\ Records(task.session.captures) = all
        /\ \A r : Path(task.session, r) = PathOf(r)
        /\ Len(all) \in Nat /\ task.sent \in 0 .. Len(all)
        /\ \A i \in 1 .. task.sent : PathOf(all[i]) \in DOMAIN files
    BY <1>5, UploadCurrent
  <2>2. handler'[h].session = task.session /\ handler'[h].sent = task.sent + 1
    BY <1>5, PendingTask, TaskFields DEF Upload, StageTask
  <2>3. handler'[h] # None
    BY DEF Doing
  <2>4. /\ task.sent < Len(all)
        /\ files' = Stored(files, PathOf(all[task.sent + 1]), all[task.sent + 1].frame)
    <3>1. ~Ends(h)
      BY <2>3 DEF Ends, Goes, TypeOK
    <3>2. QED
      BY <1>5, <2>1, <3>1 DEF Upload
  <2>5. PathOf(all[task.sent + 1]) \in DOMAIN files'
    BY <2>4 DEF Stored
  <2>6. \A i \in 1 .. task.sent + 1 : PathOf(all[i]) \in DOMAIN files'
    BY <1>2, <2>1, <2>5
  <2>7. task.sent + 1 \in 0 .. Len(all)
    BY <2>1, <2>4
  <2>8. Current(handler[h].session)'
    BY <1>1, <2>1, <2>2 DEF Current, Pinned
  <2>9. QED
    BY <2>2, <2>6, <2>7, <2>8
<1>6. Len(Records(captures)) \in Nat
  BY RecordsType DEF TypeOK
<1>7. CASE Origin(h, handler'[h])
  <2>1. \/ \E sealing : handler'[h] = StagingTask(sealing)
        \/ Upload(h) /\ handler'[h] = [handler[h] EXCEPT !.sent = @ + 1]
    BY <1>7, OriginKind DEF Doing
  <2>2. ASSUME NEW sealing, handler'[h] = StagingTask(sealing)
        PROVE  /\ Current(handler[h].session)'
               /\ handler'[h].sent \in 0 .. Len(Records(captures))
               /\ 1 .. handler'[h].sent = {}
    BY <1>4, <1>6, <2>2
  <2>3. QED
    BY <1>5, <2>1, <2>2
<1>8. QED
  BY <1>3, <1>7, Carried DEF Doing

\* The session JSON follows its files.
LEMMA SealedStaged ==
  ASSUME TypeOK, FrozenFirst, ManifestInv, RecordInv, StageInv, [Next]_vars, sealed,
         NEW id \in DOMAIN staged'
  PROVE  /\ Current(staged[id])'
         /\ \A i \in DOMAIN Records(captures) : PathOf(Records(captures)[i]) \in DOMAIN files'
<1>1. UNCHANGED <<physical, binding, captures>>
  BY SealedPage
<1>2. DOMAIN files \subseteq DOMAIN files'
  BY FilesStep
<1>3. CASE id \in DOMAIN staged /\ staged'[id] = staged[id]
  BY <1>1, <1>2, <1>3 DEF StageInv, Current, Pinned
<1>4. ASSUME NEW h \in Handlers, Upload(h) \/ UploadFails(h),
             ~(id \in DOMAIN staged /\ staged'[id] = staged[id])
      PROVE  /\ Current(staged[id])'
             /\ \A i \in DOMAIN Records(captures) : PathOf(Records(captures)[i]) \in DOMAIN files
  <2> DEFINE task == handler[h]
             all == Records(captures)
  <2>1. /\ Current(task.session)
        /\ Records(task.session.captures) = all
        /\ DOMAIN all = 1 .. Len(all)
        /\ \A i \in 1 .. task.sent : PathOf(all[i]) \in DOMAIN files
    BY <1>4, UploadCurrent
  <2>2. task.sent = Len(all) /\ staged' = Stored(staged, task.session.manifest.id, task.session)
    BY <1>4, <2>1 DEF Upload, UploadFails
  <2>3. staged'[id] = task.session
    BY <1>4, <2>2 DEF Stored
  <2>4. Current(staged[id])'
    BY <1>1, <2>1, <2>3 DEF Current, Pinned
  <2>5. QED
    BY <2>1, <2>2, <2>4
<1>5. QED
  BY <1>2, <1>3, <1>4, Footprints

LEMMA SealedStep ==
  ASSUME TypeOK, FrozenFirst, OneAtATime, ManifestInv, RecordInv, StageInv, [Next]_vars,
         hasty' = 0, sealed
  PROVE  StageInv'
<1>1. /\ sealed' /\ UNCHANGED <<physical, binding, captures>>
      /\ recording' = None /\ \A h \in Handlers : ~InFlight(h)'
  BY SealedPage
<1>2. \A s \in admitted' : s \in admitted
        \/ \E id \in DOMAIN staged : s = staged[id] /\ s.manifest.physical
  BY SessionSteps
<1>3. \A s \in admitted' : Current(s) /\ s.manifest.physical
  BY <1>2 DEF StageInv
<1>4. \A s \in admitted' : Current(s)' /\ s.manifest.physical
  BY <1>1, <1>3 DEF Current, Pinned
<1>5. \A i \in DOMAIN Records(captures') : PathOf(Records(captures')[i]) \in DOMAIN files' =>
        files'[PathOf(Records(captures')[i])] \in {Records(captures')[i].frame, TornFile}
  BY <1>1, FilesStep
<1>6. \A id \in DOMAIN staged' :
        /\ Current(staged[id])'
        /\ \A i \in DOMAIN Records(captures') : PathOf(Records(captures')[i]) \in DOMAIN files'
  BY <1>1, SealedStaged
<1>7. \A h \in Handlers : Doing(h, "stage")' =>
        /\ Current(handler[h].session)'
        /\ handler'[h].sent \in 0 .. Len(Records(captures'))
        /\ \A i \in 1 .. handler'[h].sent : PathOf(Records(captures')[i]) \in DOMAIN files'
  BY <1>1, SealedTasks
<1>8. QED
  BY <1>1, <1>4, <1>5, <1>6, <1>7 DEF StageInv

LEMMA StageStep ==
  ASSUME TypeOK, FrozenFirst, OneAtATime, ManifestInv, RecordInv, StageInv, [Next]_vars,
         hasty' = 0
  PROVE  StageInv'
<1>1. CASE sealed
  BY <1>1, SealedStep
<1>2. CASE ~sealed /\ ~sealed'
  <2>1. Unstaged
    BY <1>2 DEF StageInv, Unstaged
  <2>2. Unstaged'
    BY <1>2, <2>1, StaysUnstaged
  <2>3. QED
    BY <1>2, <2>2 DEF StageInv, Unstaged
<1>3. ASSUME NEW h \in Handlers, seal(h)
      PROVE  StageInv'
  BY <1>3, SealStage, CalmClick DEF seal
<1>4. QED
  BY <1>1, <1>2, <1>3, Footprints

LEMMA CalmInvStep ==
  ASSUME TypeOK, FrozenFirst, FramesApart, CalmInv, [Next]_vars
  PROVE  CalmInv'
<1> SUFFICES ASSUME hasty' = 0
             PROVE  (OneAtATime /\ ManifestInv /\ ArmInv /\ RecordInv /\ StageInv)'
  BY DEF CalmInv
<1>1. OneAtATime /\ ManifestInv /\ ArmInv /\ RecordInv /\ StageInv
  BY CalmClick DEF CalmInv
<1>2. QED
  BY <1>1, OneAtATimeStep, ManifestStep, ArmStep, RecordStep, StageStep

\* The inductive invariant of the page.
PageInv == TypeOK /\ FrozenFirst /\ FramesApart /\ CalmInv

LEMMA PageInvariance == Spec => []PageInv
<1>1. Init => PageInv
  BY TypeInit, FrozenInit, ApartInit, CalmInit DEF PageInv
<1>2. PageInv /\ [Next]_vars => PageInv'
  BY TypeStep, FrozenStep, ApartStep, CalmInvStep DEF PageInv
<1>3. QED
  BY <1>1, <1>2, PTL DEF Spec

\* The records of a session are true to what was captured.
LEMMA TrueRecords ==
  ASSUME TypeOK, RecordInv, NEW s, s.captures = captures, NEW r \in RecordsOf(s)
  PROVE  \E x \in Lists : \E i \in DOMAIN captures[x] : r = captures[x][i] /\ TrueRecord(r, x, i)
<1>1. PICK k \in DOMAIN Records(captures) : r = Records(captures)[k]
  BY DEF RecordsOf
<1>2. /\ ListOf(captures, k) \in Lists /\ IndexOf(captures, k) \in DOMAIN captures[ListOf(captures, k)]
      /\ r = captures[ListOf(captures, k)][IndexOf(captures, k)]
  BY <1>1, RecordsAt, RecordsSpread DEF TypeOK
<1>3. QED
  BY <1>2 DEF RecordInv

\* AdmittedSessionsAreTrue: with an operator who waits, each record of an admitted
\* P1 session was taken while the page named its list's arm, under the trial that
\* was frozen (still, finishRecord, loadNextP1Trial, freeze).
THEOREM AdmittedTrue == Spec => []AdmittedSessionsAreTrue
<1>1. PageInv => AdmittedSessionsAreTrue
  <2> SUFFICES ASSUME PageInv, hasty = 0, NEW s \in admitted, NEW r \in RecordsOf(s)
               PROVE  r.shown = {r.list} /\ r.condition = s.manifest.trial
    BY DEF AdmittedSessionsAreTrue
  <2>1. TypeOK /\ RecordInv /\ StageInv
    BY DEF PageInv, CalmInv
  <2>2. s.captures = captures /\ physical /\ s.manifest.trial = binding
    BY <2>1 DEF StageInv, Current, Pinned
  <2>3. PICK x \in Lists : \E i \in DOMAIN captures[x] : TrueRecord(r, x, i)
    BY <2>1, <2>2, TrueRecords
  <2>4. QED
    BY <2>2, <2>3 DEF TrueRecord
<1>2. QED
  BY <1>1, PageInvariance, PTL

\* FirstArmFirst: with an operator who waits, the first frame of a P1 session is of
\* the arm the frozen trial puts first (switchArm, loadNextP1Trial, syncEvidenceMode).
THEOREM FirstFrameOfTrial == Spec => []FirstArmFirst
<1>1. PageInv => FirstArmFirst
  <2> SUFFICES ASSUME PageInv, hasty = 0, frozen # None, frozen.physical,
                      NEW x \in Arms \X Kinds, NEW i \in DOMAIN captures[x],
                      captures[x][i].frame = 1
               PROVE  captures[x][i].shown = {FirstArm[frozen.trial]}
    BY DEF FirstArmFirst
  <2>1. ManifestInv /\ RecordInv
    BY DEF PageInv, CalmInv
  <2>2. physical /\ frozen.trial = binding
    BY <2>1 DEF ManifestInv, Pinned
  <2>3. TrueRecord(captures[x][i], x, i)
    BY <2>1 DEF RecordInv, Lists
  <2>4. QED
    BY <2>2, <2>3 DEF TrueRecord, FirstFrame
<1>2. QED
  BY <1>1, PageInvariance, PTL

\* StagedSessionIsWhole: with an operator who waits, a session JSON in the workspace
\* is accompanied by all its files, each whole or torn by an upload that failed and
\* none of another frame (stageSessionToRuntime, do_PUT).
THEOREM StagedWhole == Spec => []StagedSessionIsWhole
<1>1. PageInv => StagedSessionIsWhole
  <2> SUFFICES ASSUME PageInv, hasty = 0, NEW id \in DOMAIN staged, NEW r \in RecordsOf(staged[id])
               PROVE  /\ Path(staged[id], r) \in DOMAIN files
                      /\ files[Path(staged[id], r)] \in {r.frame, TornFile}
    BY DEF StagedSessionIsWhole
  <2>1. StageInv
    BY DEF PageInv, CalmInv
  <2>2. Current(staged[id])
    BY <2>1 DEF StageInv
  <2>3. PICK k \in DOMAIN Records(captures) : r = Records(captures)[k]
    BY <2>2 DEF RecordsOf, Current
  <2>4. Path(staged[id], r) = PathOf(Records(captures)[k])
    BY <2>2, <2>3, CurrentPath
  <2>5. QED
    BY <2>1, <2>3, <2>4 DEF StageInv
<1>2. QED
  BY <1>1, PageInvariance, PTL

-----------------------------------------------------------------------------
(* The abstract session.                                                   *)

\* Sessions are admitted by the script alone.
LEMMA AdmittedSteps ==
  ASSUME [Next]_vars
  PROVE  UNCHANGED admitted \/ \E id \in DOMAIN staged : Validate(id)
<1> USE DEF page, workspace
<1>1. SelectClass \/ checkRuntime \/ startRecord \/ review \/ analyze
        \/ (\E a \in Arms : switchArm(a)) => UNCHANGED admitted
  BY DEF SelectClass, checkRuntime, startRecord, review, analyze, switchArm, ShowArm
<1>2. ASSUME NEW h \in Handlers, Continue(h) PROVE UNCHANGED admitted
  BY <1>2 DEF Continue, TrialLoaded, ShowArm, CalibrationRead, Frozen, Label, Push, Upload, UploadFails
<1>3. \A h \in Handlers : loadNextP1Trial(h) \/ freeze(h) \/ still(h) \/ stopRecord(h)
        \/ seal(h) \/ stageSessionToRuntime(h) => UNCHANGED admitted
  BY DEF loadNextP1Trial, freeze, still, stopRecord, seal, stageSessionToRuntime
<1>4. \A h \in Handlers, phase \in {"pre", "post"}, p \in Profiles :
        validateCalibration(h, phase, p) => UNCHANGED admitted
  BY DEF validateCalibration
<1>5. QED
  BY <1>1, <1>2, <1>3, <1>4 DEF Next, vars

LEMMA ManifestStays ==
  ASSUME TypeOK, FrozenFirst, ManifestInv, [Next]_vars, frozen # None
  PROVE  UNCHANGED FrozenManifest
BY FrozenStays DEF FrozenManifest

\* Frozen(h) is Freeze: what was read before the hash is a manifest.
LEMMA FrozenRefines ==
  ASSUME TypeOK, ManifestInv, NEW h \in Handlers, Frozen(h)
  PROVE  Promised!Freeze
<1>1. frozen = None /\ Pinned(handler[h].manifest)
  BY DEF Frozen, Pending, ManifestInv, Doing
<1>2. frozen' = handler[h].manifest /\ frozen' \in Manifest /\ frozen' # None
  BY PendingTask, TaskFields, NullAssumption DEF Frozen
<1> DEFINE m == [physical |-> frozen'.physical, trial |-> frozen'.trial]
<1>3. m \in Promised!Manifest
  <2>1. frozen'.physical => frozen'.trial # None
    BY <1>1, <1>2 DEF Pinned
  <2>2. QED
    BY <1>2, <2>1 DEF Manifest, Promised!Manifest
<1>4. FrozenManifest = {} /\ FrozenManifest' = {m}
  BY <1>1, <1>2 DEF FrozenManifest
<1>5. UNCHANGED <<captures, sealed, Admissions>>
  BY DEF Frozen, workspace, Admissions
<1>6. QED
  BY <1>3, <1>4, <1>5 DEF Promised!Freeze

\* Push(h) is Capture: the record that joins a list is true.
LEMMA PushRefines ==
  ASSUME TypeOK, FrozenFirst, FramesApart, ManifestInv, ArmInv, StageInv,
         NEW h \in Handlers, Push(h)
  PROVE  \E m \in FrozenManifest : \E x \in Arms \X Kinds : Promised!Capture(m, x)
<1> DEFINE x == PushList(h)
           n == Len(captures[x]) + 1
           r == PushRecord(h)
           m == [physical |-> frozen.physical, trial |-> frozen.trial]
<1>1. /\ x \in Lists /\ Doing(h, "hash")
      /\ Len(captures[x]) \in Nat
      /\ DOMAIN captures'[x] = 1 .. Len(captures[x]) + 1
      /\ captures'[x][n] = r
  BY Pushed
<1>2. InFlight(h) /\ frozen # None /\ ~sealed
  BY <1>1 DEF InFlight, FrozenFirst, StageInv
<1>3. m \in FrozenManifest
  BY <1>2 DEF FrozenManifest
<1>4. UNCHANGED <<FrozenManifest, sealed, Admissions>>
  BY DEF Push, workspace, FrozenManifest, Admissions
<1>5. captures' = [captures EXCEPT ![x] = Append(@, r)]
  BY DEF Push, PushList, PushRecord
<1>6. /\ r.list = x[1] /\ r.kind = x[2] /\ r.number = n
      /\ r.shown = {x[1]} /\ r.condition = binding /\ r.frame = handler[h].frame
  BY <1>1, <1>2 DEF ArmInv, PushRecord, PushList
<1>7. physical = m.physical /\ (m.physical => m.trial = binding /\ binding # None)
  BY <1>2 DEF ManifestInv, Pinned
<1>8. \A y \in Lists : \A i \in DOMAIN captures[y] : captures[y][i].frame # r.frame
  BY <1>2, <1>6 DEF FramesApart, ListsApart
<1>9. ASSUME m.physical, \A y \in Lists : captures[y] = << >>
      PROVE  x[1] = FirstArm[m.trial]
  <2>1. ~anyCapture
    BY <1>9 DEF anyCapture, Lists
  <2>2. arm = FirstArm[binding]
    BY <1>7, <1>9, <2>1 DEF ArmInv
  <2>3. QED
    BY <1>7, <1>9, <2>2 DEF PushList
<1> HIDE DEF x, r, m
<1>10. Promised!TrueRecord(m, r, x)
  BY <1>6, <1>7, <1>8, <1>9 DEF Promised!TrueRecord, Lists
<1>11. Promised!Capture(m, x)
  <2>1. n \in DOMAIN captures'[x]
    BY <1>1
  <2>2. QED
    BY <1>1, <1>2, <1>4, <1>5, <1>10, <2>1 DEF Promised!Capture
<1>12. QED
  BY <1>1, <1>3, <1>11 DEF Lists

\* seal(h) is Seal.
LEMMA SealRefines ==
  ASSUME FrozenFirst, NEW h \in Handlers, seal(h)
  PROVE  FrozenManifest # {} /\ Promised!Seal
<1>1. frozen # None /\ ~sealed /\ sealed' /\ Paired
  BY DEF seal, FrozenFirst
<1>2. UNCHANGED <<FrozenManifest, captures, Admissions>>
  BY DEF seal, workspace, FrozenManifest, Admissions
<1>3. FrozenManifest # {}
  BY <1>1 DEF FrozenManifest
<1>4. QED
  BY <1>1, <1>2, <1>3 DEF Promised!Seal, Paired, List, Arms

\* Validate(id) is Admit: what is staged is what was sealed.
LEMMA ValidateRefines ==
  ASSUME FrozenFirst, ManifestInv, StageInv, NEW id \in DOMAIN staged, Validate(id)
  PROVE  \E m \in FrozenManifest : Promised!Admit(m)
<1> DEFINE s == staged[id]
           m == [physical |-> frozen.physical, trial |-> frozen.trial]
<1>1. sealed /\ frozen # None
  BY DEF StageInv, FrozenFirst
<1>2. s.captures = captures /\ Pinned(s.manifest) /\ Pinned(frozen) /\ s.manifest.physical
  BY <1>1 DEF StageInv, Current, ManifestInv, Validate
<1>3. m \in FrozenManifest /\ m.physical /\ s.manifest.trial = m.trial
  BY <1>1, <1>2 DEF FrozenManifest, Pinned
<1>4. admitted' = admitted \cup {s} /\ UNCHANGED <<FrozenManifest, captures, sealed>>
  BY DEF Validate, page, FrozenManifest
<1>5. Admissions' = Admissions \cup {[trial |-> s.manifest.trial, captures |-> s.captures]}
  BY <1>4 DEF Admissions
<1> HIDE DEF s, m
<1>6. Promised!Admit(m)
  BY <1>1, <1>2, <1>3, <1>4, <1>5 DEF Promised!Admit
<1>7. QED
  BY <1>3, <1>6

\* RefinesCaptureSession: as long as the operator waits, every step of page, runtime
\* and script is a step of the abstract session or leaves it alone (freeze,
\* finishRecord, seal, buildSession, main).
THEOREM SessionRefinement == Spec => RefinesCaptureSession
<1>1. Init => Promised!Init
  BY DEF Init, Promised!Init, FrozenManifest, Admissions, Arms, Kinds
<1>2. ASSUME PageInv, [Next]_vars, hasty' = 0
      PROVE  Promised!Next \/ UNCHANGED Promised!vars
  <2>1. /\ TypeOK /\ FrozenFirst /\ FramesApart
        /\ ManifestInv /\ ArmInv /\ StageInv
    BY <1>2, CalmClick DEF PageInv, CalmInv
  <2>2. ASSUME NEW h \in Handlers, Frozen(h) PROVE Promised!Next
    BY <2>1, <2>2, FrozenRefines DEF Promised!Next
  <2>3. ASSUME NEW h \in Handlers, Push(h) PROVE Promised!Next
    BY <2>1, <2>3, PushRefines DEF Promised!Next, Arms, Kinds
  <2>4. ASSUME NEW h \in Handlers, seal(h) PROVE Promised!Next
    BY <2>1, <2>4, SealRefines DEF Promised!Next
  <2>5. ASSUME NEW id \in DOMAIN staged, Validate(id) PROVE Promised!Next
    BY <2>1, <2>5, ValidateRefines DEF Promised!Next
  <2>6. CASE UNCHANGED <<captures, sealed, admitted>> /\ \A h \in Handlers : ~Frozen(h)
    <3>1. UNCHANGED FrozenManifest
      <4>1. CASE frozen # None
        BY <1>2, <2>1, <4>1, ManifestStays
      <4>2. CASE frozen = None
        <5>1. ~analyze
          BY <2>1, <4>2 DEF analyze, FrozenFirst
        <5>2. UNCHANGED frozen
          BY <1>2, <2>6, <5>1, Footprints
        <5>3. QED
          BY <5>2 DEF FrozenManifest
      <4>3. QED
        BY <4>1, <4>2
    <3>2. UNCHANGED Admissions
      BY <2>6 DEF Admissions
    <3>3. QED
      BY <2>6, <3>1, <3>2 DEF Promised!vars
  <2>7. QED
    BY <1>2, <2>2, <2>3, <2>4, <2>5, <2>6, Footprints, AdmittedSteps
<1>3. PageInv /\ [Next]_vars =>
        [hasty' = 0 => Promised!Next \/ UNCHANGED Promised!vars]_vars
  BY <1>2
<1>4. QED
  BY <1>1, <1>3, PageInvariance, PTL DEF Spec, RefinesCaptureSession
=============================================================================
