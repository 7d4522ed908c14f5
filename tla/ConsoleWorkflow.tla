--------------------------- MODULE ConsoleWorkflow ---------------------------
(***************************************************************************)
(* The P1 workflow of the Research Console                                 *)
(* (research_console/console.js) over the runtime's jobs: validate a       *)
(* session, analyse it, ingest it.  Click handlers are asynchronous: each  *)
(* captures the form fields, launches a job and polls it until it has      *)
(* ended, while the operator may edit the form and click again.            *)
(*                                                                         *)
(* A job runs on the server whether or not its handler still polls.  What  *)
(* the scripts do is modelled by their effect: validation accepts exactly  *)
(* the good sessions, a successful analysis writes the inference file, and *)
(* ingestion makes the checks of ingest_capture_inference.py.              *)
(*                                                                         *)
(* The names of the specification say Console: it is read beside that of   *)
(* the runtime (PlatformRuntime) that runs the jobs.                       *)
(***************************************************************************)
EXTENDS FiniteSets

CONSTANTS
  Sessions,     \* session paths
  Inferences,   \* inference paths
  None,         \* null, an empty field, a file that does not exist
  Good,         \* the sessions that pass validation
  Handlers      \* click handlers that can be pending at once

ASSUME ConsoleAssumption ==
  /\ None \notin Sessions \cup Inferences
  /\ Good \subseteq Sessions

VARIABLES
  session,              \* the session field
  inference,            \* the inference field
  validationPassedFor,
  analysisPassedFor,
  handler,              \* the pending handlers and their jobs
  inferenceFile,        \* the session each inference file analyses
  trials                \* the trial store: session and analysed session

gates == <<validationPassedFor, analysisPassedFor>>
consoleVars == <<session, inference, gates, handler, inferenceFile, trials>>

Job == {"none", "validate", "analyze", "ingest"}
Phase == {"running", "succeeded", "failed"}
Handler == [job : Job, session : Sessions \cup {None}, inference : Inferences \cup {None},
            phase : Phase, polling : BOOLEAN]
Free == [job |-> "none", session |-> None, inference |-> None,
         phase |-> "failed", polling |-> FALSE]

ConsoleTypeOK ==
  /\ session \in Sessions \cup {None}
  /\ inference \in Inferences \cup {None}
  /\ validationPassedFor \in Sessions \cup {None}
  /\ analysisPassedFor \in Inferences \cup {None}
  /\ handler \in [Handlers -> Handler]
  /\ inferenceFile \in [Inferences -> Sessions \cup {None}]
  /\ trials \subseteq [session : Sessions, analysed : Sessions]

ConsoleInit ==
  /\ session = None
  /\ inference = None
  /\ validationPassedFor = None
  /\ analysisPassedFor = None
  /\ handler = [h \in Handlers |-> Free]
  /\ inferenceFile = [i \in Inferences |-> None]
  /\ trials = {}

-----------------------------------------------------------------------------
(* The operator.                                                           *)

resetWorkflowGate ==
  /\ validationPassedFor' = None
  /\ analysisPassedFor' = None

\* A path field fires "change".
EditSession(s) ==
  /\ session' = s
  /\ resetWorkflowGate
  /\ UNCHANGED <<inference, handler, inferenceFile, trials>>

EditInference(i) ==
  /\ inference' = i
  /\ resetWorkflowGate
  /\ UNCHANGED <<session, handler, inferenceFile, trials>>

\* stageSelectedSession: a fresh import directory fills both fields.
Stage(s, i) ==
  /\ session' = s
  /\ inference' = i
  /\ resetWorkflowGate
  /\ UNCHANGED <<handler, inferenceFile, trials>>

\* The page is loaded again: restoreLastSession fills the remembered fields,
\* the gates and the pending handlers are gone, their jobs are not.
Reload ==
  /\ resetWorkflowGate
  /\ handler' = [h \in Handlers |->
       IF handler[h].phase = "running" THEN [handler[h] EXCEPT !.polling = FALSE] ELSE Free]
  /\ UNCHANGED <<session, inference, inferenceFile, trials>>

LaunchJob(h, job) ==
  /\ handler[h] = Free
  /\ handler' = [handler EXCEPT ![h] =
       [job |-> job, session |-> session, inference |-> inference,
        phase |-> "running", polling |-> TRUE]]

ClickValidate(h) ==
  /\ session # None
  /\ LaunchJob(h, "validate")
  /\ resetWorkflowGate
  /\ UNCHANGED <<session, inference, inferenceFile, trials>>

AnalyzeEnabled == session # None /\ validationPassedFor = session

\* Without an inference path the runtime gets an empty output and refuses.
ClickAnalyze(h) ==
  /\ AnalyzeEnabled
  /\ inference # None
  /\ LaunchJob(h, "analyze")
  /\ analysisPassedFor' = None
  /\ UNCHANGED <<session, inference, validationPassedFor, inferenceFile, trials>>

IngestEnabled ==
  /\ session # None
  /\ inference # None
  /\ validationPassedFor = session
  /\ analysisPassedFor = inference

ClickIngest(h) ==
  /\ IngestEnabled
  /\ LaunchJob(h, "ingest")
  /\ UNCHANGED <<session, inference, gates, inferenceFile, trials>>

-----------------------------------------------------------------------------
(* The jobs.  Any of them may fail for a reason of its own.                *)

End(h, phase) ==
  handler' = [handler EXCEPT ![h] =
                IF @.polling THEN [@ EXCEPT !.phase = phase] ELSE Free]

JobFails(h) ==
  /\ handler[h].phase = "running"
  /\ End(h, "failed")
  /\ UNCHANGED <<session, inference, gates, inferenceFile, trials>>

Succeeds(h, job) ==
  /\ handler[h].phase = "running"
  /\ handler[h].job = job
  /\ End(h, "succeeded")
  /\ UNCHANGED <<session, inference, gates>>

ValidateSucceeds(h) ==
  /\ handler[h].session \in Good
  /\ Succeeds(h, "validate")
  /\ UNCHANGED <<inferenceFile, trials>>

AnalyzeSucceeds(h) ==
  /\ Succeeds(h, "analyze")
  /\ inferenceFile' = [inferenceFile EXCEPT ![handler[h].inference] = handler[h].session]
  /\ UNCHANGED trials

\* The inference must be of this session, the session's binding must hold,
\* and its trial must not be in the store.
IngestSucceeds(h) ==
  LET s == handler[h].session
      analysed == inferenceFile[handler[h].inference]
  IN  /\ Succeeds(h, "ingest")
      /\ analysed = s
      /\ s \in Good
      /\ \A t \in trials : t.session # s
      /\ trials' = trials \cup {[session |-> s, analysed |-> analysed]}
      /\ UNCHANGED inferenceFile

-----------------------------------------------------------------------------
(* The continuations of the handlers.                                      *)

\* Mutant: the gate opens for the current value of the field.
ContinueCurrent(h) ==
  LET done == handler[h]
      ok == done.phase = "succeeded"
  IN  /\ done # Free
      /\ done.phase # "running"
      /\ handler' = [handler EXCEPT ![h] = Free]
      /\ validationPassedFor' = (IF ok /\ done.job = "validate" THEN session
                                 ELSE validationPassedFor)
      /\ analysisPassedFor' = (IF ok /\ done.job = "analyze" THEN inference
                               ELSE analysisPassedFor)
      /\ UNCHANGED <<session, inference, inferenceFile, trials>>

\* runJobAndWait returns: the gate of the captured path opens.
Continue(h) ==
  LET done == handler[h]
      ok == done.phase = "succeeded"
  IN  /\ done # Free
      /\ done.phase # "running"
      /\ handler' = [handler EXCEPT ![h] = Free]
      /\ validationPassedFor' = (IF ok /\ done.job = "validate" THEN done.session
                                 ELSE validationPassedFor)
      /\ analysisPassedFor' = (IF ok /\ done.job = "analyze" THEN done.inference
                               ELSE analysisPassedFor)
      /\ UNCHANGED <<session, inference, inferenceFile, trials>>

\* A poll fails: the handler throws, its job runs on.
PollFails(h) ==
  /\ handler[h].polling
  /\ handler' = [handler EXCEPT ![h] =
       IF @.phase = "running" THEN [@ EXCEPT !.polling = FALSE] ELSE Free]
  /\ UNCHANGED <<session, inference, gates, inferenceFile, trials>>

ConsoleNext ==
  \/ \E s \in Sessions \cup {None} : EditSession(s)
  \/ \E i \in Inferences \cup {None} : EditInference(i)
  \/ \E s \in Sessions, i \in Inferences : Stage(s, i)
  \/ Reload
  \/ \E h \in Handlers :
       \/ ClickValidate(h) \/ ClickAnalyze(h) \/ ClickIngest(h)
       \/ JobFails(h) \/ ValidateSucceeds(h) \/ AnalyzeSucceeds(h) \/ IngestSucceeds(h)
       \/ Continue(h) \/ PollFails(h)

ConsoleSpec == ConsoleInit /\ [][ConsoleNext]_consoleVars

-----------------------------------------------------------------------------
(* Safety.                                                                 *)

Running(job) == {h \in Handlers : handler[h].job = job}

\* No session that fails validation is ever analysed, or has its inference
\* offered for ingestion, however clicks, edits and answers interleave.
OnlyGoodSessionsAreAnalysed ==
  /\ \A h \in Running("analyze") \cup Running("ingest") : handler[h].session \in Good
  /\ \A i \in Inferences : inferenceFile[i] \in Good \cup {None}

=============================================================================
