--------------------------- MODULE PlatformRuntime ---------------------------
(***************************************************************************)
(* The research runtime's job runs (ruthless_pipeline/platform_runtime.py):*)
(* a request handler inserts a record, every run gets a daemon thread that *)
(* starts a child process, waits for it and records how it ended.  Records *)
(* live in memory under one lock and are mirrored to a status.json per     *)
(* run.  A mirror write may raise, and the server may die at any moment;   *)
(* child processes outlive it, records and threads do not.                 *)
(***************************************************************************)
EXTENDS Naturals

CONSTANTS
  Runs,       \* run ids
  NoRun,      \* the lock is free
  MaxFaults,  \* bound: how many operating system calls may raise
  MaxCrashes  \* bound: how often the server dies

ASSUME RuntimeAssumption ==
  /\ NoRun \notin Runs
  /\ MaxFaults \in Nat
  /\ MaxCrashes \in Nat

VARIABLES
  up,       \* the server process is alive
  lock,     \* the run whose locked section is being executed, or NoRun
  record,   \* the status in _RUNS, "absent" without a record
  disk,     \* the status in runs/<id>/status.json
  thread,   \* where the run's launch, then its thread, is
  job,      \* the run's child process
  faults,   \* how many calls have raised
  crashes   \* how often the server has died

vars == <<up, lock, record, disk, thread, job, faults, crashes>>

Terminal == {"succeeded", "failed"}
Status == {"absent", "queued", "running"} \cup Terminal
Exited == {"exit0", "exit1"}

\* Sections that hold the lock: the record is updated, the mirror is not.
Writing == {"queueing", "beginning", "closing", "marking"}
Thread == {"none", "unstarted", "ready", "spawning", "waiting", "finishing",
           "handling", "failing", "done", "dead"} \cup Writing

TypeOK ==
  /\ up \in BOOLEAN
  /\ lock \in Runs \cup {NoRun}
  /\ record \in [Runs -> Status]
  /\ disk \in [Runs -> Status \cup {"torn"}]
  /\ thread \in [Runs -> Thread]
  /\ job \in [Runs -> {"none", "live"} \cup Exited]
  /\ faults \in Nat
  /\ crashes \in Nat

Init ==
  /\ up = FALSE
  /\ lock = NoRun
  /\ record = [r \in Runs |-> "absent"]
  /\ disk = [r \in Runs |-> "absent"]
  /\ thread = [r \in Runs |-> "none"]
  /\ job = [r \in Runs |-> "none"]
  /\ faults = 0
  /\ crashes = 0

-----------------------------------------------------------------------------
Goto(r, from, to) ==
  /\ thread[r] = from
  /\ thread' = [thread EXCEPT ![r] = to]

\* `with _RUNS_LOCK:` up to the mirror write.
Update(r, from, to, status) ==
  /\ lock = NoRun
  /\ lock' = r
  /\ Goto(r, from, to)
  /\ record' = [record EXCEPT ![r] = status]
  /\ UNCHANGED <<up, disk, job, faults, crashes>>

Fault ==
  /\ faults < MaxFaults
  /\ faults' = faults + 1

\* Mutant: the lock is not released.
WriteStatusHoldingLock(r, from, to, onError) ==
  /\ Goto(r, from, to)
  /\ disk' = [disk EXCEPT ![r] = record[r]]
  /\ UNCHANGED <<up, lock, record, job, faults, crashes>>

\* _write_status and the end of the section.  A write that raises may have
\* done nothing, truncated the file, or written all of it; the exception
\* takes the caller to "onError".
WriteStatus(r, from, to, onError) ==
  /\ lock' = NoRun
  /\ \/ /\ Goto(r, from, to)
        /\ disk' = [disk EXCEPT ![r] = record[r]]
        /\ UNCHANGED faults
     \/ /\ Goto(r, from, onError)
        /\ Fault
        /\ \E left \in {disk[r], record[r], "torn"} : disk' = [disk EXCEPT ![r] = left]
  /\ UNCHANGED <<up, record, job, crashes>>

-----------------------------------------------------------------------------
(* launch_job.  A mirror write that raises leaves the record queued and    *)
(* starts no thread.                                                       *)

Launch(r) ==
  /\ up
  /\ record[r] = "absent"
  /\ Update(r, "none", "queueing", "queued")

WriteQueued(r) == WriteStatus(r, "queueing", "unstarted", "dead")

StartThread(r) ==
  /\ Goto(r, "unstarted", "ready")
  /\ UNCHANGED <<up, lock, record, disk, job, faults, crashes>>

(* _execute_run.  The first section is outside the try, the last one is    *)
(* inside its handler: an exception in either ends the thread.             *)

Begin(r) == Update(r, "ready", "beginning", "running")

WriteRunning(r) == WriteStatus(r, "beginning", "spawning", "dead")

\* Opening run.log and Popen; either may raise.
Spawn(r) ==
  /\ \/ /\ Goto(r, "spawning", "waiting")
        /\ job' = [job EXCEPT ![r] = "live"]
        /\ UNCHANGED faults
     \/ /\ Goto(r, "spawning", "handling")
        /\ Fault
        /\ UNCHANGED job
  /\ UNCHANGED <<up, lock, record, disk, crashes>>

\* The child process ends, whether or not its server is still there.
JobExit(r, how) ==
  /\ job[r] = "live"
  /\ job' = [job EXCEPT ![r] = how]
  /\ UNCHANGED <<up, lock, record, disk, thread, faults, crashes>>

\* Mutants: only success is waited for; the wait times out.
WaitForSuccess(r) ==
  /\ job[r] = "exit0"
  /\ Goto(r, "waiting", "finishing")
  /\ UNCHANGED <<up, lock, record, disk, job, faults, crashes>>

WaitTimesOut(r) ==
  /\ Goto(r, "waiting", "finishing")
  /\ UNCHANGED <<up, lock, record, disk, job, faults, crashes>>

Wait(r) ==
  /\ job[r] \in Exited
  /\ Goto(r, "waiting", "finishing")
  /\ UNCHANGED <<up, lock, record, disk, job, faults, crashes>>

Finish(r) ==
  Update(r, "finishing", "closing", IF job[r] = "exit0" THEN "succeeded" ELSE "failed")

\* Mutant: a write that raises is swallowed.
WriteFinalSilently(r) == WriteStatus(r, "closing", "done", "done")

WriteFinal(r) == WriteStatus(r, "closing", "done", "handling")

\* The handler first appends to run.log, which may raise as well.
Handle(r) ==
  /\ \/ /\ Goto(r, "handling", "failing")
        /\ UNCHANGED faults
     \/ /\ Goto(r, "handling", "dead")
        /\ Fault
  /\ UNCHANGED <<up, lock, record, disk, job, crashes>>

Fail(r) == Update(r, "failing", "marking", "failed")

\* Mutant: when the write raises the end of the run is recorded once more.
WriteFailedAgain(r) == WriteStatus(r, "marking", "done", "finishing")

WriteFailed(r) == WriteStatus(r, "marking", "done", "dead")

-----------------------------------------------------------------------------
(* The server.  serve() reads nothing back from the runs directory.        *)

Serve ==
  /\ ~up
  /\ up' = TRUE
  /\ UNCHANGED <<lock, record, disk, thread, job, faults, crashes>>

Crash ==
  /\ up
  /\ crashes < MaxCrashes
  /\ crashes' = crashes + 1
  /\ up' = FALSE
  /\ lock' = NoRun
  /\ record' = [r \in Runs |-> "absent"]
  /\ thread' = [r \in Runs |-> IF thread[r] = "none" THEN "none" ELSE "dead"]
  /\ \/ UNCHANGED disk
     \/ /\ lock # NoRun
        /\ disk' = [disk EXCEPT ![lock] = "torn"]
  /\ UNCHANGED <<job, faults>>

ThreadStep(r) ==
  \/ WriteQueued(r) \/ StartThread(r)
  \/ Begin(r) \/ WriteRunning(r)
  \/ Spawn(r) \/ Wait(r)
  \/ Finish(r) \/ WriteFinal(r)
  \/ Handle(r) \/ Fail(r) \/ WriteFailed(r)

Next ==
  \/ Serve
  \/ Crash
  \/ \E r \in Runs : Launch(r) \/ ThreadStep(r) \/ \E how \in Exited : JobExit(r, how)

\* The operating system schedules every thread.  Each run passes through the
\* lock a bounded number of times, so none is shut out for ever.  Nothing
\* makes a child process end, a client launch a job, or the server die.
Spec == Init /\ [][Next]_vars /\ \A r \in Runs : WF_vars(ThreadStep(r))

-----------------------------------------------------------------------------
(* Safety.                                                                 *)

\* A run is only ever reported as succeeded, in memory or in its status file,
\* when its child process ended with exit code 0.
SucceededMeansExitZero ==
  \A r \in Runs : "succeeded" \in {record[r], disk[r]} => job[r] = "exit0"

\* A thread that has run to its end leaves the status file and the record
\* saying the same, and it is a final status.
SettledRunsAgree ==
  \A r \in Runs : thread[r] = "done" => /\ record[r] \in Terminal
                                        /\ disk[r] = record[r]

\* While a run's child process is alive no one reads that the run has ended:
\* a client that stops polling at a final status never leaves a job behind.
FinalMeansNoLiveJob ==
  \A r \in Runs : {record[r], disk[r]} \cap Terminal # {} => job[r] # "live"

\* A run that was reported as failed is never reported as anything better,
\* and one that succeeded can only become failed or unreadable.
FinalStatusNeverImproves ==
  [][\A r \in Runs :
       /\ disk[r] = "failed" => disk'[r] \in {"failed", "torn"}
       /\ disk[r] = "succeeded" => disk'[r] \in {"succeeded", "failed", "torn"}]_disk

(* Liveness.                                                               *)

\* A launched run reaches its child process or a final status, and is not left
\* queued behind the lock, whatever happens to other runs; only the loss of its
\* own thread (a write of its own that raised, the server's death) excuses it.
LaunchedRunsGetGoing ==
  \A r \in Runs :
    record[r] = "queued" ~> job[r] = "live" \/ record[r] \in Terminal \/ thread[r] = "dead"

\* When the child process has ended the run gets a final status that is on
\* disk too, a write that raises on the way included, unless its thread is lost.
EndedJobsSettle ==
  \A r \in Runs :
    job[r] \in Exited
      ~> (record[r] \in Terminal /\ disk[r] = record[r]) \/ thread[r] = "dead"
=============================================================================
