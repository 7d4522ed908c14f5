----------------------- MODULE PlatformRuntime_proofs -----------------------
(***************************************************************************)
(* Proofs about PlatformRuntime for every set of runs and any number of    *)
(* faults and crashes.                                                     *)
(*                                                                         *)
(* A run's record, status file and thread are only written by the run's    *)
(* own thread (and by a crash), so the invariant speaks of one run at a    *)
(* time: it says, for each place of the thread, what the child process may *)
(* be doing and which statuses may have been published.                    *)
(***************************************************************************)
EXTENDS PlatformRuntime, ConsoleWorkflow, TLAPS

\* The thread has not reached Popen.
Early == {"none", "queueing", "unstarted", "ready", "beginning", "spawning"}

\* The child process has ended, or was never started.
Late == {"finishing", "closing", "handling", "failing", "marking", "done"}

RunInv(r) ==
  /\ record[r] = "succeeded" => job[r] = "exit0"
  /\ disk[r] = "succeeded" => job[r] = "exit0"
  /\ job[r] = "live" => record[r] \notin Terminal /\ disk[r] \notin Terminal
  /\ thread[r] \in Early => job[r] = "none"
  /\ thread[r] \in Early \cup {"waiting"} => record[r] \notin Terminal
  /\ thread[r] \in Early \cup {"waiting", "finishing", "closing"} => disk[r] \notin Terminal
  /\ thread[r] \in Late => job[r] # "live"
  /\ thread[r] \in {"finishing", "closing"} => job[r] \in Exited
  /\ thread[r] \in {"closing", "marking", "done"} => record[r] \in Terminal
  /\ thread[r] = "marking" => record[r] = "failed"
  /\ thread[r] = "done" => disk[r] = record[r]

Inv == TypeOK /\ \A r \in Runs : RunInv(r)

-----------------------------------------------------------------------------
\* A step that is about one run leaves the others as they were.
SameRun(r) ==
  /\ record'[r] = record[r]
  /\ disk'[r] = disk[r]
  /\ thread'[r] = thread[r]
  /\ job'[r] = job[r]

\* The invariant of a run is about that run only.
LEMMA SameRunKeepsInv ==
  ASSUME NEW r, SameRun(r), RunInv(r)
  PROVE  RunInv(r)'
  BY DEF SameRun, RunInv

\* What a locked section up to the write, and the write, do to the types.
LEMMA UpdateTypes ==
  ASSUME TypeOK, NEW r \in Runs, NEW from, NEW to \in Thread, NEW status \in Status,
         Update(r, from, to, status)
  PROVE  TypeOK'
  BY DEF TypeOK, Update, Goto, Status, Thread, Writing

LEMMA WriteTypes ==
  ASSUME TypeOK, NEW r \in Runs, NEW from, NEW to \in Thread, NEW onError \in Thread,
         WriteStatus(r, from, to, onError)
  PROVE  TypeOK'
  <1>1. /\ lock' = NoRun
        /\ record' = record /\ up' = up /\ job' = job /\ crashes' = crashes
    BY DEF WriteStatus
  <1>2. thread' \in [Runs -> Thread]
    BY DEF WriteStatus, Goto, TypeOK
  <1>3. disk' \in [Runs -> Status \cup {"torn"}]
    BY DEF WriteStatus, TypeOK
  <1>4. faults' \in Nat
    BY DEF WriteStatus, TypeOK, Fault
  <1> QED BY <1>1, <1>2, <1>3, <1>4 DEF TypeOK

\* A section's update and its write concern one run.
LEMMA OtherRuns ==
  ASSUME TypeOK, NEW r \in Runs, NEW q \in Runs \ {r}, NEW from, NEW to, NEW status, NEW onError,
         \/ Update(r, from, to, status)
         \/ WriteStatus(r, from, to, onError)
  PROVE  SameRun(q)
  BY DEF TypeOK, Update, WriteStatus, Goto, SameRun

-----------------------------------------------------------------------------
(* Every step of a run's thread or child process keeps Inv.                *)

\* To keep Inv, a step about one run has to keep that run's invariant.
LEMMA OneRun ==
  ASSUME Inv, TypeOK', NEW r \in Runs, RunInv(r)',
         \A q \in Runs \ {r} : SameRun(q)
  PROVE  Inv'
  BY SameRunKeepsInv DEF Inv

\* Launching, beginning, finishing and failing: the record moves.
LEMMA UpdateKeepsInv ==
  ASSUME Inv, NEW r \in Runs, Launch(r) \/ Begin(r) \/ Finish(r) \/ Fail(r)
  PROVE  Inv'
  <1>1. CASE Launch(r)
    <2>1. Update(r, "none", "queueing", "queued")
      BY <1>1 DEF Launch
    <2>2. TypeOK' /\ \A q \in Runs \ {r} : SameRun(q)
      BY <2>1, UpdateTypes, OtherRuns DEF Inv, Status, Thread, Writing
    <2>3. RunInv(r)'
      BY <2>1 DEF Inv, RunInv, TypeOK, Update, Goto, Terminal, Early, Late, Exited
    <2> QED BY <2>2, <2>3, OneRun
  <1>2. CASE Begin(r)
    <2>1. Update(r, "ready", "beginning", "running")
      BY <1>2 DEF Begin
    <2>2. TypeOK' /\ \A q \in Runs \ {r} : SameRun(q)
      BY <2>1, UpdateTypes, OtherRuns DEF Inv, Status, Thread, Writing
    <2>3. RunInv(r)'
      BY <2>1 DEF Inv, RunInv, TypeOK, Update, Goto, Terminal, Early, Late, Exited
    <2> QED BY <2>2, <2>3, OneRun
  <1>3. CASE Finish(r)
    <2> DEFINE final == IF job[r] = "exit0" THEN "succeeded" ELSE "failed"
    <2>1. Update(r, "finishing", "closing", final)
      BY <1>3 DEF Finish
    <2>2. TypeOK' /\ \A q \in Runs \ {r} : SameRun(q)
      BY <2>1, UpdateTypes, OtherRuns DEF Inv, Status, Thread, Writing, Terminal
    <2>3. RunInv(r)'
      BY <2>1 DEF Inv, RunInv, TypeOK, Update, Goto, Terminal, Early, Late, Exited
    <2> QED BY <2>2, <2>3, OneRun
  <1>4. CASE Fail(r)
    <2>1. Update(r, "failing", "marking", "failed")
      BY <1>4 DEF Fail
    <2>2. TypeOK' /\ \A q \in Runs \ {r} : SameRun(q)
      BY <2>1, UpdateTypes, OtherRuns DEF Inv, Status, Thread, Writing, Terminal
    <2>3. RunInv(r)'
      BY <2>1 DEF Inv, RunInv, TypeOK, Update, Goto, Terminal, Early, Late, Exited
    <2> QED BY <2>2, <2>3, OneRun
  <1> QED BY <1>1, <1>2, <1>3, <1>4

\* The four mirror writes, complete, or raising with the file torn or not.
LEMMA WriteKeepsInv ==
  ASSUME Inv, NEW r \in Runs,
         WriteQueued(r) \/ WriteRunning(r) \/ WriteFinal(r) \/ WriteFailed(r)
  PROVE  Inv'
  <1>1. CASE WriteQueued(r)
    <2>1. WriteStatus(r, "queueing", "unstarted", "dead")
      BY <1>1 DEF WriteQueued
    <2>2. TypeOK' /\ \A q \in Runs \ {r} : SameRun(q)
      BY <2>1, WriteTypes, OtherRuns DEF Inv, Thread, Writing
    <2>3. RunInv(r)'
      BY <2>1 DEF Inv, RunInv, TypeOK, WriteStatus, Goto, Terminal, Early, Late, Exited
    <2> QED BY <2>2, <2>3, OneRun
  <1>2. CASE WriteRunning(r)
    <2>1. WriteStatus(r, "beginning", "spawning", "dead")
      BY <1>2 DEF WriteRunning
    <2>2. TypeOK' /\ \A q \in Runs \ {r} : SameRun(q)
      BY <2>1, WriteTypes, OtherRuns DEF Inv, Thread, Writing
    <2>3. RunInv(r)'
      BY <2>1 DEF Inv, RunInv, TypeOK, WriteStatus, Goto, Terminal, Early, Late, Exited
    <2> QED BY <2>2, <2>3, OneRun
  <1>3. CASE WriteFinal(r)
    <2>1. WriteStatus(r, "closing", "done", "handling")
      BY <1>3 DEF WriteFinal
    <2>2. TypeOK' /\ \A q \in Runs \ {r} : SameRun(q)
      BY <2>1, WriteTypes, OtherRuns DEF Inv, Thread, Writing
    <2>3. RunInv(r)'
      BY <2>1 DEF Inv, RunInv, TypeOK, WriteStatus, Goto, Terminal, Early, Late, Exited
    <2> QED BY <2>2, <2>3, OneRun
  <1>4. CASE WriteFailed(r)
    <2>1. WriteStatus(r, "marking", "done", "dead")
      BY <1>4 DEF WriteFailed
    <2>2. TypeOK' /\ \A q \in Runs \ {r} : SameRun(q)
      BY <2>1, WriteTypes, OtherRuns DEF Inv, Thread, Writing
    <2>3. RunInv(r)'
      BY <2>1 DEF Inv, RunInv, TypeOK, WriteStatus, Goto, Terminal, Early, Late, Exited
    <2> QED BY <2>2, <2>3, OneRun
  <1> QED BY <1>1, <1>2, <1>3, <1>4

\* The steps outside the lock.
LEMMA UnlockedKeepsInv ==
  ASSUME Inv, NEW r \in Runs, NEW how \in Exited,
         StartThread(r) \/ Spawn(r) \/ Wait(r) \/ Handle(r) \/ JobExit(r, how)
  PROVE  Inv'
  <1> DEFINE others == \A q \in Runs \ {r} : SameRun(q)
  <1>1. CASE StartThread(r)
    <2>1. TypeOK' /\ others
      BY <1>1 DEF Inv, TypeOK, StartThread, Goto, Thread, SameRun
    <2>2. RunInv(r)'
      BY <1>1 DEF Inv, RunInv, TypeOK, StartThread, Goto, Early, Late
    <2> QED BY <2>1, <2>2, OneRun
  <1>2. CASE Spawn(r)
    <2>1. TypeOK' /\ others
      BY <1>2 DEF Inv, TypeOK, Spawn, Goto, Fault, Thread, SameRun
    <2>2. RunInv(r)'
      BY <1>2 DEF Inv, RunInv, TypeOK, Spawn, Goto, Early, Late, Exited, Terminal
    <2> QED BY <2>1, <2>2, OneRun
  <1>3. CASE Wait(r)
    <2>1. TypeOK' /\ others
      BY <1>3 DEF Inv, TypeOK, Wait, Goto, Thread, SameRun
    <2>2. RunInv(r)'
      BY <1>3 DEF Inv, RunInv, TypeOK, Wait, Goto, Early, Late, Exited
    <2> QED BY <2>1, <2>2, OneRun
  <1>4. CASE Handle(r)
    <2>1. TypeOK' /\ others
      BY <1>4 DEF Inv, TypeOK, Handle, Goto, Fault, Thread, SameRun
    <2>2. RunInv(r)'
      BY <1>4 DEF Inv, RunInv, TypeOK, Handle, Goto, Early, Late
    <2> QED BY <2>1, <2>2, OneRun
  <1>5. CASE JobExit(r, how)
    <2>1. TypeOK' /\ others
      BY <1>5 DEF Inv, TypeOK, JobExit, Exited, SameRun
    <2>2. RunInv(r)'
      BY <1>5 DEF Inv, RunInv, TypeOK, JobExit, Exited, Early, Late, Terminal
    <2> QED BY <2>1, <2>2, OneRun
  <1> QED BY <1>1, <1>2, <1>3, <1>4, <1>5

\* A crash forgets every record and thread, and may tear one file.
LEMMA CrashKeepsInv == Inv /\ Crash => Inv'
  <1> SUFFICES ASSUME Inv, Crash PROVE Inv'
    OBVIOUS
  <1>1. TypeOK'
    <2>1. record' \in [Runs -> Status] /\ thread' \in [Runs -> Thread]
      BY DEF Inv, TypeOK, Crash, Status, Thread
    <2>2. disk' \in [Runs -> Status \cup {"torn"}]
      BY DEF Inv, TypeOK, Crash
    <2>3. lock' \in Runs \cup {NoRun} /\ crashes' \in Nat
      BY DEF Inv, TypeOK, Crash
    <2>4. up' \in BOOLEAN /\ job' = job /\ faults' = faults
      BY DEF Crash
    <2> QED BY <2>1, <2>2, <2>3, <2>4 DEF Inv, TypeOK
  <1>2. ASSUME NEW r \in Runs PROVE RunInv(r)'
    <2>1. /\ record'[r] = "absent" /\ thread'[r] \in {"none", "dead"} /\ job' = job
          /\ thread'[r] = "none" => thread[r] = "none"
          /\ disk'[r] \in {disk[r], "torn"}
      BY DEF Inv, TypeOK, Crash
    <2> QED BY <2>1 DEF Inv, RunInv, Terminal, Early, Late
  <1> QED BY <1>1, <1>2 DEF Inv

-----------------------------------------------------------------------------
(* The theorems.                                                           *)

\* Before the first server no run exists.
LEMMA InitInv == Init => Inv
  <1> SUFFICES ASSUME Init PROVE Inv
    OBVIOUS
  <1>1. TypeOK
    BY DEF Init, TypeOK, Status, Thread
  <1>2. ASSUME NEW r \in Runs PROVE RunInv(r)
    BY DEF Init, RunInv, Terminal, Early, Late
  <1> QED BY <1>1, <1>2 DEF Inv

\* Each action keeps the invariant.
LEMMA NextInv == Inv /\ [Next]_vars => Inv'
  <1> SUFFICES ASSUME Inv, [Next]_vars PROVE Inv'
    OBVIOUS
  <1>1. CASE Serve
    BY <1>1 DEF Serve, Inv, TypeOK, RunInv
  <1>2. CASE Crash
    BY <1>2, CrashKeepsInv
  <1>3. CASE \E r \in Runs : Launch(r) \/ ThreadStep(r) \/ \E how \in Exited : JobExit(r, how)
    <2>1. PICK r \in Runs : Launch(r) \/ ThreadStep(r) \/ \E how \in Exited : JobExit(r, how)
      BY <1>3
    <2>2. CASE Launch(r) \/ Begin(r) \/ Finish(r) \/ Fail(r)
      BY <2>2, UpdateKeepsInv
    <2>3. CASE WriteQueued(r) \/ WriteRunning(r) \/ WriteFinal(r) \/ WriteFailed(r)
      BY <2>3, WriteKeepsInv
    <2>4. CASE StartThread(r) \/ Spawn(r) \/ Wait(r) \/ Handle(r)
      BY <2>4, UnlockedKeepsInv DEF Exited
    <2>5. CASE \E how \in Exited : JobExit(r, how)
      BY <2>5, UnlockedKeepsInv
    <2> QED BY <2>1, <2>2, <2>3, <2>4, <2>5 DEF ThreadStep
  <1>4. CASE UNCHANGED vars
    BY <1>4 DEF vars, Inv, TypeOK, RunInv
  <1> QED BY <1>1, <1>2, <1>3, <1>4 DEF Next

\* The invariant holds in every reachable state.
THEOREM Invariance == Spec => []Inv
  BY InitInv, NextInv, PTL DEF Spec

\* The types of the runtime's state hold for ever.
THEOREM TypeCorrect == Spec => []TypeOK
  <1>1. Inv => TypeOK
    BY DEF Inv
  <1> QED BY <1>1, Invariance, PTL

\* A run reported as succeeded did exit with code 0, through any faults and
\* crashes of the server.
THEOREM SuccessIsGenuine == Spec => []SucceededMeansExitZero
  <1>1. Inv => SucceededMeansExitZero
    BY DEF Inv, RunInv, SucceededMeansExitZero
  <1> QED BY <1>1, Invariance, PTL

\* A final status is never published while the child process is alive.
THEOREM FinalIsFinal == Spec => []FinalMeansNoLiveJob
  <1>1. Inv => FinalMeansNoLiveJob
    BY DEF Inv, RunInv, FinalMeansNoLiveJob
  <1> QED BY <1>1, Invariance, PTL

\* A thread that reached its end has left memory and disk agreeing.
THEOREM Agreement == Spec => []SettledRunsAgree
  <1>1. Inv => SettledRunsAgree
    BY DEF Inv, RunInv, SettledRunsAgree
  <1> QED BY <1>1, Invariance, PTL

-----------------------------------------------------------------------------
(* After the end of a run.                                                 *)

\* The lock is only held by a run in the middle of a locked section.
LockHeld == lock # NoRun => thread[lock] \in Writing

\* A step of a run that is not in a locked section cannot free the lock's
\* holder of its section.
LEMMA MoveKeepsLock ==
  ASSUME TypeOK, LockHeld, NEW r \in Runs, NEW from, NEW to, from \notin Writing,
         Goto(r, from, to), lock' = lock
  PROVE  LockHeld'
  BY DEF TypeOK, LockHeld, Goto

LEMMA UpdateTakesLock ==
  ASSUME TypeOK, NEW r \in Runs, NEW from, NEW to \in Writing, NEW status,
         Update(r, from, to, status)
  PROVE  LockHeld'
  BY DEF TypeOK, LockHeld, Update, Goto

LEMMA LockNext == TypeOK /\ LockHeld /\ [Next]_vars => LockHeld'
  <1> SUFFICES ASSUME TypeOK, LockHeld, [Next]_vars PROVE LockHeld'
    OBVIOUS
  <1>1. CASE Serve
    BY <1>1 DEF Serve, LockHeld
  <1>2. CASE Crash
    BY <1>2 DEF Crash, LockHeld
  <1>3. ASSUME NEW r \in Runs, Launch(r) PROVE LockHeld'
    BY <1>3, UpdateTakesLock DEF Launch, Writing
  <1>4. ASSUME NEW r \in Runs, Begin(r) \/ Finish(r) \/ Fail(r) PROVE LockHeld'
    BY <1>4, UpdateTakesLock DEF Begin, Finish, Fail, Writing
  <1>5. ASSUME NEW r \in Runs, WriteQueued(r) \/ WriteRunning(r) \/ WriteFinal(r) \/ WriteFailed(r)
        PROVE  LockHeld'
    <2>1. lock' = NoRun
      BY <1>5 DEF WriteQueued, WriteRunning, WriteFinal, WriteFailed, WriteStatus
    <2>. QED BY <2>1 DEF LockHeld
  <1>6. ASSUME NEW r \in Runs, StartThread(r) \/ Spawn(r) \/ Wait(r) \/ Handle(r)
        PROVE  LockHeld'
    <2>1. lock' = lock
      BY <1>6 DEF StartThread, Spawn, Wait, Handle
    <2>2. \E from, to : from \notin Writing /\ Goto(r, from, to)
      BY <1>6 DEF StartThread, Spawn, Wait, Handle, Writing
    <2>. QED BY <2>1, <2>2, MoveKeepsLock
  <1>7. ASSUME NEW r \in Runs, NEW how \in Exited, JobExit(r, how) PROVE LockHeld'
    BY <1>7 DEF JobExit, LockHeld
  <1>8. CASE UNCHANGED vars
    BY <1>8 DEF vars, LockHeld
  <1>. QED BY <1>1, <1>2, <1>3, <1>4, <1>5, <1>6, <1>7, <1>8 DEF Next, ThreadStep

LEMMA LockDiscipline == Spec => []LockHeld
  <1>1. Init => LockHeld
    BY DEF Init, LockHeld
  <1>. QED BY <1>1, LockNext, TypeCorrect, PTL DEF Spec

\* What a step can do to one run's status file: nothing, tear it, or write
\* the record's status from a locked section.
LEMMA FileStep ==
  ASSUME Inv, LockHeld, [Next]_vars, NEW r \in Runs
  PROVE  \/ disk'[r] = disk[r]
         \/ thread[r] \in Writing /\ disk'[r] \in {record[r], "torn"}
  <1>1. ASSUME NEW q \in Runs, NEW from \in Writing, NEW to, NEW onError,
               WriteStatus(q, from, to, onError)
        PROVE  disk'[r] = disk[r] \/ (thread[r] \in Writing /\ disk'[r] \in {record[r], "torn"})
    BY <1>1 DEF WriteStatus, Goto, Inv, TypeOK
  <1>2. ASSUME NEW q \in Runs,
               WriteQueued(q) \/ WriteRunning(q) \/ WriteFinal(q) \/ WriteFailed(q)
        PROVE  disk'[r] = disk[r] \/ (thread[r] \in Writing /\ disk'[r] \in {record[r], "torn"})
    BY <1>2, <1>1 DEF WriteQueued, WriteRunning, WriteFinal, WriteFailed, Writing
  <1>3. CASE Crash
    BY <1>3 DEF Crash, LockHeld, Inv, TypeOK
  <1>4. CASE Serve \/ UNCHANGED vars
    BY <1>4 DEF Serve, vars
  <1>5. ASSUME NEW q \in Runs, NEW how \in Exited,
               \/ Launch(q) \/ StartThread(q) \/ Begin(q) \/ Spawn(q) \/ Wait(q)
               \/ Finish(q) \/ Handle(q) \/ Fail(q) \/ JobExit(q, how)
        PROVE  disk' = disk
    BY <1>5 DEF Launch, StartThread, Begin, Spawn, Wait, Finish, Handle, Fail, JobExit, Update
  <1>. QED BY <1>2, <1>3, <1>4, <1>5 DEF Next, ThreadStep, Exited

\* A published final status never gets better.
THEOREM NeverImproves == Spec => FinalStatusNeverImproves
  <1>1. Inv /\ LockHeld /\ [Next]_vars
        => [\A r \in Runs :
              /\ disk[r] = "failed" => disk'[r] \in {"failed", "torn"}
              /\ disk[r] = "succeeded" => disk'[r] \in {"succeeded", "failed", "torn"}]_disk
    <2> SUFFICES ASSUME Inv, LockHeld, [Next]_vars, NEW r \in Runs
                 PROVE  /\ disk[r] = "failed" => disk'[r] \in {"failed", "torn"}
                        /\ disk[r] = "succeeded" => disk'[r] \in {"succeeded", "failed", "torn"}
      OBVIOUS
    <2>1. disk[r] \in Terminal /\ thread[r] \in Writing => record[r] = "failed"
      BY DEF Inv, RunInv, Writing, Early
    <2>. QED BY <2>1, FileStep DEF Terminal
  <1>. QED BY <1>1, Invariance, LockDiscipline, PTL DEF Spec, FinalStatusNeverImproves

-----------------------------------------------------------------------------
(* The console that launches the jobs (ConsoleWorkflow), for every set of   *)
(* sessions, inference paths and pending click handlers.                    *)
(*                                                                          *)
(* What a gate remembers and what a handler captured may be out of date,    *)
(* but both are facts about a path: a session that passed validation passed *)
(* it whenever the answer arrives.  The invariant says so of the gate, of   *)
(* every handler and of every file written on their behalf.                 *)

\* A handler only works on a session that validation accepted, unless it is
\* a validation that has not succeeded.
Vouched(w) ==
  /\ w.job \in {"analyze", "ingest"} => w.session \in Good
  /\ w.job = "validate" /\ w.phase = "succeeded" => w.session \in Good

ConsoleInv ==
  /\ ConsoleTypeOK
  /\ validationPassedFor \in Good \cup {None}
  /\ \A h \in Handlers : Vouched(handler[h])
  /\ \A i \in Inferences : inferenceFile[i] \in Good \cup {None}

-----------------------------------------------------------------------------
\* Replacing one handler by a vouched one keeps all of them vouched.
LEMMA OneHandler ==
  ASSUME handler \in [Handlers -> Handler], \A h \in Handlers : Vouched(handler[h]),
         NEW h \in Handlers, NEW w \in Handler, Vouched(w),
         handler' = [handler EXCEPT ![h] = w]
  PROVE  /\ handler' \in [Handlers -> Handler]
         /\ \A g \in Handlers : Vouched(handler'[g])
  OBVIOUS

LEMMA FreeHandler == Free \in Handler /\ Vouched(Free)
  <1>1. FALSE \in BOOLEAN
    OBVIOUS
  <1>. QED BY <1>1 DEF Free, Handler, Job, Phase, Vouched

\* Starting a job on a vouched session, or a validation on any.
LEMMA LaunchVouched ==
  ASSUME ConsoleInv, NEW h \in Handlers, NEW kind \in Job, LaunchJob(h, kind),
         kind \in {"analyze", "ingest"} => session \in Good
  PROVE  /\ handler' \in [Handlers -> Handler]
         /\ \A g \in Handlers : Vouched(handler'[g])
  <1> DEFINE w == [job |-> kind, session |-> session, inference |-> inference,
                   phase |-> "running", polling |-> TRUE]
  <1>1. TRUE \in BOOLEAN
    OBVIOUS
  <1>2. w \in Handler
    BY <1>1 DEF ConsoleInv, ConsoleTypeOK, Handler, Phase
  <1>3. Vouched(w)
    BY DEF Vouched
  <1>4. handler' = [handler EXCEPT ![h] = w]
    BY DEF LaunchJob
  <1> HIDE DEF w
  <1>. QED BY <1>2, <1>3, <1>4, OneHandler DEF ConsoleInv, ConsoleTypeOK

\* The end of a job; only a validation of a good session may succeed.
LEMMA EndVouched ==
  ASSUME ConsoleInv, NEW h \in Handlers, NEW phase \in Phase, End(h, phase),
         handler[h].job = "validate" /\ phase = "succeeded" => handler[h].session \in Good
  PROVE  /\ handler' \in [Handlers -> Handler]
         /\ \A g \in Handlers : Vouched(handler'[g])
  <1> DEFINE ended == [handler[h] EXCEPT !.phase = phase]
             w == IF handler[h].polling THEN ended ELSE Free
  <1>1. handler[h] \in Handler /\ Vouched(handler[h]) /\ handler \in [Handlers -> Handler]
    BY DEF ConsoleInv, ConsoleTypeOK
  <1>2. ended \in Handler
    BY <1>1 DEF Handler
  <1>3. ended.job = handler[h].job /\ ended.session = handler[h].session /\ ended.phase = phase
    BY <1>1 DEF Handler
  <1>4. Vouched(ended)
    BY <1>1, <1>3 DEF Vouched
  <1>5. handler' = [handler EXCEPT ![h] = w]
    BY <1>1 DEF End
  <1> HIDE DEF ended
  <1>6. w \in Handler /\ Vouched(w)
    BY <1>2, <1>4, FreeHandler
  <1> HIDE DEF w
  <1>. QED BY <1>1, <1>5, <1>6, OneHandler DEF ConsoleInv

\* A handler whose poll fails, or whose page is gone, stops polling.
LEMMA UnpolledVouched ==
  ASSUME NEW w \in Handler, Vouched(w)
  PROVE  /\ [w EXCEPT !.polling = FALSE] \in Handler
         /\ Vouched([w EXCEPT !.polling = FALSE])
  <1>1. FALSE \in BOOLEAN
    OBVIOUS
  <1>2. [w EXCEPT !.polling = FALSE] \in Handler
    BY <1>1 DEF Handler
  <1>. QED BY <1>2 DEF Vouched, Handler

-----------------------------------------------------------------------------
LEMMA ConsoleInitInv == ConsoleInit => ConsoleInv
  <1> SUFFICES ASSUME ConsoleInit PROVE ConsoleInv
    OBVIOUS
  <1>1. handler \in [Handlers -> Handler] /\ \A h \in Handlers : Vouched(handler[h])
    BY FreeHandler DEF ConsoleInit
  <1>2. ConsoleTypeOK
    BY <1>1 DEF ConsoleInit, ConsoleTypeOK
  <1>. QED BY <1>1, <1>2 DEF ConsoleInit, ConsoleInv

\* The operator's actions: edits, staging, reloading and clicks.
LEMMA OperatorKeepsInv ==
  ASSUME ConsoleInv,
         \/ \E s \in Sessions \cup {None} : EditSession(s)
         \/ \E i \in Inferences \cup {None} : EditInference(i)
         \/ \E s \in Sessions, i \in Inferences : Stage(s, i)
         \/ Reload
         \/ \E h \in Handlers : ClickValidate(h) \/ ClickAnalyze(h) \/ ClickIngest(h)
  PROVE  ConsoleInv'
  <1>1. CASE \/ \E s \in Sessions \cup {None} : EditSession(s)
             \/ \E i \in Inferences \cup {None} : EditInference(i)
             \/ \E s \in Sessions, i \in Inferences : Stage(s, i)
    BY <1>1 DEF EditSession, EditInference, Stage, resetWorkflowGate, ConsoleInv, ConsoleTypeOK
  <1>2. CASE Reload
    <2> DEFINE w(h) == IF handler[h].phase = "running"
                       THEN [handler[h] EXCEPT !.polling = FALSE] ELSE Free
    <2>1. handler' = [h \in Handlers |-> w(h)]
      BY <1>2 DEF Reload
    <2>2. ASSUME NEW h \in Handlers PROVE w(h) \in Handler /\ Vouched(w(h))
      BY UnpolledVouched, FreeHandler DEF ConsoleInv, ConsoleTypeOK
    <2> HIDE DEF w
    <2>3. handler' \in [Handlers -> Handler] /\ \A h \in Handlers : Vouched(handler'[h])
      BY <2>1, <2>2
    <2>. QED BY <1>2, <2>3 DEF Reload, resetWorkflowGate, ConsoleInv, ConsoleTypeOK
  <1>3. ASSUME NEW h \in Handlers, ClickValidate(h) PROVE ConsoleInv'
    <2>1. handler' \in [Handlers -> Handler] /\ \A g \in Handlers : Vouched(handler'[g])
      BY <1>3, LaunchVouched DEF ClickValidate, Job
    <2>. QED BY <1>3, <2>1 DEF ClickValidate, resetWorkflowGate, ConsoleInv, ConsoleTypeOK
  <1>4. ASSUME NEW h \in Handlers, ClickAnalyze(h) PROVE ConsoleInv'
    <2>1. session \in Good
      BY <1>4 DEF ClickAnalyze, AnalyzeEnabled, ConsoleInv
    <2>2. handler' \in [Handlers -> Handler] /\ \A g \in Handlers : Vouched(handler'[g])
      BY <1>4, <2>1, LaunchVouched DEF ClickAnalyze, Job
    <2>. QED BY <1>4, <2>2 DEF ClickAnalyze, ConsoleInv, ConsoleTypeOK
  <1>5. ASSUME NEW h \in Handlers, ClickIngest(h) PROVE ConsoleInv'
    <2>1. session \in Good
      BY <1>5 DEF ClickIngest, IngestEnabled, ConsoleInv
    <2>2. handler' \in [Handlers -> Handler] /\ \A g \in Handlers : Vouched(handler'[g])
      BY <1>5, <2>1, LaunchVouched DEF ClickIngest, Job
    <2>. QED BY <1>5, <2>2 DEF ClickIngest, gates, ConsoleInv, ConsoleTypeOK
  <1>. QED BY <1>1, <1>2, <1>3, <1>4, <1>5

\* The jobs' ends, with what they write.
LEMMA JobKeepsInv ==
  ASSUME ConsoleInv, NEW h \in Handlers,
         JobFails(h) \/ ValidateSucceeds(h) \/ AnalyzeSucceeds(h) \/ IngestSucceeds(h)
  PROVE  ConsoleInv'
  <1>1. CASE JobFails(h)
    <2>1. handler' \in [Handlers -> Handler] /\ \A g \in Handlers : Vouched(handler'[g])
      BY <1>1, EndVouched DEF JobFails, Phase
    <2>. QED BY <1>1, <2>1 DEF JobFails, gates, ConsoleInv, ConsoleTypeOK
  <1>2. CASE ValidateSucceeds(h)
    <2>1. handler' \in [Handlers -> Handler] /\ \A g \in Handlers : Vouched(handler'[g])
      BY <1>2, EndVouched DEF ValidateSucceeds, Succeeds, Phase
    <2>. QED BY <1>2, <2>1 DEF ValidateSucceeds, Succeeds, gates, ConsoleInv, ConsoleTypeOK
  <1>3. CASE AnalyzeSucceeds(h)
    <2>1. handler' \in [Handlers -> Handler] /\ \A g \in Handlers : Vouched(handler'[g])
      BY <1>3, EndVouched DEF AnalyzeSucceeds, Succeeds, Phase
    <2>2. handler[h].session \in Good /\ Good \subseteq Sessions
      BY <1>3, ConsoleAssumption DEF AnalyzeSucceeds, Succeeds, ConsoleInv, Vouched
    <2>3. /\ inferenceFile' \in [Inferences -> Sessions \cup {None}]
          /\ \A i \in Inferences : inferenceFile'[i] \in Good \cup {None}
      BY <1>3, <2>2 DEF AnalyzeSucceeds, ConsoleInv, ConsoleTypeOK
    <2>. QED BY <1>3, <2>1, <2>3 DEF AnalyzeSucceeds, Succeeds, gates, ConsoleInv, ConsoleTypeOK
  <1>4. CASE IngestSucceeds(h)
    <2> DEFINE s == handler[h].session
               t == [session |-> s, analysed |-> inferenceFile[handler[h].inference]]
    <2>1. handler' \in [Handlers -> Handler] /\ \A g \in Handlers : Vouched(handler'[g])
      BY <1>4, EndVouched DEF IngestSucceeds, Succeeds, Phase
    <2>2. s \in Good /\ Good \subseteq Sessions /\ t.session = s /\ t.analysed = s
      BY <1>4, ConsoleAssumption DEF IngestSucceeds
    <2>3. trials' = trials \cup {t} /\ t \in [session : Sessions, analysed : Sessions]
      BY <1>4, <2>2 DEF IngestSucceeds
    <2>4. trials' \subseteq [session : Sessions, analysed : Sessions]
      BY <2>2, <2>3 DEF ConsoleInv, ConsoleTypeOK
    <2>. QED BY <1>4, <2>1, <2>4 DEF IngestSucceeds, Succeeds, gates, ConsoleInv, ConsoleTypeOK
  <1>. QED BY <1>1, <1>2, <1>3, <1>4

\* The handlers' continuations and the polls that fail.
LEMMA AnswerKeepsInv ==
  ASSUME ConsoleInv, NEW h \in Handlers, Continue(h) \/ PollFails(h)
  PROVE  ConsoleInv'
  <1>1. handler[h] \in Handler /\ Vouched(handler[h]) /\ handler \in [Handlers -> Handler]
    BY DEF ConsoleInv, ConsoleTypeOK
  <1>2. CASE Continue(h)
    <2>1. handler' = [handler EXCEPT ![h] = Free]
      BY <1>2 DEF Continue
    <2>2. handler' \in [Handlers -> Handler] /\ \A g \in Handlers : Vouched(handler'[g])
      BY <1>1, <2>1, FreeHandler, OneHandler DEF ConsoleInv
    <2>3. /\ validationPassedFor' \in Good \cup {None}
          /\ validationPassedFor' \in Sessions \cup {None}
      BY <1>1, <1>2, ConsoleAssumption DEF Continue, Vouched, ConsoleInv, ConsoleTypeOK
    <2>4. analysisPassedFor' \in Inferences \cup {None}
      BY <1>1, <1>2 DEF Continue, Handler, ConsoleInv, ConsoleTypeOK
    <2>. QED BY <1>2, <2>2, <2>3, <2>4 DEF Continue, ConsoleInv, ConsoleTypeOK
  <1>3. CASE PollFails(h)
    <2> DEFINE quiet == [handler[h] EXCEPT !.polling = FALSE]
               w == IF handler[h].phase = "running" THEN quiet ELSE Free
    <2>1. handler' = [handler EXCEPT ![h] = w]
      BY <1>1, <1>3 DEF PollFails
    <2>2. quiet \in Handler /\ Vouched(quiet)
      BY <1>1, UnpolledVouched
    <2> HIDE DEF quiet
    <2>3. w \in Handler /\ Vouched(w)
      BY <2>2, FreeHandler
    <2> HIDE DEF w
    <2>4. handler' \in [Handlers -> Handler] /\ \A g \in Handlers : Vouched(handler'[g])
      BY <1>1, <2>1, <2>3, OneHandler DEF ConsoleInv
    <2>. QED BY <1>3, <2>4 DEF PollFails, gates, ConsoleInv, ConsoleTypeOK
  <1>. QED BY <1>2, <1>3

LEMMA ConsoleNextInv == ConsoleInv /\ [ConsoleNext]_consoleVars => ConsoleInv'
  <1> SUFFICES ASSUME ConsoleInv, [ConsoleNext]_consoleVars PROVE ConsoleInv'
    OBVIOUS
  <1>1. CASE UNCHANGED consoleVars
    BY <1>1 DEF consoleVars, gates, ConsoleInv, ConsoleTypeOK
  <1>2. CASE ConsoleNext
    BY <1>2, OperatorKeepsInv, JobKeepsInv, AnswerKeepsInv DEF ConsoleNext
  <1>. QED BY <1>1, <1>2

-----------------------------------------------------------------------------
(* The theorems.                                                           *)

\* The inductive invariant holds in every reachable state.
THEOREM ConsoleInvariance == ConsoleSpec => []ConsoleInv
  BY ConsoleInitInv, ConsoleNextInv, PTL DEF ConsoleSpec

\* The types of the console's state hold for ever.
THEOREM ConsoleTypeCorrect == ConsoleSpec => []ConsoleTypeOK
  <1>1. ConsoleInv => ConsoleTypeOK
    BY DEF ConsoleInv
  <1>. QED BY <1>1, ConsoleInvariance, PTL

\* Only sessions that validate are analysed or ingested, however many
\* handlers are pending and in whatever order their answers arrive.
THEOREM OnlyGood == ConsoleSpec => []OnlyGoodSessionsAreAnalysed
  <1>1. ConsoleInv => OnlyGoodSessionsAreAnalysed
    BY DEF ConsoleInv, Vouched, OnlyGoodSessionsAreAnalysed, Running
  <1>. QED BY <1>1, ConsoleInvariance, PTL
=============================================================================
