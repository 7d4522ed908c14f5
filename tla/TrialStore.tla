----------------------------- MODULE TrialStore -----------------------------
(***************************************************************************)
(* Ingestion into the cumulative P1 trial store                            *)
(* (scripts/ingest_capture_inference.py with its stopping rule in          *)
(* certification/trial_statistics.py).  Every run of the script is a       *)
(* process: it loads and verifies trials.jsonl, appends one line, and      *)
(* rewrites trial-records.json and statistics.json from the list it loaded *)
(* plus its own trial.  Nothing locks the store; a run may fail anywhere.  *)
(*                                                                         *)
(* prev_record_sha256 is the sha256 of the previous line, which holds the  *)
(* hash of the line before it, and so on: it commits to the whole list the *)
(* process had loaded, and is modelled as that list ("after").  Sessions   *)
(* and inference files are those that pass the gates before the store is   *)
(* opened; a run they refuse changes nothing.                              *)
(***************************************************************************)
EXTENDS Naturals, Sequences, FiniteSets

CONSTANTS
  Trials,            \* frozen trial ids
  Ingests,           \* runs of the script that can be alive at once
  NoTrial,           \* trial-records.json before it exists
  Torn,              \* a line that does not parse, a file cut short
  MinValid,          \* stopping rule: min_valid_trials
  MaxValid,          \* stopping rule: max_valid_trials
  RequireBelowHalf,  \* stopping rule: require_interval_below_half
  MaxLines           \* bound: lines in the store

ASSUME StoreAssumption ==
  /\ NoTrial \notin Trials
  /\ Torn \notin Trials \cup {NoTrial}
  /\ Torn \notin [trial : [id : Trials, valid : BOOLEAN], after : Seq([id : Trials, valid : BOOLEAN])]
  /\ RequireBelowHalf \in BOOLEAN
  /\ MinValid \in Nat
  /\ MaxValid \in Nat
  /\ MaxLines \in Nat

VARIABLES
  orderly,       \* runs come one after the other and tear no line (never changes)
  store,         \* trials.jsonl, line by line
  ended,         \* its last line has its newline
  statistics,    \* statistics.json: the trials it counts and its decision
  trialRecords,  \* trial-records.json: the trial it describes
  pc,            \* where each run is
  loaded,        \* the trials a run read from the store
  own            \* the trial a run ingests

vars == <<orderly, store, ended, statistics, trialRecords, pc, loaded, own>>

\* A trial is valid when its control garment was detected.
Trial == [id : Trials, valid : BOOLEAN]
Line == [trial : Trial, after : Seq(Trial)]
Statistics == [trials : Seq(Trial), mayStop : BOOLEAN, torn : BOOLEAN]
NoStatistics == [trials |-> << >>, mayStop |-> FALSE, torn |-> FALSE]

TypeOK ==
  /\ orderly \in BOOLEAN
  /\ store \in Seq(Line \cup {Torn})
  /\ ended \in BOOLEAN
  /\ statistics \in Statistics
  /\ trialRecords \in Trials \cup {NoTrial, Torn}
  /\ pc \in [Ingests -> {"idle", "loaded", "appended", "recorded"}]
  /\ loaded \in [Ingests -> Seq(Trial)]
  /\ own \in [Ingests -> Trial \cup {NoTrial}]

Init ==
  /\ orderly \in BOOLEAN
  /\ store = << >>
  /\ ended = TRUE
  /\ statistics = NoStatistics
  /\ trialRecords = NoTrial
  /\ pc = [p \in Ingests |-> "idle"]
  /\ loaded = [p \in Ingests |-> << >>]
  /\ own = [p \in Ingests |-> NoTrial]

-----------------------------------------------------------------------------
(* Loading.                                                                *)

Whole(lines) == \A i \in DOMAIN lines : lines[i] # Torn

TrialsIn(lines) == [i \in DOMAIN lines |-> lines[i].trial]

\* Every line names the hash of the one before it.
Chained(lines) ==
  \A i \in DOMAIN lines : lines[i].after = SubSeq(TrialsIn(lines), 1, i - 1)

NoDuplicates(lines) ==
  \A i, k \in DOMAIN lines : lines[i].trial.id = lines[k].trial.id => i = k

Loadable(lines) == Whole(lines) /\ Chained(lines) /\ NoDuplicates(lines)

Contains(trials, id) == \E i \in DOMAIN trials : trials[i].id = id

Valid(trials) == {i \in DOMAIN trials : trials[i].valid}

-----------------------------------------------------------------------------
(* One run of the script.                                                  *)

Idle(p) == pc[p] = "idle"

MayStart(p) == Idle(p) /\ (orderly => \A q \in Ingests : Idle(q))

\* Mutants: the trial's id is not looked for; the chain is not checked.
LoadUnsearched(p, t) ==
  /\ MayStart(p)
  /\ Loadable(store)
  /\ pc' = [pc EXCEPT ![p] = "loaded"]
  /\ loaded' = [loaded EXCEPT ![p] = TrialsIn(store)]
  /\ own' = [own EXCEPT ![p] = t]
  /\ UNCHANGED <<orderly, store, ended, statistics, trialRecords>>

LoadUnchained(p, t) ==
  /\ MayStart(p)
  /\ Whole(store)
  /\ NoDuplicates(store)
  /\ ~Contains(TrialsIn(store), t.id)
  /\ pc' = [pc EXCEPT ![p] = "loaded"]
  /\ loaded' = [loaded EXCEPT ![p] = TrialsIn(store)]
  /\ own' = [own EXCEPT ![p] = t]
  /\ UNCHANGED <<orderly, store, ended, statistics, trialRecords>>

\* A store that does not load, or that holds the trial already, blocks the run:
\* it changes nothing.
Load(p, t) ==
  /\ MayStart(p)
  /\ Loadable(store)
  /\ ~Contains(TrialsIn(store), t.id)
  /\ pc' = [pc EXCEPT ![p] = "loaded"]
  /\ loaded' = [loaded EXCEPT ![p] = TrialsIn(store)]
  /\ own' = [own EXCEPT ![p] = t]
  /\ UNCHANGED <<orderly, store, ended, statistics, trialRecords>>

\* What is appended to a line without a newline makes one line with it, which
\* does not parse.
AddLine(line) ==
  /\ Len(store) < MaxLines
  /\ store' = IF store # << >> /\ ~ended
              THEN [store EXCEPT ![Len(store)] = Torn]
              ELSE Append(store, line)

OwnLine(p) == [trial |-> own[p], after |-> loaded[p]]

AppendTrial(p) ==
  /\ pc[p] = "loaded"
  /\ AddLine(OwnLine(p))
  /\ ended' = TRUE
  /\ pc' = [pc EXCEPT ![p] = "appended"]
  /\ UNCHANGED <<orderly, statistics, trialRecords, loaded, own>>

WriteTrialRecords(p) ==
  /\ pc[p] = "appended"
  /\ trialRecords' = own[p].id
  /\ pc' = [pc EXCEPT ![p] = "recorded"]
  /\ UNCHANGED <<orderly, store, ended, statistics, loaded, own>>

\* Mutant: one trial early.
MayStopEarly(n, narrow, belowHalf) ==
  /\ n + 1 >= MinValid
  /\ narrow \/ n >= MaxValid
  /\ RequireBelowHalf => belowHalf \/ n >= MaxValid

\* evaluate_stopping_rule on n valid trials, with the interval it computes.
MayStop(n, narrow, belowHalf) ==
  /\ n >= MinValid
  /\ narrow \/ n >= MaxValid
  /\ RequireBelowHalf => belowHalf \/ n >= MaxValid

Analysed(p) == Append(loaded[p], own[p])

\* The process is gone, with what it knew.
Ends(p) ==
  /\ pc' = [pc EXCEPT ![p] = "idle"]
  /\ loaded' = [loaded EXCEPT ![p] = << >>]
  /\ own' = [own EXCEPT ![p] = NoTrial]

\* Without a valid trial there are no statistics and no decision.
WriteStatistics(p, narrow, belowHalf) ==
  /\ pc[p] = "recorded"
  /\ LET n == Cardinality(Valid(Analysed(p)))
     IN  statistics' = [trials  |-> Analysed(p),
                        mayStop |-> n > 0 /\ MayStop(n, narrow, belowHalf),
                        torn    |-> FALSE]
  /\ Ends(p)
  /\ UNCHANGED <<orderly, store, ended, trialRecords>>

\* The run ends early: an exception, a full disk, a killed process.  The
\* file it was about to write may be left cut short; a line that lacks only its
\* newline still loads.
Fail(p) ==
  /\ ~Idle(p)
  /\ Ends(p)
  /\ \/ UNCHANGED <<store, ended, statistics, trialRecords>>
     \/ /\ pc[p] = "loaded"
        /\ ~orderly
        /\ AddLine(Torn) \/ AddLine(OwnLine(p))
        /\ ended' = FALSE
        /\ UNCHANGED <<statistics, trialRecords>>
     \/ /\ pc[p] = "appended"
        /\ trialRecords' = Torn
        /\ UNCHANGED <<store, ended, statistics>>
     \/ /\ pc[p] = "recorded"
        /\ statistics' = [statistics EXCEPT !.torn = TRUE]
        /\ UNCHANGED <<store, ended, trialRecords>>
  /\ UNCHANGED orderly

Next == \E p \in Ingests :
  \/ \E t \in Trial : Load(p, t)
  \/ AppendTrial(p)
  \/ WriteTrialRecords(p)
  \/ \E narrow, belowHalf \in BOOLEAN : WriteStatistics(p, narrow, belowHalf)
  \/ Fail(p)

Spec == Init /\ [][Next]_vars

-----------------------------------------------------------------------------
(* Safety.                                                                 *)

\* Orderly runs leave a store that the next run can load, wherever they fail.
StoreLoadable == orderly => Loadable(store)

\* The decision that collection may stop rests on enough valid trials that
\* really are in the store, each counted once, however runs overlap or fail
\* (until an append is torn).
StopDecisionIsEarned ==
  Whole(store) /\ statistics.mayStop =>
    /\ Cardinality({statistics.trials[i].id : i \in Valid(statistics.trials)}) >= MinValid
    /\ \A i \in Valid(statistics.trials) :
         \E k \in DOMAIN store : store[k].trial = statistics.trials[i]

\* Under orderly runs the published statistics only ever grow: no trial that
\* was counted drops out of them again.
StatisticsGrow ==
  [][orderly =>
     \A i \in DOMAIN statistics.trials :
       /\ i \in DOMAIN statistics'.trials
       /\ statistics'.trials[i] = statistics.trials[i]]_<<orderly, statistics>>

\* Once a store does not load and no run that had loaded it is alive, no line
\* is ever added to it again: there is no repair in the script.
BrokenStoreIsFrozen ==
  \A n \in 1 .. MaxLines :
    LET Frozen == Len(store) = n
    IN  [](~Loadable(store) /\ (\A p \in Ingests : pc[p] # "loaded") /\ Frozen
             => []Frozen)

\* Orderly runs implement the abstract log of trials.
Log == INSTANCE TrialLog WITH
  log <- IF orderly THEN [i \in DOMAIN store |-> store[i].trial.id] ELSE << >>
RefinesTrialLog == Log!Spec
=============================================================================
