----------------------------- MODULE Governance -----------------------------
(***************************************************************************)
(* Prospective experiment governance, in the memory of one process:        *)
(* governance/ledger.py (the append-only event ledger), governance/state.py *)
(* (ledger-backed lifecycle machines) and governance/seal.py (the governed *)
(* seal of a cohort, with a timestamp adapter in its middle).              *)
(*                                                                         *)
(* An identifier is a name and a spelling (governance/ids.py): the legacy  *)
(* spelling parses to the same canonical identity.  Calls that are refused *)
(* change nothing and are not steps.  The adapter is code of the caller:   *)
(* while it runs, every other operation may, so seal calls nest.           *)
(***************************************************************************)
EXTENDS Naturals, Sequences, SequencesExt, FiniteSets

CONSTANTS
  Experiments, Machines, Cohorts,
  ExperimentOf,   \* the experiment of each machine and of each cohort
  EventNames,     \* identities of governance events
  None,
  MaxRecords,     \* bound: events
  MaxNotes,       \* bound: events without a machine
  MaxDepth        \* bound: seal calls inside one another

ASSUME GovernanceAssumption ==
  /\ ExperimentOf \in [Machines \cup Cohorts -> Experiments]
  /\ None \notin Machines
  /\ None \notin Cohorts
  /\ None \notin EventNames
  /\ MaxRecords \in Nat
  /\ MaxNotes \in Nat
  /\ MaxDepth \in Nat

VARIABLES
  state,      \* _state of each machine
  ledger,     \* GovernanceLedger._events
  calls,      \* seal_governed_cohort calls waiting for their adapter
  seals       \* seals handed out

vars == <<state, ledger, calls, seals>>

-----------------------------------------------------------------------------
(* Identifiers.                                                            *)

Spellings == {"canonical", "legacy"}
Ids(Names) == [name : Names, spelling : Spellings]

canonical(id) == id.name

Atomic == INSTANCE AtomicSealing WITH seals <- {[machine |-> s.machine, cohort |-> s.cohort] : s \in seals}

ALLOWED == Atomic!ALLOWED
ExperimentState == Atomic!ExperimentState

Init ==
  /\ state = [m \in Machines |-> "DRAFT"]
  /\ ledger = << >>
  /\ calls = << >>
  /\ seals = {}

Room == Len(ledger) < MaxRecords

-----------------------------------------------------------------------------
(* The ledger.                                                             *)

\* Mutant: identities compared as they are spelled.
SeenAsSpelled(id) == \E i \in DOMAIN ledger : ledger[i].id = id

Seen(id) == \E i \in DOMAIN ledger : canonical(ledger[i].id) = canonical(id)

\* A REVERSAL or SUPERSESSION, here CORRECTION, names an earlier event of the same experiment; the
\* reference is resolved by its canonical identity, whatever its spelling.
Referable(ref, experiment) ==
  \E i \in DOMAIN ledger :
    /\ canonical(ledger[i].id) = ref
    /\ ledger[i].experiment = experiment

append(id, experiment, type, payload, ref) ==
  /\ Room
  /\ ~Seen(id)
  /\ (type = "CORRECTION") = (ref # None)
  /\ ref # None => Referable(ref, experiment)
  /\ ledger' = Append(ledger, [id |-> id, experiment |-> experiment, type |-> type,
                               payload |-> payload, ref |-> ref])

NoPayload == [by |-> None, from |-> None, to |-> None, cohort |-> None]

\* Events without a machine: policy freezes, re-screens, migrations, corrections.
Record(id, experiment, type, ref) ==
  /\ Cardinality({i \in DOMAIN ledger : ledger[i].payload = NoPayload}) < MaxNotes
  /\ append(id, experiment, type, NoPayload, ref)
  /\ UNCHANGED <<state, calls, seals>>

-----------------------------------------------------------------------------
(* GovernanceStateMachine.                                                 *)

Moved(m, target, cohort) == [by |-> m, from |-> state[m], to |-> target, cohort |-> cohort]

\* The event first, then the position.
Move(m, target, type, id, cohort) ==
  /\ append(id, ExperimentOf[m], type, Moved(m, target, cohort), None)
  /\ state' = [state EXCEPT ![m] = target]

transition(m, target, id) ==
  /\ target \in ALLOWED[state[m]]
  /\ Move(m, target, "STATE_TRANSITION", id, None)
  /\ UNCHANGED <<calls, seals>>

\* Mutant: an ended or halted experiment is halted again.
HaltTerminal(m, id) ==
  /\ Move(m, "HALTED", "HALT", id, None)
  /\ UNCHANGED <<calls, seals>>

halt_for_conflict(m, id) ==
  /\ state[m] \notin {"COMPLETE", "HALTED"}
  /\ Move(m, "HALTED", "HALT", id, None)
  /\ UNCHANGED <<calls, seals>>

-----------------------------------------------------------------------------
(* seal_governed_cohort.                                                   *)

\* Mutant: the seal is handed out before the transition.
BeginSealEarly(m, c, id) ==
  /\ Room /\ Len(calls) < MaxDepth
  /\ state[m] = "PREFLIGHT"
  /\ id.spelling = "canonical"
  /\ ExperimentOf[m] = ExperimentOf[c]
  /\ calls' = Append(calls, [machine |-> m, cohort |-> c, id |-> id])
  /\ seals' = seals \cup {[machine |-> m, cohort |-> c, id |-> id]}
  /\ UNCHANGED <<state, ledger>>

\* Up to the call of the adapter.  A legacy spelling is refused here.
BeginSeal(m, c, id) ==
  /\ Room /\ Len(calls) < MaxDepth
  /\ state[m] = "PREFLIGHT"
  /\ id.spelling = "canonical"
  /\ ExperimentOf[m] = ExperimentOf[c]
  /\ calls' = Append(calls, [machine |-> m, cohort |-> c, id |-> id])
  /\ UNCHANGED <<state, ledger, seals>>

Returned == calls' = SubSeq(calls, 1, Len(calls) - 1)

\* Mutant: the position checked before the adapter ran is trusted.
EndSealUnchecked ==
  /\ calls # << >>
  /\ LET call == Last(calls) IN
     /\ Move(call.machine, "SEALED", "STATE_TRANSITION", call.id, call.cohort)
     /\ seals' = seals \cup {call}
  /\ Returned

\* The adapter is back with a token: the transition decides.
EndSeal ==
  /\ calls # << >>
  /\ LET call == Last(calls) IN
     /\ "SEALED" \in ALLOWED[state[call.machine]]
     /\ Move(call.machine, "SEALED", "STATE_TRANSITION", call.id, call.cohort)
     /\ seals' = seals \cup {call}
  /\ Returned

\* The adapter fails, the transition is denied or the event id is taken.
AbandonSeal ==
  /\ calls # << >>
  /\ Returned
  /\ UNCHANGED <<state, ledger, seals>>

-----------------------------------------------------------------------------

LedgerNext ==
  \E id \in Ids(EventNames) :
    \/ \E x \in Experiments : Record(id, x, "OTHER", None)
    \/ \E x \in Experiments, ref \in EventNames : Record(id, x, "CORRECTION", ref)
    \/ \E m \in Machines : halt_for_conflict(m, id)
    \/ \E m \in Machines, target \in ExperimentState : transition(m, target, id)
    \/ \E m \in Machines, c \in Cohorts : BeginSeal(m, c, id)

Next == LedgerNext \/ EndSeal \/ AbandonSeal

Spec == Init /\ [][Next]_vars

-----------------------------------------------------------------------------
(* Properties.                                                             *)

\* Types of the ledger's events, of waiting calls and of seals.
Payload ==
  {NoPayload} \cup
  [by : Machines, from : ExperimentState, to : ExperimentState, cohort : Cohorts \cup {None}]

Event ==
  [id : Ids(EventNames), experiment : Experiments,
   type : {"OTHER", "CORRECTION", "STATE_TRANSITION", "HALT"},
   payload : Payload, ref : EventNames \cup {None}]

SealCall == [machine : Machines, cohort : Cohorts, id : Ids(EventNames)]

TypeOK ==
  /\ state \in [Machines -> ExperimentState]
  /\ ledger \in Seq(Event)
  /\ calls \in Seq(SealCall)
  /\ seals \subseteq SealCall

\* GovernanceLedger.verify accepts every ledger the operations can write: no
\* identity twice in any spelling, every correction names an earlier event of
\* its own experiment, and only corrections name one.
LedgerVerifies ==
  \A i \in DOMAIN ledger :
    LET e == ledger[i] IN
    /\ \A k \in 1 .. i - 1 : ledger[k].id.name # e.id.name
    /\ (e.type = "CORRECTION") = (e.ref # None)
    /\ e.ref # None =>
         \E k \in 1 .. i - 1 :
           ledger[k].id.name = e.ref /\ ledger[k].experiment = e.experiment

\* The ledger tells each machine's history: its events form one legal path that
\* starts at DRAFT and ends where the machine is, whatever ran inside an adapter.
By(m) == {i \in DOMAIN ledger : ledger[i].payload.by = m}

LedgerReplaysMachines ==
  \A m \in Machines :
    /\ By(m) = {} => state[m] = "DRAFT"
    /\ \A i \in By(m) :
         LET p == ledger[i].payload IN
         /\ p.to \in ALLOWED[p.from] \/ p.to = "HALTED"
         /\ p.from \notin {"COMPLETE", "HALTED"}
         /\ (\A k \in By(m) : k >= i) => p.from = "DRAFT"
         /\ (\A k \in By(m) : k <= i) => p.to = state[m]
         /\ \A k \in By(m) : k < i /\ (\A n \in By(m) : n <= k \/ n >= i) =>
              ledger[k].payload.to = p.from

\* Every seal handed out is in the ledger, as the one event that took its machine
\* to SEALED, and every seal event was handed out: no seal is lost or made up by
\* calls that nest.
SealsAreLedgered ==
  /\ \A s \in seals :
       \E i \in By(s.machine) :
         ledger[i].payload.cohort = s.cohort /\ canonical(ledger[i].id) = canonical(s.id)
  /\ \A i \in DOMAIN ledger :
       ledger[i].payload.cohort # None =>
         \E s \in seals : s.machine = ledger[i].payload.by /\ s.cohort = ledger[i].payload.cohort
  /\ \A s, t \in seals : s.machine = t.machine => s = t

\* Sealing around an adapter that may do anything is one atomic step.
RefinesAtomicSealing == Atomic!Spec

=============================================================================
