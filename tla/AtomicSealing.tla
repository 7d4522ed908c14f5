---------------------------- MODULE AtomicSealing ----------------------------
(***************************************************************************)
(* What governance promises about the lifecycle of its machines and their  *)
(* cohort seals (governance/state.py, governance/seal.py): positions are   *)
(* taken one after the other, a halt is final, and sealing a cohort is one *)
(* step that takes its machine from PREFLIGHT to SEALED.                   *)
(***************************************************************************)

CONSTANTS Machines, Cohorts

VARIABLES
  state,   \* the position of each machine
  seals    \* the seals handed out: machine and cohort

ALLOWED ==
  [DRAFT     |-> {"PREFLIGHT"},
   PREFLIGHT |-> {"SEALED"},
   SEALED    |-> {"RUNNING"},
   RUNNING   |-> {"COMPLETE"},
   COMPLETE  |-> {},
   HALTED    |-> {}]

ExperimentState == DOMAIN ALLOWED

Init ==
  /\ state = [m \in Machines |-> "DRAFT"]
  /\ seals = {}

Advance(m) ==
  /\ \E target \in ALLOWED[state[m]] : state' = [state EXCEPT ![m] = target]
  /\ UNCHANGED seals

Seal(m, c) ==
  /\ state[m] = "PREFLIGHT"
  /\ state' = [state EXCEPT ![m] = "SEALED"]
  /\ seals' = seals \cup {[machine |-> m, cohort |-> c]}

Halt(m) ==
  /\ state[m] \notin {"COMPLETE", "HALTED"}
  /\ state' = [state EXCEPT ![m] = "HALTED"]
  /\ UNCHANGED seals

Next == \E m \in Machines : Advance(m) \/ Halt(m) \/ \E c \in Cohorts : Seal(m, c)

Spec == Init /\ [][Next]_<<state, seals>>

=============================================================================
