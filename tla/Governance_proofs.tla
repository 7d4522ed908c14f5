-------------------------- MODULE Governance_proofs --------------------------
(***************************************************************************)
(* Proofs about Governance, for any experiments, machines, cohorts and     *)
(* identifiers, and any nesting of seal calls inside their adapters.       *)
(***************************************************************************)
EXTENDS Governance, TLAPS

-----------------------------------------------------------------------------
(* Type correctness.                                                       *)

\* Every position's successors are positions, and HALTED is one.
LEMMA AllowedType ==
  /\ "DRAFT" \in ExperimentState
  /\ "SEALED" \in ExperimentState
  /\ "HALTED" \in ExperimentState
  /\ \A s \in ExperimentState : ALLOWED[s] \subseteq ExperimentState
BY DEF ExperimentState, ALLOWED, Atomic!ExperimentState, Atomic!ALLOWED

\* What the table allows leaves neither an ended nor a halted position, never
\* enters HALTED or DRAFT, and enters SEALED from PREFLIGHT only.
LEMMA AllowedSteps ==
  \A s \in ExperimentState : \A t \in ALLOWED[s] :
    /\ s \notin {"COMPLETE", "HALTED"}
    /\ t \notin {"DRAFT", "HALTED"}
    /\ t = "SEALED" => s = "PREFLIGHT"
    /\ t = "PREFLIGHT" => s = "DRAFT"
BY DEF ExperimentState, ALLOWED, Atomic!ExperimentState, Atomic!ALLOWED

\* An append leaves what is in the ledger and adds one event at its end.
LEMMA Appending ==
  ASSUME NEW event, ledger \in Seq(Event), ledger' = Append(ledger, event)
  PROVE  /\ DOMAIN ledger = 1 .. Len(ledger)
         /\ Len(ledger) \in Nat
         /\ DOMAIN ledger' = DOMAIN ledger \cup {Len(ledger) + 1}
         /\ Len(ledger) + 1 \notin DOMAIN ledger
         /\ \A i \in DOMAIN ledger : ledger'[i] = ledger[i]
         /\ ledger'[Len(ledger) + 1] = event
OBVIOUS

\* The last waiting call is a call, and taking it off leaves calls.
LEMMA Returning ==
  ASSUME calls \in Seq(SealCall), calls # << >>, Returned
  PROVE  Last(calls) \in SealCall /\ calls' \in Seq(SealCall)
<1>1. Len(calls) \in Nat /\ Len(calls) # 0
  OBVIOUS
<1>2. Last(calls) \in SealCall
  BY <1>1 DEF Last
<1>3. SubSeq(calls, 1, Len(calls) - 1) \in Seq(SealCall)
  BY <1>1
<1>4. QED
  BY <1>2, <1>3 DEF Returned

\* Appending an event of the right types leaves a ledger of the right type.
LEMMA AppendType ==
  ASSUME NEW id \in Ids(EventNames), NEW x \in Experiments, NEW payload \in Payload,
         NEW type \in {"OTHER", "CORRECTION", "STATE_TRANSITION", "HALT"},
         NEW ref \in EventNames \cup {None},
         ledger \in Seq(Event), append(id, x, type, payload, ref)
  PROVE  ledger' \in Seq(Event)
<1>1. [id |-> id, experiment |-> x, type |-> type, payload |-> payload, ref |-> ref] \in Event
  BY DEF Event
<1>2. QED
  BY <1>1 DEF append

\* A move writes one event of its machine and takes the machine to its target.
LEMMA MoveType ==
  ASSUME TypeOK, NEW m \in Machines, NEW target \in ExperimentState,
         NEW type \in {"STATE_TRANSITION", "HALT"}, NEW id \in Ids(EventNames),
         NEW c \in Cohorts \cup {None}, Move(m, target, type, id, c)
  PROVE  /\ ledger' \in Seq(Event)
         /\ state' \in [Machines -> ExperimentState]
<1>1. Moved(m, target, c) \in Payload
  BY DEF Moved, Payload, TypeOK
<1>2. ExperimentOf[m] \in Experiments
  BY GovernanceAssumption
<1>3. ledger' \in Seq(Event)
  BY <1>1, <1>2, AppendType DEF Move, TypeOK
<1>4. state' \in [Machines -> ExperimentState]
  BY DEF Move, TypeOK
<1>5. QED
  BY <1>3, <1>4

LEMMA TypeStep == TypeOK /\ [Next]_vars => TypeOK'
<1> SUFFICES ASSUME TypeOK, [Next]_vars PROVE TypeOK'
  OBVIOUS
<1>1. ASSUME NEW id \in Ids(EventNames), NEW x \in Experiments, Record(id, x, "OTHER", None)
      PROVE  TypeOK'
  <2>1. NoPayload \in Payload
    BY DEF Payload
  <2>2. ledger' \in Seq(Event)
    BY <1>1, <2>1, AppendType DEF Record, TypeOK
  <2>3. QED
    BY <1>1, <2>2 DEF Record, TypeOK
<1>2. ASSUME NEW id \in Ids(EventNames), NEW x \in Experiments, NEW ref \in EventNames,
             Record(id, x, "CORRECTION", ref)
      PROVE  TypeOK'
  <2>1. NoPayload \in Payload
    BY DEF Payload
  <2>2. ledger' \in Seq(Event)
    BY <1>2, <2>1, AppendType DEF Record, TypeOK
  <2>3. QED
    BY <1>2, <2>2 DEF Record, TypeOK
<1>3. ASSUME NEW id \in Ids(EventNames), NEW m \in Machines, halt_for_conflict(m, id)
      PROVE  TypeOK'
  BY <1>3, MoveType, AllowedType DEF halt_for_conflict, TypeOK
<1>4. ASSUME NEW id \in Ids(EventNames), NEW m \in Machines, NEW target \in ExperimentState,
             transition(m, target, id)
      PROVE  TypeOK'
  BY <1>4, MoveType DEF transition, TypeOK
<1>5. ASSUME NEW id \in Ids(EventNames), NEW m \in Machines, NEW c \in Cohorts,
             BeginSeal(m, c, id)
      PROVE  TypeOK'
  <2>1. [machine |-> m, cohort |-> c, id |-> id] \in SealCall
    BY DEF SealCall
  <2>2. calls' \in Seq(SealCall)
    BY <1>5, <2>1 DEF BeginSeal, TypeOK
  <2>3. QED
    BY <1>5, <2>2 DEF BeginSeal, TypeOK
<1>6. CASE EndSeal
  <2>1. Last(calls) \in SealCall /\ calls' \in Seq(SealCall)
    BY <1>6, Returning DEF EndSeal, TypeOK
  <2> DEFINE call == Last(calls)
  <2>2. call.machine \in Machines /\ call.cohort \in Cohorts /\ call.id \in Ids(EventNames)
    BY <2>1 DEF SealCall
  <2>3. Move(call.machine, "SEALED", "STATE_TRANSITION", call.id, call.cohort)
    BY <1>6 DEF EndSeal
  <2>4. ledger' \in Seq(Event) /\ state' \in [Machines -> ExperimentState]
    BY <2>2, <2>3, MoveType, AllowedType
  <2>5. QED
    BY <1>6, <2>1, <2>4 DEF EndSeal, TypeOK
<1>7. CASE AbandonSeal
  BY <1>7, Returning DEF AbandonSeal, TypeOK
<1>8. CASE UNCHANGED vars
  BY <1>8 DEF vars, TypeOK
<1>9. QED
  BY <1>1, <1>2, <1>3, <1>4, <1>5, <1>6, <1>7, <1>8 DEF Next, LedgerNext

LEMMA TypeInit == Init => TypeOK
BY AllowedType DEF Init, TypeOK

\* TypeOK: the types of ledger, positions, waiting calls and seals (the state of
\* ledger.py, state.py and seal.py).
THEOREM TypeCorrect == Spec => []TypeOK
<1>1. TypeOK /\ [Next]_vars => TypeOK'
  BY TypeStep
<1>2. QED
  BY TypeInit, <1>1, PTL DEF Spec

-----------------------------------------------------------------------------
(* What a step can do to the ledger, the positions and the seals.          *)

\* An event without a machine.
Noted ==
  /\ \E id \in Ids(EventNames), x \in Experiments, ref \in EventNames \cup {None},
        type \in {"OTHER", "CORRECTION"} : append(id, x, type, NoPayload, ref)
  /\ UNCHANGED <<state, seals>>

\* One machine goes on by the table, or is halted.
Moves ==
  /\ \E m \in Machines, target \in ExperimentState, type \in {"STATE_TRANSITION", "HALT"},
        id \in Ids(EventNames) :
       /\ \/ target \in ALLOWED[state[m]]
          \/ target = "HALTED" /\ state[m] \notin {"COMPLETE", "HALTED"}
       /\ Move(m, target, type, id, None)
  /\ UNCHANGED seals

\* One machine is sealed together with a cohort.
Seals ==
  \E call \in SealCall :
    /\ "SEALED" \in ALLOWED[state[call.machine]]
    /\ Move(call.machine, "SEALED", "STATE_TRANSITION", call.id, call.cohort)
    /\ seals' = seals \cup {call}

LEMMA Steps ==
  ASSUME TypeOK, [Next]_vars
  PROVE  Noted \/ Moves \/ Seals \/ UNCHANGED <<state, ledger, seals>>
<1>1. ASSUME NEW id \in Ids(EventNames), NEW x \in Experiments, Record(id, x, "OTHER", None)
      PROVE  Noted
  BY <1>1 DEF Record, Noted
<1>2. ASSUME NEW id \in Ids(EventNames), NEW x \in Experiments, NEW ref \in EventNames,
             Record(id, x, "CORRECTION", ref)
      PROVE  Noted
  BY <1>2 DEF Record, Noted
<1>3. ASSUME NEW id \in Ids(EventNames), NEW m \in Machines, halt_for_conflict(m, id)
      PROVE  Moves
  BY <1>3, AllowedType DEF halt_for_conflict, Moves
<1>4. ASSUME NEW id \in Ids(EventNames), NEW m \in Machines, NEW target \in ExperimentState,
             transition(m, target, id)
      PROVE  Moves
  BY <1>4 DEF transition, Moves
<1>5. CASE EndSeal
  <2>1. Last(calls) \in SealCall
    BY <1>5, Returning DEF EndSeal, TypeOK
  <2>2. QED
    BY <1>5, <2>1 DEF EndSeal, Seals
<1>6. ASSUME NEW id \in Ids(EventNames), NEW m \in Machines, NEW c \in Cohorts,
             BeginSeal(m, c, id)
      PROVE  UNCHANGED <<state, ledger, seals>>
  BY <1>6 DEF BeginSeal
<1>7. CASE AbandonSeal
  BY <1>7 DEF AbandonSeal
<1>8. CASE UNCHANGED vars
  BY <1>8 DEF vars
<1>9. QED
  BY <1>1, <1>2, <1>3, <1>4, <1>5, <1>6, <1>7, <1>8 DEF Next, LedgerNext

-----------------------------------------------------------------------------
(* The ledger verifies.                                                    *)

\* One append keeps the ledger such that verify accepts it.
LEMMA AppendVerifies ==
  ASSUME TypeOK, LedgerVerifies, NEW id, NEW x, NEW type, NEW payload, NEW ref,
         append(id, x, type, payload, ref)
  PROVE  LedgerVerifies'
<1> DEFINE n == Len(ledger) + 1
           new == [id |-> id, experiment |-> x, type |-> type, payload |-> payload, ref |-> ref]
<1>1. /\ DOMAIN ledger = 1 .. Len(ledger) /\ Len(ledger) \in Nat
      /\ DOMAIN ledger' = DOMAIN ledger \cup {n}
      /\ \A i \in DOMAIN ledger : ledger'[i] = ledger[i]
      /\ ledger'[n] = new
  <2>1. ledger \in Seq(Event)
    BY DEF TypeOK
  <2>2. ledger' = Append(ledger, new)
    BY DEF append
  <2> HIDE DEF new
  <2>3. QED
    BY <2>1, <2>2, Appending
<1>2. ASSUME NEW i \in DOMAIN ledger
      PROVE  LET e == ledger'[i] IN
             /\ \A k \in 1 .. i - 1 : ledger'[k].id.name # e.id.name
             /\ (e.type = "CORRECTION") = (e.ref # None)
             /\ e.ref # None =>
                  \E k \in 1 .. i - 1 :
                    ledger'[k].id.name = e.ref /\ ledger'[k].experiment = e.experiment
  <2>1. \A k \in 1 .. i - 1 : k \in DOMAIN ledger /\ ledger'[k] = ledger[k]
    BY <1>1
  <2>2. ledger'[i] = ledger[i]
    BY <1>1
  <2>3. QED
    BY <2>1, <2>2 DEF LedgerVerifies
<1>3. /\ \A k \in 1 .. n - 1 : ledger'[k].id.name # new.id.name
      /\ (new.type = "CORRECTION") = (new.ref # None)
      /\ new.ref # None =>
           \E k \in 1 .. n - 1 :
             ledger'[k].id.name = new.ref /\ ledger'[k].experiment = new.experiment
  <2>1. n - 1 = Len(ledger) /\ \A k \in 1 .. n - 1 : k \in DOMAIN ledger /\ ledger'[k] = ledger[k]
    BY <1>1
  <2>2. \A k \in DOMAIN ledger : ledger[k].id.name # id.name
    BY DEF append, Seen, canonical
  <2>3. (type = "CORRECTION") = (ref # None)
    BY DEF append
  <2>4. ref # None =>
          \E k \in DOMAIN ledger : ledger[k].id.name = ref /\ ledger[k].experiment = x
    BY DEF append, Referable, canonical
  <2>5. QED
    BY <1>1, <2>1, <2>2, <2>3, <2>4
<1>4. QED
  BY <1>1, <1>2, <1>3 DEF LedgerVerifies

LEMMA VerifiesStep == TypeOK /\ LedgerVerifies /\ [Next]_vars => LedgerVerifies'
<1> SUFFICES ASSUME TypeOK, LedgerVerifies, [Next]_vars PROVE LedgerVerifies'
  OBVIOUS
<1>1. CASE Noted
  BY <1>1, AppendVerifies DEF Noted
<1>2. CASE Moves
  BY <1>2, AppendVerifies DEF Moves, Move
<1>3. CASE Seals
  BY <1>3, AppendVerifies DEF Seals, Move
<1>4. CASE UNCHANGED ledger
  BY <1>4 DEF LedgerVerifies
<1>5. QED
  BY <1>1, <1>2, <1>3, <1>4, Steps

\* LedgerVerifies: no identity twice in either spelling, corrections name an
\* earlier event of their experiment (append and verify of ledger.py agree).
THEOREM AlwaysVerifies == Spec => []LedgerVerifies
<1>1. Init => LedgerVerifies
  BY DEF Init, LedgerVerifies
<1>2. TypeOK /\ LedgerVerifies /\ [Next]_vars => LedgerVerifies'
  BY VerifiesStep
<1>3. QED
  BY <1>1, <1>2, TypeCorrect, PTL DEF Spec

-----------------------------------------------------------------------------
(* The ledger tells the machines' histories.                               *)

\* What LedgerReplaysMachines says of one machine.
Replays(m) ==
  /\ By(m) = {} => state[m] = "DRAFT"
  /\ \A i \in By(m) :
       LET p == ledger[i].payload IN
       /\ p.to \in ALLOWED[p.from] \/ p.to = "HALTED"
       /\ p.from \notin {"COMPLETE", "HALTED"}
       /\ (\A k \in By(m) : k >= i) => p.from = "DRAFT"
       /\ (\A k \in By(m) : k <= i) => p.to = state[m]
       /\ \A k \in By(m) : k < i /\ (\A n \in By(m) : n <= k \/ n >= i) =>
            ledger[k].payload.to = p.from

\* An event of somebody else, or of nobody, leaves a machine's history.
LEMMA OthersReplay ==
  ASSUME TypeOK, NEW m, Replays(m), NEW id, NEW x, NEW type, NEW payload, NEW ref,
         append(id, x, type, payload, ref), payload.by # m, state'[m] = state[m]
  PROVE  Replays(m)' /\ By(m)' = By(m)
<1> DEFINE n == Len(ledger) + 1
<1> DEFINE new == [id |-> id, experiment |-> x, type |-> type, payload |-> payload, ref |-> ref]
<1>1. ledger \in Seq(Event) /\ ledger' = Append(ledger, new) /\ new.payload = payload
  BY DEF TypeOK, append
<1> HIDE DEF new
<1>2. /\ DOMAIN ledger' = DOMAIN ledger \cup {n}
      /\ n \notin DOMAIN ledger
      /\ \A i \in DOMAIN ledger : ledger'[i] = ledger[i]
      /\ ledger'[n].payload = payload
  BY <1>1, Appending
<1>3. By(m)' = By(m) /\ \A i \in By(m) : ledger'[i] = ledger[i]
  BY <1>2 DEF By
<1>4. QED
  BY <1>3 DEF Replays

\* A legal move continues its machine's history.
LEMMA MoverReplays ==
  ASSUME TypeOK, NEW m \in Machines, Replays(m), NEW target, NEW type, NEW id, NEW c,
         \/ target \in ALLOWED[state[m]]
         \/ target = "HALTED" /\ state[m] \notin {"COMPLETE", "HALTED"},
         Move(m, target, type, id, c)
  PROVE  Replays(m)'
<1> DEFINE n == Len(ledger) + 1
<1>1. /\ DOMAIN ledger = 1 .. Len(ledger) /\ Len(ledger) \in Nat
      /\ DOMAIN ledger' = DOMAIN ledger \cup {n}
      /\ \A i \in DOMAIN ledger : ledger'[i] = ledger[i]
      /\ ledger'[n].payload = Moved(m, target, c)
  <2> DEFINE new == [id |-> id, experiment |-> ExperimentOf[m], type |-> type,
                     payload |-> Moved(m, target, c), ref |-> None]
  <2>1. ledger \in Seq(Event)
    BY DEF TypeOK
  <2>2. ledger' = Append(ledger, new) /\ new.payload = Moved(m, target, c)
    BY DEF Move, append
  <2> HIDE DEF new
  <2>3. QED
    BY <2>1, <2>2, Appending
<1>2. /\ ledger'[n].payload.by = m
      /\ ledger'[n].payload.from = state[m]
      /\ ledger'[n].payload.to = target
  BY <1>1 DEF Moved
<1>3. By(m)' = By(m) \cup {n}
  BY <1>1, <1>2 DEF By
<1>4. \A i \in By(m) : i \in Nat /\ i < n /\ ledger'[i] = ledger[i]
  BY <1>1 DEF By
<1>5. state'[m] = target
  BY DEF Move, TypeOK
<1>6. state[m] \in ExperimentState
  BY DEF TypeOK
<1>7. ASSUME NEW i \in By(m)
      PROVE  LET p == ledger'[i].payload IN
             /\ p.to \in ALLOWED[p.from] \/ p.to = "HALTED"
             /\ p.from \notin {"COMPLETE", "HALTED"}
             /\ (\A k \in By(m)' : k >= i) => p.from = "DRAFT"
             /\ (\A k \in By(m)' : k <= i) => p.to = state'[m]
             /\ \A k \in By(m)' : k < i /\ (\A l \in By(m)' : l <= k \/ l >= i) =>
                  ledger'[k].payload.to = p.from
  <2>1. ~ (n <= i) /\ ~ (n < i) /\ i \in Nat /\ n \in Nat
    BY <1>1, <1>4
  <2>2. ledger'[i] = ledger[i]
    BY <1>4
  <2>3. ASSUME \A k \in By(m)' : k >= i PROVE ledger'[i].payload.from = "DRAFT"
    BY <1>3, <2>2, <2>3 DEF Replays
  <2>4. ASSUME NEW k \in By(m)', k < i, \A l \in By(m)' : l <= k \/ l >= i
        PROVE  ledger'[k].payload.to = ledger'[i].payload.from
    <3>1. k \in By(m)
      BY <1>3, <2>1, <2>4
    <3>2. \A l \in By(m) : l <= k \/ l >= i
      BY <1>3, <2>4
    <3>3. ledger[k].payload.to = ledger[i].payload.from
      BY <3>1, <3>2, <2>4 DEF Replays
    <3>4. QED
      BY <3>1, <3>3, <2>2, <1>4
  <2>5. ~ \A k \in By(m)' : k <= i
    BY <1>3, <2>1
  <2>6. /\ ledger[i].payload.to \in ALLOWED[ledger[i].payload.from] \/ ledger[i].payload.to = "HALTED"
        /\ ledger[i].payload.from \notin {"COMPLETE", "HALTED"}
    BY DEF Replays
  <2>7. QED
    BY <2>2, <2>3, <2>4, <2>5, <2>6
<1>8. LET p == ledger'[n].payload IN
      /\ p.to \in ALLOWED[p.from] \/ p.to = "HALTED"
      /\ p.from \notin {"COMPLETE", "HALTED"}
      /\ (\A k \in By(m)' : k >= n) => p.from = "DRAFT"
      /\ (\A k \in By(m)' : k <= n) => p.to = state'[m]
      /\ \A k \in By(m)' : k < n /\ (\A l \in By(m)' : l <= k \/ l >= n) =>
           ledger'[k].payload.to = p.from
  <2>1. target \in ALLOWED[state[m]] \/ target = "HALTED"
    OBVIOUS
  <2>2. state[m] \notin {"COMPLETE", "HALTED"}
    BY <1>6, AllowedSteps
  <2>3. ASSUME \A k \in By(m)' : k >= n PROVE state[m] = "DRAFT"
    <3>1. By(m) = {}
      BY <1>3, <1>4, <2>3, <1>1
    <3>2. QED
      BY <3>1 DEF Replays
  <2>4. ASSUME NEW k \in By(m)', k < n, \A l \in By(m)' : l <= k \/ l >= n
        PROVE  ledger'[k].payload.to = state[m]
    <3>1. k \in By(m)
      BY <1>1, <1>3, <2>4
    <3>2. \A l \in By(m) : l <= k
      BY <1>1, <1>3, <1>4, <2>4
    <3>3. ledger[k].payload.to = state[m]
      BY <3>1, <3>2 DEF Replays
    <3>4. QED
      BY <3>1, <3>3, <1>4
  <2>5. QED
    BY <1>2, <1>5, <2>1, <2>2, <2>3, <2>4
<1>9. By(m)' # {}
  BY <1>3
<1>10. QED
  BY <1>3, <1>7, <1>8, <1>9 DEF Replays

\* A move keeps every machine's history.
LEMMA MoveReplays ==
  ASSUME TypeOK, LedgerReplaysMachines, NEW m \in Machines, NEW target, NEW type, NEW id, NEW c,
         \/ target \in ALLOWED[state[m]]
         \/ target = "HALTED" /\ state[m] \notin {"COMPLETE", "HALTED"},
         Move(m, target, type, id, c)
  PROVE  LedgerReplaysMachines'
<1>1. \A q \in Machines : Replays(q)
  BY DEF LedgerReplaysMachines, Replays
<1>2. Replays(m)'
  BY <1>1, MoverReplays
<1>3. ASSUME NEW q \in Machines, q # m PROVE Replays(q)'
  <2>1. Moved(m, target, c).by # q
    BY <1>3 DEF Moved
  <2>2. state'[q] = state[q]
    BY <1>3 DEF Move, TypeOK
  <2>3. append(id, ExperimentOf[m], type, Moved(m, target, c), None)
    BY DEF Move
  <2>4. QED
    BY <1>1, <2>1, <2>2, <2>3, OthersReplay
<1>4. QED
  BY <1>2, <1>3 DEF LedgerReplaysMachines, Replays

LEMMA ReplaysStep == TypeOK /\ LedgerReplaysMachines /\ [Next]_vars => LedgerReplaysMachines'
<1> SUFFICES ASSUME TypeOK, LedgerReplaysMachines, [Next]_vars PROVE LedgerReplaysMachines'
  OBVIOUS
<1>1. CASE Noted
  <2>1. PICK id \in Ids(EventNames), x \in Experiments, ref \in EventNames \cup {None},
             type \in {"OTHER", "CORRECTION"} : append(id, x, type, NoPayload, ref)
    BY <1>1 DEF Noted
  <2>2. ASSUME NEW q \in Machines PROVE Replays(q)'
    <3>1. Replays(q) /\ NoPayload.by # q /\ state'[q] = state[q]
      BY <1>1, GovernanceAssumption DEF LedgerReplaysMachines, Replays, NoPayload, Noted
    <3>2. QED
      BY <2>1, <3>1, OthersReplay
  <2>3. QED
    BY <2>2 DEF LedgerReplaysMachines, Replays
<1>2. CASE Moves
  BY <1>2, MoveReplays DEF Moves
<1>3. CASE Seals
  BY <1>3, MoveReplays DEF Seals, SealCall
<1>4. CASE UNCHANGED <<state, ledger>>
  <2>1. \A q \in Machines : By(q)' = By(q)
    BY <1>4 DEF By
  <2>2. QED
    BY <1>4, <2>1 DEF LedgerReplaysMachines
<1>5. QED
  BY <1>1, <1>2, <1>3, <1>4, Steps

\* LedgerReplaysMachines: the events of a machine are one legal path from DRAFT
\* to where it is, whatever an adapter does inside a seal (transition,
\* halt_for_conflict, seal_governed_cohort).
THEOREM HistoryIsTold == Spec => []LedgerReplaysMachines
<1>1. Init => LedgerReplaysMachines
  BY DEF Init, LedgerReplaysMachines, By
<1>2. TypeOK /\ LedgerReplaysMachines /\ [Next]_vars => LedgerReplaysMachines'
  BY ReplaysStep
<1>3. QED
  BY <1>1, <1>2, TypeCorrect, PTL DEF Spec

-----------------------------------------------------------------------------
(* Seals.                                                                  *)

\* A machine that was sealed never comes back to where a seal is possible.
SealedGoOn == \A s \in seals : state[s.machine] \notin {"DRAFT", "PREFLIGHT"}

SealInv == SealsAreLedgered /\ SealedGoOn

\* What an append of one more event means for SealsAreLedgered.
LEMMA AppendEvent ==
  ASSUME TypeOK, NEW event, ledger' = Append(ledger, event)
  PROVE  /\ \A m : \A i \in By(m) : i \in By(m)' /\ ledger'[i] = ledger[i]
         /\ \A i \in DOMAIN ledger' :
              \/ i \in DOMAIN ledger /\ ledger'[i] = ledger[i]
              \/ ledger'[i] = event
         /\ \E i \in DOMAIN ledger' : ledger'[i] = event
<1>1. ledger \in Seq(Event)
  BY DEF TypeOK
<1>2. /\ DOMAIN ledger' = DOMAIN ledger \cup {Len(ledger) + 1}
      /\ \A i \in DOMAIN ledger : ledger'[i] = ledger[i]
      /\ ledger'[Len(ledger) + 1] = event
  BY <1>1, Appending
<1>3. QED
  BY <1>2 DEF By

\* An event without a cohort, and no new seal.
LEMMA PlainSeals ==
  ASSUME TypeOK, SealsAreLedgered, NEW event, ledger' = Append(ledger, event),
         event.payload.cohort = None, UNCHANGED seals
  PROVE  SealsAreLedgered'
<1>1. \A m : \A i \in By(m) : i \in By(m)' /\ ledger'[i] = ledger[i]
  BY AppendEvent
<1>2. ASSUME NEW s \in seals
      PROVE  \E i \in By(s.machine)' :
               ledger'[i].payload.cohort = s.cohort /\ canonical(ledger'[i].id) = canonical(s.id)
  <2>1. PICK i \in By(s.machine) :
          ledger[i].payload.cohort = s.cohort /\ canonical(ledger[i].id) = canonical(s.id)
    BY DEF SealsAreLedgered
  <2>2. QED
    BY <1>1, <2>1
<1>3. \A i \in DOMAIN ledger' :
        ledger'[i].payload.cohort # None =>
          \E s \in seals' : s.machine = ledger'[i].payload.by /\ s.cohort = ledger'[i].payload.cohort
  BY AppendEvent DEF SealsAreLedgered
<1>4. \A s, t \in seals' : s.machine = t.machine => s = t
  BY DEF SealsAreLedgered
<1>5. QED
  BY <1>2, <1>3, <1>4 DEF SealsAreLedgered

LEMMA SealStep == TypeOK /\ SealInv /\ [Next]_vars => SealInv'
<1> SUFFICES ASSUME TypeOK, SealInv, [Next]_vars PROVE SealInv'
  OBVIOUS
<1> USE DEF SealInv
<1>1. CASE Noted
  <2>1. PICK id \in Ids(EventNames), x \in Experiments, ref \in EventNames \cup {None},
             type \in {"OTHER", "CORRECTION"} : append(id, x, type, NoPayload, ref)
    BY <1>1 DEF Noted
  <2> DEFINE event == [id |-> id, experiment |-> x, type |-> type, payload |-> NoPayload, ref |-> ref]
  <2>2. ledger' = Append(ledger, event) /\ event.payload.cohort = None
    BY <2>1 DEF append, NoPayload
  <2>3. UNCHANGED <<state, seals>>
    BY <1>1 DEF Noted
  <2> HIDE DEF event
  <2>4. SealsAreLedgered'
    BY <2>2, <2>3, PlainSeals
  <2>5. SealedGoOn'
    BY <2>3 DEF SealedGoOn
  <2>6. QED
    BY <2>4, <2>5
<1>2. CASE Moves
  <2>1. PICK m \in Machines, target \in ExperimentState, type \in {"STATE_TRANSITION", "HALT"},
             id \in Ids(EventNames) :
               /\ \/ target \in ALLOWED[state[m]]
                  \/ target = "HALTED" /\ state[m] \notin {"COMPLETE", "HALTED"}
               /\ Move(m, target, type, id, None)
    BY <1>2 DEF Moves
  <2> DEFINE event == [id |-> id, experiment |-> ExperimentOf[m], type |-> type,
                       payload |-> Moved(m, target, None), ref |-> None]
  <2>2. ledger' = Append(ledger, event) /\ event.payload.cohort = None
    BY <2>1 DEF Move, append, Moved
  <2>3. UNCHANGED seals
    BY <1>2 DEF Moves
  <2> HIDE DEF event
  <2>4. SealsAreLedgered'
    BY <2>2, <2>3, PlainSeals
  <2>5. state[m] \notin {"DRAFT", "PREFLIGHT"} => target \notin {"DRAFT", "PREFLIGHT"}
    BY <2>1, AllowedSteps DEF TypeOK
  <2>6. \A q \in Machines : state'[q] = IF q = m THEN target ELSE state[q]
    BY <2>1 DEF Move, TypeOK
  <2>7. \A s \in seals : s.machine \in Machines
    BY DEF TypeOK, SealCall
  <2>8. SealedGoOn'
    BY <2>3, <2>5, <2>6, <2>7 DEF SealedGoOn
  <2>9. QED
    BY <2>4, <2>8
<1>3. CASE Seals
  <2>1. PICK call \in SealCall :
          /\ "SEALED" \in ALLOWED[state[call.machine]]
          /\ Move(call.machine, "SEALED", "STATE_TRANSITION", call.id, call.cohort)
          /\ seals' = seals \cup {call}
    BY <1>3 DEF Seals
  <2> DEFINE event == [id |-> call.id, experiment |-> ExperimentOf[call.machine],
                       type |-> "STATE_TRANSITION",
                       payload |-> Moved(call.machine, "SEALED", call.cohort), ref |-> None]
  <2>2. /\ ledger' = Append(ledger, event)
        /\ event.payload.by = call.machine
        /\ event.payload.cohort = call.cohort
        /\ event.id = call.id
    BY <2>1 DEF Move, append, Moved
  <2> HIDE DEF event
  <2>3. call.machine \in Machines /\ \A s \in seals : s.machine \in Machines
    BY DEF TypeOK, SealCall
  <2>4. state[call.machine] = "PREFLIGHT"
    BY <2>1, <2>3, AllowedSteps DEF TypeOK
  <2>5. \A s \in seals : s.machine # call.machine
    BY <2>4 DEF SealedGoOn
  <2>6. /\ \A m : \A i \in By(m) : i \in By(m)' /\ ledger'[i] = ledger[i]
        /\ \A i \in DOMAIN ledger' :
             \/ i \in DOMAIN ledger /\ ledger'[i] = ledger[i]
             \/ ledger'[i] = event
        /\ \E i \in DOMAIN ledger' : ledger'[i] = event
    BY <2>2, AppendEvent
  <2>7. \A s \in seals :
          \E i \in By(s.machine)' :
            ledger'[i].payload.cohort = s.cohort /\ canonical(ledger'[i].id) = canonical(s.id)
    BY <2>6 DEF SealsAreLedgered
  <2>8. \E i \in By(call.machine)' :
          ledger'[i].payload.cohort = call.cohort /\ canonical(ledger'[i].id) = canonical(call.id)
    BY <2>2, <2>6 DEF By
  <2>9. \A i \in DOMAIN ledger' :
          ledger'[i].payload.cohort # None =>
            \E s \in seals' : s.machine = ledger'[i].payload.by /\ s.cohort = ledger'[i].payload.cohort
    BY <2>1, <2>2, <2>6 DEF SealsAreLedgered
  <2>10. \A s, t \in seals' : s.machine = t.machine => s = t
    BY <2>1, <2>5 DEF SealsAreLedgered
  <2>11. SealsAreLedgered'
    BY <2>1, <2>7, <2>8, <2>9, <2>10 DEF SealsAreLedgered
  <2>12. \A q \in Machines : state'[q] = IF q = call.machine THEN "SEALED" ELSE state[q]
    BY <2>1 DEF Move, TypeOK
  <2>13. SealedGoOn'
    BY <2>1, <2>3, <2>12 DEF SealedGoOn
  <2>14. QED
    BY <2>11, <2>13
<1>4. CASE UNCHANGED <<state, ledger, seals>>
  BY <1>4 DEF SealsAreLedgered, SealedGoOn, By
<1>5. QED
  BY <1>1, <1>2, <1>3, <1>4, Steps

\* SealsAreLedgered: seals handed out and seal events in the ledger are the same,
\* one per machine at most, for any nesting of seal_governed_cohort calls.
THEOREM NoSealLost == Spec => []SealsAreLedgered
<1>1. Init => SealInv
  BY DEF Init, SealInv, SealsAreLedgered, SealedGoOn
<1>2. TypeOK /\ SealInv /\ [Next]_vars => SealInv'
  BY SealStep
<1>3. SealInv => SealsAreLedgered
  BY DEF SealInv
<1>4. QED
  BY <1>1, <1>2, <1>3, TypeCorrect, PTL DEF Spec

-----------------------------------------------------------------------------
(* Sealing around an adapter is atomic.                                    *)

SealsOf == {[machine |-> s.machine, cohort |-> s.cohort] : s \in seals}

LEMMA AtomicStep ==
  ASSUME TypeOK, [Next]_vars
  PROVE  [Atomic!Next]_<<state, SealsOf>>
<1>1. UNCHANGED seals => SealsOf' = SealsOf
  BY DEF SealsOf
<1>2. CASE Noted \/ UNCHANGED <<state, ledger, seals>>
  BY <1>1, <1>2 DEF Noted
<1>3. CASE Moves
  <2>1. PICK m \in Machines, target \in ExperimentState, type \in {"STATE_TRANSITION", "HALT"},
             id \in Ids(EventNames) :
               /\ \/ target \in ALLOWED[state[m]]
                  \/ target = "HALTED" /\ state[m] \notin {"COMPLETE", "HALTED"}
               /\ Move(m, target, type, id, None)
    BY <1>3 DEF Moves
  <2>2. SealsOf' = SealsOf
    BY <1>1, <1>3 DEF Moves
  <2>3. Atomic!Advance(m) \/ Atomic!Halt(m)
    BY <2>1, <2>2 DEF Move, Atomic!Advance, Atomic!Halt, SealsOf, ALLOWED
  <2>4. QED
    BY <2>3 DEF Atomic!Next
<1>4. CASE Seals
  <2>1. PICK call \in SealCall :
          /\ "SEALED" \in ALLOWED[state[call.machine]]
          /\ Move(call.machine, "SEALED", "STATE_TRANSITION", call.id, call.cohort)
          /\ seals' = seals \cup {call}
    BY <1>4 DEF Seals
  <2>2. call.machine \in Machines /\ call.cohort \in Cohorts
    BY DEF SealCall
  <2>3. state[call.machine] = "PREFLIGHT"
    BY <2>1, <2>2, AllowedSteps DEF TypeOK
  <2>4. SealsOf' = SealsOf \cup {[machine |-> call.machine, cohort |-> call.cohort]}
    BY <2>1 DEF SealsOf
  <2>5. Atomic!Seal(call.machine, call.cohort)
    BY <2>1, <2>3, <2>4 DEF Move, Atomic!Seal, SealsOf
  <2>6. QED
    BY <2>2, <2>5 DEF Atomic!Next
<1>5. QED
  BY <1>2, <1>3, <1>4, Steps

\* RefinesAtomicSealing: prepare, adapter, transition and attach of
\* seal_governed_cohort together are one step from PREFLIGHT to SEALED.
THEOREM SealingIsAtomic == Spec => RefinesAtomicSealing
<1>1. Init => Atomic!Init
  BY DEF Init, Atomic!Init
<1>2. TypeOK /\ [Next]_vars => [Atomic!Next]_<<state, SealsOf>>
  BY AtomicStep
<1>3. QED
  BY <1>1, <1>2, TypeCorrect, PTL DEF Spec, RefinesAtomicSealing, Atomic!Spec, SealsOf

=============================================================================
