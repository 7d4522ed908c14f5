-------------------------- MODULE TrialStore_proofs --------------------------
(***************************************************************************)
(* Proofs about TrialStore for every set of trials and runs of the script, *)
(* and every stopping rule.                                                *)
(*                                                                         *)
(* Runs that overlap: what a run loaded stays in the store, whatever others *)
(* append, as long as every line is whole; the trials it analyses are      *)
(* distinct because it searched the list it loaded, not because the store  *)
(* holds no duplicates.                                                    *)
(*                                                                         *)
(* Runs one after the other: a run that is about to append still holds the *)
(* whole store in memory, so its line continues the chain.                 *)
(***************************************************************************)
EXTENDS TrialStore, FiniteSetTheorems, SequenceTheorems, TLAPS

Distinct(trials) ==
  \A i, k \in DOMAIN trials : trials[i].id = trials[k].id => i = k

AllIn(trials, lines) ==
  \A i \in DOMAIN trials : \E k \in DOMAIN lines : lines[k].trial = trials[i]

\* What a run that is under way knows.
RunInv(p) ==
  pc[p] # "idle" =>
    /\ own[p] \in Trial
    /\ Distinct(Analysed(p))
    /\ Whole(store) => AllIn(loaded[p], store)
    /\ Whole(store) /\ pc[p] \in {"appended", "recorded"} => AllIn(<<own[p]>>, store)

\* What a decision to stop rests on.
DecisionInv ==
  statistics.mayStop =>
    /\ Distinct(statistics.trials)
    /\ Cardinality(Valid(statistics.trials)) >= MinValid
    /\ Whole(store) => AllIn(statistics.trials, store)

Inv == TypeOK /\ (\A p \in Ingests : RunInv(p)) /\ DecisionInv

-----------------------------------------------------------------------------
(* The store.                                                              *)

\* The lines that were there stay where they were, or are lost.
Kept ==
  /\ Len(store') >= Len(store)
  /\ \A i \in 1 .. Len(store) : store'[i] = store[i] \/ store'[i] = Torn

\* An append may spoil the line it comes after, and changes no other.
LEMMA AddLineTypes ==
  ASSUME TypeOK, NEW line \in Line \cup {Torn}, AddLine(line)
  PROVE  store' \in Seq(Line \cup {Torn}) /\ Kept
  BY DEF TypeOK, AddLine, Kept

LEMMA SameStore == ASSUME TypeOK, store' = store PROVE Kept
  BY DEF TypeOK, Kept

\* A whole store was whole before, and still holds what it held.
LEMMA KeptWhole ==
  ASSUME TypeOK, TypeOK', Kept, Whole(store')
  PROVE  /\ Whole(store)
         /\ \A trials : AllIn(trials, store) => AllIn(trials, store')
  <1>1. /\ DOMAIN store = 1 .. Len(store) /\ DOMAIN store' = 1 .. Len(store')
        /\ Len(store) \in Nat /\ Len(store') \in Nat
    BY DEF TypeOK
  <1>2. \A k \in DOMAIN store : k \in DOMAIN store' /\ store'[k] = store[k]
    BY <1>1 DEF Kept, Whole
  <1>. QED BY <1>2 DEF Whole, AllIn

\* A line that is whole after an append is the one that was appended.
LEMMA Appended ==
  ASSUME TypeOK, NEW line \in Line, AddLine(line), Whole(store')
  PROVE  \E k \in DOMAIN store' : store'[k] = line
  <1>1. store \in Seq(Line \cup {Torn})
    BY DEF TypeOK
  <1>2. CASE store # << >> /\ ~ended
    <2>1. Len(store) \in DOMAIN store' /\ store'[Len(store)] = Torn
      BY <1>1, <1>2 DEF AddLine
    <2>. QED BY <2>1 DEF Whole
  <1>3. CASE ~(store # << >> /\ ~ended)
    <2>1. store' = Append(store, line)
      BY <1>3 DEF AddLine
    <2>2. Len(store) + 1 \in DOMAIN store' /\ store'[Len(store) + 1] = line
      BY <1>1, <2>1
    <2>. QED BY <2>2
  <1>. QED BY <1>2, <1>3

-----------------------------------------------------------------------------
(* One step at a time.                                                     *)

\* A run that a step leaves alone keeps what it knows.
LEMMA OtherRun ==
  ASSUME TypeOK, TypeOK', Kept, NEW p \in Ingests, RunInv(p),
         pc'[p] = pc[p], loaded'[p] = loaded[p], own'[p] = own[p]
  PROVE  RunInv(p)'
  BY KeptWhole DEF RunInv, Analysed

\* A decision that a step leaves alone keeps what it rests on.
LEMMA SameDecision ==
  ASSUME TypeOK, TypeOK', Kept, DecisionInv,
         statistics'.trials = statistics.trials, statistics'.mayStop = statistics.mayStop
  PROVE  DecisionInv'
  BY KeptWhole DEF DecisionInv, Valid

\* A trial that is not in the list makes it no less distinct.
LEMMA AppendDistinct ==
  ASSUME NEW trials \in Seq(Trial), NEW t \in Trial, Distinct(trials), ~Contains(trials, t.id)
  PROVE  Distinct(Append(trials, t))
  <1> DEFINE longer == Append(trials, t)
  <1>1. /\ DOMAIN longer = 1 .. Len(trials) + 1 /\ DOMAIN trials = 1 .. Len(trials)
        /\ longer[Len(trials) + 1] = t /\ Len(trials) \in Nat
        /\ \A i \in 1 .. Len(trials) : longer[i] = trials[i]
    OBVIOUS
  <1>2. \A i \in 1 .. Len(trials) : trials[i].id # t.id
    BY <1>1 DEF Contains
  <1>. QED BY <1>1, <1>2 DEF Distinct

LEMMA LoadKeepsInv ==
  ASSUME Inv, NEW p \in Ingests, NEW t \in Trial, Load(p, t)
  PROVE  Inv'
  <1>1. Whole(store) /\ Chained(store) /\ NoDuplicates(store) /\ ~Contains(TrialsIn(store), t.id)
    BY DEF Load, Loadable
  <1>2. DOMAIN store = 1 .. Len(store) /\ Len(store) \in Nat /\ \A i \in DOMAIN store : store[i] \in Line
    BY <1>1 DEF Inv, TypeOK, Whole
  <1>3. TrialsIn(store) \in Seq(Trial)
    BY <1>2 DEF TrialsIn, Line
  <1>4. TypeOK'
    BY <1>3 DEF Load, Inv, TypeOK
  <1>5. Kept
    BY SameStore DEF Load, Inv
  <1>6. DOMAIN TrialsIn(store) = DOMAIN store /\ \A i \in DOMAIN store : TrialsIn(store)[i] = store[i].trial
    BY DEF TrialsIn
  <1>7. Distinct(TrialsIn(store)) /\ AllIn(TrialsIn(store), store)
    BY <1>1, <1>6 DEF Distinct, AllIn, NoDuplicates
  <1>8. Distinct(Append(TrialsIn(store), t))
    BY <1>1, <1>3, <1>7, AppendDistinct
  <1>9. /\ pc'[p] = "loaded" /\ loaded'[p] = TrialsIn(store) /\ own'[p] = t /\ store' = store
        /\ statistics' = statistics
    BY DEF Load, Inv, TypeOK
  <1>10. RunInv(p)'
    BY <1>7, <1>8, <1>9 DEF RunInv, Analysed
  <1>11. \A q \in Ingests \ {p} : RunInv(q)'
    <2>1. \A q \in Ingests \ {p} : pc'[q] = pc[q] /\ loaded'[q] = loaded[q] /\ own'[q] = own[q]
      BY DEF Load, Inv, TypeOK
    <2>. QED BY <1>4, <1>5, <2>1, OtherRun DEF Inv
  <1>12. DecisionInv'
    BY <1>4, <1>5, <1>9, SameDecision DEF Inv
  <1>. QED BY <1>4, <1>10, <1>11, <1>12 DEF Inv

LEMMA AppendKeepsInv ==
  ASSUME Inv, NEW p \in Ingests, AppendTrial(p)
  PROVE  Inv'
  <1> DEFINE line == OwnLine(p)
  <1>1. pc[p] = "loaded" /\ own[p] \in Trial /\ loaded[p] \in Seq(Trial) /\ AddLine(line)
    BY DEF AppendTrial, Inv, RunInv, TypeOK
  <1>2. line \in Line /\ line.trial = own[p]
    BY <1>1 DEF Line, OwnLine
  <1> HIDE DEF line
  <1>3. store' \in Seq(Line \cup {Torn}) /\ Kept
    BY <1>1, <1>2, AddLineTypes DEF Inv
  <1>4. TypeOK'
    BY <1>3 DEF AppendTrial, Inv, TypeOK
  <1>5. Whole(store') => AllIn(<<own[p]>>, store')
    BY <1>1, <1>2, Appended DEF Inv, AllIn
  <1>6. /\ pc'[p] = "appended" /\ loaded' = loaded /\ own' = own /\ statistics' = statistics
        /\ \A q \in Ingests \ {p} : pc'[q] = pc[q]
    BY DEF AppendTrial, Inv, TypeOK
  <1>7. RunInv(p)'
    BY <1>1, <1>3, <1>4, <1>5, <1>6, KeptWhole DEF Inv, RunInv, Analysed
  <1>8. \A q \in Ingests \ {p} : RunInv(q)'
    BY <1>3, <1>4, <1>6, OtherRun DEF Inv
  <1>9. DecisionInv'
    BY <1>3, <1>4, <1>6, SameDecision DEF Inv
  <1>. QED BY <1>4, <1>7, <1>8, <1>9 DEF Inv

LEMMA RecordsKeepInv ==
  ASSUME Inv, NEW p \in Ingests, WriteTrialRecords(p)
  PROVE  Inv'
  <1>1. own[p] \in Trial /\ pc[p] = "appended"
    BY DEF WriteTrialRecords, Inv, RunInv
  <1>2. TypeOK'
    BY <1>1 DEF WriteTrialRecords, Inv, TypeOK, Trial
  <1>3. Kept
    BY SameStore DEF WriteTrialRecords, Inv
  <1>4. /\ pc'[p] = "recorded" /\ loaded' = loaded /\ own' = own /\ statistics' = statistics
        /\ store' = store /\ \A q \in Ingests \ {p} : pc'[q] = pc[q]
    BY DEF WriteTrialRecords, Inv, TypeOK
  <1>5. RunInv(p)'
    BY <1>1, <1>4 DEF Inv, RunInv, Analysed
  <1>6. \A q \in Ingests \ {p} : RunInv(q)'
    BY <1>2, <1>3, <1>4, OtherRun DEF Inv
  <1>7. DecisionInv'
    BY <1>2, <1>3, <1>4, SameDecision DEF Inv
  <1>. QED BY <1>2, <1>5, <1>6, <1>7 DEF Inv

\* What a run analyses is in the store once its own trial is.
LEMMA AnalysedIn ==
  ASSUME Inv, NEW p \in Ingests, pc[p] = "recorded", Whole(store)
  PROVE  AllIn(Analysed(p), store)
  <1>1. /\ loaded[p] \in Seq(Trial) /\ AllIn(loaded[p], store) /\ AllIn(<<own[p]>>, store)
        /\ own[p] \in Trial
    BY DEF Inv, RunInv, TypeOK
  <1>2. /\ DOMAIN Analysed(p) = 1 .. Len(loaded[p]) + 1 /\ DOMAIN loaded[p] = 1 .. Len(loaded[p])
        /\ Analysed(p)[Len(loaded[p]) + 1] = own[p] /\ Len(loaded[p]) \in Nat
        /\ \A i \in 1 .. Len(loaded[p]) : Analysed(p)[i] = loaded[p][i]
    BY <1>1 DEF Analysed
  <1>3. \E k \in DOMAIN store : store[k].trial = own[p]
    BY <1>1 DEF AllIn
  <1>. QED BY <1>1, <1>2, <1>3 DEF AllIn

\* A run that ends leaves the other runs.
LEMMA EndsTypes ==
  ASSUME TypeOK, NEW p \in Ingests, Ends(p)
  PROVE  /\ pc' \in [Ingests -> {"idle", "loaded", "appended", "recorded"}]
         /\ loaded' \in [Ingests -> Seq(Trial)]
         /\ own' \in [Ingests -> Trial \cup {NoTrial}]
  BY DEF Ends, TypeOK

LEMMA StatisticsKeepInv ==
  ASSUME Inv, NEW p \in Ingests, NEW narrow \in BOOLEAN, NEW belowHalf \in BOOLEAN,
         WriteStatistics(p, narrow, belowHalf)
  PROVE  Inv'
  <1> DEFINE n == Cardinality(Valid(Analysed(p)))
             stop == n > 0 /\ MayStop(n, narrow, belowHalf)
  <1>1. pc[p] = "recorded" /\ own[p] \in Trial /\ Distinct(Analysed(p)) /\ loaded[p] \in Seq(Trial)
    BY DEF WriteStatistics, Inv, RunInv, TypeOK
  <1>2. Analysed(p) \in Seq(Trial)
    BY <1>1 DEF Analysed
  <1>3. stop \in BOOLEAN /\ FALSE \in BOOLEAN
    OBVIOUS
  <1>4. stop => n >= MinValid
    BY DEF MayStop
  <1>5. statistics' = [trials |-> Analysed(p), mayStop |-> stop, torn |-> FALSE]
    BY DEF WriteStatistics
  <1> HIDE DEF stop
  <1>6. /\ statistics'.trials = Analysed(p) /\ statistics'.mayStop = stop
        /\ statistics' \in Statistics
    BY <1>2, <1>3, <1>5 DEF Statistics
  <1>7. /\ pc'[p] = "idle" /\ store' = store
        /\ \A q \in Ingests \ {p} : pc'[q] = pc[q] /\ loaded'[q] = loaded[q] /\ own'[q] = own[q]
    BY DEF WriteStatistics, Ends, Inv, TypeOK
  <1>8. TypeOK'
    BY <1>6, EndsTypes DEF WriteStatistics, Inv, TypeOK
  <1>9. Kept
    BY <1>7, SameStore DEF Inv
  <1>10. RunInv(p)'
    BY <1>7 DEF RunInv
  <1>11. \A q \in Ingests \ {p} : RunInv(q)'
    BY <1>7, <1>8, <1>9, OtherRun DEF Inv
  <1>12. Whole(store) => AllIn(Analysed(p), store)
    BY <1>1, AnalysedIn
  <1>13. DecisionInv'
    BY <1>1, <1>4, <1>6, <1>7, <1>12 DEF DecisionInv, Valid
  <1>. QED BY <1>8, <1>10, <1>11, <1>13 DEF Inv

LEMMA FailKeepsInv ==
  ASSUME Inv, NEW p \in Ingests, Fail(p)
  PROVE  Inv'
  <1>1. store' \in Seq(Line \cup {Torn}) /\ Kept
    <2>1. pc[p] = "loaded" => OwnLine(p) \in Line \cup {Torn}
      BY DEF Inv, RunInv, TypeOK, OwnLine, Line
    <2>. QED BY <2>1, AddLineTypes, SameStore DEF Fail, Inv, TypeOK
  <1>2. /\ statistics' \in Statistics /\ statistics'.trials = statistics.trials
        /\ statistics'.mayStop = statistics.mayStop
    <2>1. TRUE \in BOOLEAN
      OBVIOUS
    <2>2. statistics' = statistics \/ statistics' = [statistics EXCEPT !.torn = TRUE]
      BY DEF Fail
    <2>. QED BY <2>1, <2>2 DEF Inv, TypeOK, Statistics
  <1>3. trialRecords' \in Trials \cup {NoTrial, Torn}
    BY DEF Fail, Inv, TypeOK
  <1>4. /\ pc'[p] = "idle"
        /\ \A q \in Ingests \ {p} : pc'[q] = pc[q] /\ loaded'[q] = loaded[q] /\ own'[q] = own[q]
    BY DEF Fail, Ends, Inv, TypeOK
  <1>5. TypeOK'
    <2>1. /\ pc' \in [Ingests -> {"idle", "loaded", "appended", "recorded"}]
          /\ loaded' \in [Ingests -> Seq(Trial)]
          /\ own' \in [Ingests -> Trial \cup {NoTrial}]
      BY EndsTypes DEF Fail, Inv
    <2>2. orderly' \in BOOLEAN
      BY DEF Fail, Inv, TypeOK
    <2>3. ended' \in BOOLEAN
      <3>1. TRUE \in BOOLEAN /\ FALSE \in BOOLEAN
        OBVIOUS
      <3>2. QED
        BY <3>1 DEF Fail, Inv, TypeOK
    <2>. QED BY <1>1, <1>2, <1>3, <1>4, <2>1, <2>2, <2>3 DEF Inv, TypeOK
  <1>6. RunInv(p)'
    BY <1>4 DEF RunInv
  <1>7. \A q \in Ingests \ {p} : RunInv(q)'
    BY <1>1, <1>4, <1>5, OtherRun DEF Inv
  <1>8. DecisionInv'
    BY <1>1, <1>2, <1>5, SameDecision DEF Inv
  <1>. QED BY <1>5, <1>6, <1>7, <1>8 DEF Inv

-----------------------------------------------------------------------------
(* Overlapping runs.                                                       *)

LEMMA InitInv == Init => Inv
  <1> SUFFICES ASSUME Init PROVE Inv
    OBVIOUS
  <1>1. FALSE \in BOOLEAN /\ << >> \in Seq(Trial) /\ << >> \in Seq(Line \cup {Torn})
    OBVIOUS
  <1>2. NoStatistics \in Statistics /\ NoStatistics.mayStop = FALSE
    BY <1>1 DEF Statistics, NoStatistics
  <1>3. TypeOK
    BY <1>1, <1>2 DEF Init, TypeOK
  <1>. QED BY <1>2, <1>3 DEF Init, Inv, RunInv, DecisionInv

LEMMA NextInv == Inv /\ [Next]_vars => Inv'
  <1> SUFFICES ASSUME Inv, [Next]_vars PROVE Inv'
    OBVIOUS
  <1>1. CASE UNCHANGED vars
    BY <1>1 DEF vars, Inv, TypeOK, RunInv, DecisionInv, Analysed
  <1>. QED
    BY <1>1, LoadKeepsInv, AppendKeepsInv, RecordsKeepInv, StatisticsKeepInv, FailKeepsInv
    DEF Next

\* The inductive invariant, for runs that overlap and fail in any way.
THEOREM Invariance == Spec => []Inv
  BY InitInv, NextInv, PTL DEF Spec

\* The types of the store and of its runs hold for ever.
THEOREM TypeCorrect == Spec => []TypeOK
  <1>1. Inv => TypeOK
    BY DEF Inv
  <1>. QED BY <1>1, Invariance, PTL

\* Distinct trials are counted once each.
LEMMA CountOfDistinct ==
  ASSUME NEW trials \in Seq(Trial), Distinct(trials)
  PROVE  Cardinality({trials[i].id : i \in Valid(trials)}) = Cardinality(Valid(trials))
  <1> DEFINE ids == {trials[i].id : i \in Valid(trials)}
             f == [i \in Valid(trials) |-> trials[i].id]
  <1>1. IsFiniteSet(1 .. Len(trials)) /\ Valid(trials) \in SUBSET (1 .. Len(trials))
    BY FS_Interval DEF Valid
  <1>2. IsFiniteSet(Valid(trials))
    BY <1>1, FS_Subset
  <1>3. f \in Surjection(Valid(trials), ids)
    BY DEF Surjection
  <1>4. f \in Injection(Valid(trials), ids)
    BY <1>3 DEF Injection, IsInjective, Surjection, Distinct, Valid
  <1>. QED BY <1>2, <1>3, <1>4, FS_Surjection

\* A decision that collection may stop rests on enough distinct valid trials
\* that are in the store, however runs overlap and fail.
THEOREM StopIsEarned == Spec => []StopDecisionIsEarned
  <1>1. Inv => StopDecisionIsEarned
    <2> SUFFICES ASSUME Inv, Whole(store), statistics.mayStop
                 PROVE  /\ Cardinality({statistics.trials[i].id : i \in Valid(statistics.trials)}) >= MinValid
                        /\ \A i \in Valid(statistics.trials) :
                             \E k \in DOMAIN store : store[k].trial = statistics.trials[i]
      BY DEF StopDecisionIsEarned
    <2>1. statistics.trials \in Seq(Trial)
      BY DEF Inv, TypeOK, Statistics
    <2>2. /\ Distinct(statistics.trials) /\ Cardinality(Valid(statistics.trials)) >= MinValid
          /\ AllIn(statistics.trials, store)
      BY DEF Inv, DecisionInv
    <2>3. Cardinality({statistics.trials[i].id : i \in Valid(statistics.trials)}) >= MinValid
      BY <2>1, <2>2, CountOfDistinct
    <2>. QED BY <2>2, <2>3 DEF AllIn, Valid
  <1>. QED BY <1>1, Invariance, PTL

-----------------------------------------------------------------------------
(* One run after the other, appends that are whole or not made at all.     *)

\* The store loads and ends with a newline; the only run under way still knows all of it; the
\* statistics count a first part of it.
SerialInv ==
  /\ Loadable(store) /\ ended
  /\ \A p, q \in Ingests : pc[p] # "idle" /\ pc[q] # "idle" => p = q
  /\ \A p \in Ingests : pc[p] = "loaded" =>
       /\ loaded[p] = TrialsIn(store)
       /\ ~Contains(TrialsIn(store), own[p].id)
  /\ \A p \in Ingests : pc[p] \in {"appended", "recorded"} => Analysed(p) = TrialsIn(store)
  /\ \A i \in DOMAIN statistics.trials :
       /\ i \in DOMAIN store
       /\ statistics.trials[i] = store[i].trial

\* The trials of a whole store are a sequence of trials.
LEMMA TrialsOf ==
  ASSUME NEW lines \in Seq(Line \cup {Torn}), Whole(lines)
  PROVE  /\ TrialsIn(lines) \in Seq(Trial)
         /\ Len(TrialsIn(lines)) = Len(lines)
         /\ \A i \in 1 .. Len(lines) : TrialsIn(lines)[i] = lines[i].trial
         /\ \A i \in 1 .. Len(lines) : lines[i] \in Line
  <1>1. DOMAIN lines = 1 .. Len(lines) /\ Len(lines) \in Nat /\ \A i \in DOMAIN lines : lines[i] \in Line
    BY DEF Whole
  <1>. QED BY <1>1 DEF TrialsIn, Line

\* A line that names the whole store as its predecessor, for a new trial,
\* keeps the store loadable and adds the trial at its end.
LEMMA AppendLoadable ==
  ASSUME TypeOK, Loadable(store), ended, NEW line \in Line, AddLine(line),
         line.after = TrialsIn(store), ~Contains(TrialsIn(store), line.trial.id)
  PROVE  /\ Loadable(store')
         /\ store' = Append(store, line)
         /\ TrialsIn(store') = Append(TrialsIn(store), line.trial)
  <1> DEFINE longer == Append(store, line)
             old == TrialsIn(store)
             new == TrialsIn(longer)
             n == Len(store)
  <1>1. store \in Seq(Line \cup {Torn}) /\ Whole(store) /\ Chained(store) /\ NoDuplicates(store)
    BY DEF TypeOK, Loadable
  <1>2. /\ old \in Seq(Trial) /\ Len(old) = n /\ n \in Nat
        /\ \A i \in 1 .. n : old[i] = store[i].trial
        /\ \A i \in 1 .. n : store[i] \in Line
    BY <1>1, TrialsOf
  <1>3. store' = longer
    BY DEF AddLine
  <1>4. /\ longer \in Seq(Line \cup {Torn}) /\ Len(longer) = n + 1 /\ longer[n + 1] = line
        /\ DOMAIN longer = 1 .. n + 1 /\ DOMAIN store = 1 .. n
        /\ \A i \in 1 .. n : longer[i] = store[i]
    BY <1>1, <1>2
  <1>5. Whole(longer)
    <2>1. line # Torn
      BY StoreAssumption DEF Line, Trial
    <2> SUFFICES ASSUME NEW i \in 1 .. n + 1 PROVE longer[i] # Torn
      BY <1>4 DEF Whole
    <2>2. CASE i \in 1 .. n
      BY <1>1, <1>4, <2>2 DEF Whole
    <2>3. CASE i = n + 1
      BY <1>4, <2>1, <2>3
    <2>. QED BY <1>2, <2>2, <2>3
  <1>6. /\ new \in Seq(Trial) /\ Len(new) = n + 1 /\ \A i \in 1 .. n + 1 : new[i] = longer[i].trial
    BY <1>4, <1>5, TrialsOf
  <1>7. /\ \A i \in 1 .. n : new[i] = old[i]
        /\ new[n + 1] = line.trial
    BY <1>2, <1>4, <1>6
  <1>8. new = Append(old, line.trial)
    <2>1. line.trial \in Trial
      BY DEF Line
    <2>2. /\ Append(old, line.trial) \in Seq(Trial) /\ Len(Append(old, line.trial)) = n + 1
          /\ \A i \in 1 .. n : Append(old, line.trial)[i] = old[i]
          /\ Append(old, line.trial)[n + 1] = line.trial
      BY <1>2, <2>1
    <2>. QED BY <1>2, <1>6, <1>7, <2>2, SeqEqual
  <1>9. ASSUME NEW i \in 1 .. n + 1
        PROVE  SubSeq(new, 1, i - 1) = SubSeq(old, 1, i - 1)
    <2>1. i - 1 \in 0 .. n
      BY <1>2
    <2>2. /\ SubSeq(new, 1, i - 1) \in Seq(Trial) /\ Len(SubSeq(new, 1, i - 1)) = i - 1
          /\ SubSeq(old, 1, i - 1) \in Seq(Trial) /\ Len(SubSeq(old, 1, i - 1)) = i - 1
          /\ \A k \in 1 .. i - 1 : SubSeq(new, 1, i - 1)[k] = new[k]
          /\ \A k \in 1 .. i - 1 : SubSeq(old, 1, i - 1)[k] = old[k]
      BY <1>2, <1>6, <2>1
    <2>. QED BY <1>2, <1>7, <2>1, <2>2, SeqEqual
  <1>10. SubSeq(old, 1, n) = old
    BY <1>2
  <1>11. Chained(longer)
    <2> SUFFICES ASSUME NEW i \in 1 .. n + 1 PROVE longer[i].after = SubSeq(new, 1, i - 1)
      BY <1>4 DEF Chained
    <2>1. CASE i \in 1 .. n
      BY <1>1, <1>4, <1>9, <2>1 DEF Chained
    <2>2. CASE i = n + 1
      <3>1. longer[i].after = old /\ i - 1 = n
        BY <1>2, <1>4, <2>2
      <3>. QED BY <1>9, <1>10, <3>1
    <2>. QED BY <1>2, <2>1, <2>2
  <1>12. \A i \in 1 .. n : store[i].trial.id # line.trial.id
    <2>1. \A i \in DOMAIN old : old[i].id # line.trial.id
      BY DEF Contains
    <2>. QED BY <1>2, <2>1
  <1>13. NoDuplicates(longer)
    <2> SUFFICES ASSUME NEW i \in 1 .. n + 1, NEW k \in 1 .. n + 1,
                        longer[i].trial.id = longer[k].trial.id
                 PROVE  i = k
      BY <1>4 DEF NoDuplicates
    <2>1. CASE i \in 1 .. n /\ k \in 1 .. n
      <3>1. store[i].trial.id = store[k].trial.id
        BY <1>4, <2>1
      <3>. QED BY <1>1, <1>4, <2>1, <3>1 DEF NoDuplicates
    <2>2. CASE i \in 1 .. n /\ k = n + 1
      BY <1>4, <1>12, <2>2
    <2>3. CASE i = n + 1 /\ k \in 1 .. n
      BY <1>4, <1>12, <2>3
    <2>. QED BY <1>2, <2>1, <2>2, <2>3
  <1>. QED BY <1>3, <1>5, <1>8, <1>11, <1>13 DEF Loadable

\* Every step keeps the invariant, and what it does to the store and to the
\* statistics.
LEMMA SerialNext ==
  ASSUME orderly, Inv, SerialInv, [Next]_vars
  PROVE  /\ SerialInv'
         /\ \/ store' = store
            \/ \E line \in Line : /\ store' = Append(store, line)
                                  /\ ~Contains(TrialsIn(store), line.trial.id)
                                  /\ TrialsIn(store') = Append(TrialsIn(store), line.trial)
         /\ \/ statistics'.trials = statistics.trials
            \/ statistics'.trials = TrialsIn(store)
  <1>1. ASSUME NEW p \in Ingests, NEW t \in Trial, Load(p, t)
        PROVE  SerialInv' /\ store' = store /\ statistics' = statistics
    <2>1. /\ store' = store /\ ended' = ended /\ statistics' = statistics
          /\ pc'[p] = "loaded" /\ loaded'[p] = TrialsIn(store) /\ own'[p] = t
          /\ \A q \in Ingests : q # p => pc'[q] = "idle"
          /\ ~Contains(TrialsIn(store), t.id)
      BY <1>1 DEF Load, MayStart, Idle, Inv, TypeOK
    <2>. QED BY <2>1 DEF SerialInv
  <1>2. ASSUME NEW p \in Ingests, AppendTrial(p)
        PROVE  /\ SerialInv' /\ statistics' = statistics
               /\ \E line \in Line : /\ store' = Append(store, line)
                                     /\ ~Contains(TrialsIn(store), line.trial.id)
                                     /\ TrialsIn(store') = Append(TrialsIn(store), line.trial)
    <2> DEFINE line == OwnLine(p)
    <2>1. /\ pc[p] = "loaded" /\ own[p] \in Trial /\ loaded[p] \in Seq(Trial) /\ AddLine(line)
          /\ ended /\ ended' = TRUE /\ loaded[p] = TrialsIn(store) /\ ~Contains(TrialsIn(store), own[p].id)
          /\ \A q \in Ingests : q # p => pc[q] = "idle"
      BY <1>2 DEF AppendTrial, Inv, RunInv, TypeOK, SerialInv
    <2>2. line \in Line /\ line.trial = own[p] /\ line.after = loaded[p]
      BY <2>1 DEF Line, OwnLine
    <2> HIDE DEF line
    <2>3. /\ Loadable(store') /\ store' = Append(store, line)
          /\ TrialsIn(store') = Append(TrialsIn(store), line.trial)
      BY <2>1, <2>2, AppendLoadable DEF Inv, SerialInv
    <2>4. /\ pc'[p] = "appended" /\ loaded' = loaded /\ own' = own /\ statistics' = statistics
          /\ \A q \in Ingests : q # p => pc'[q] = "idle"
      BY <1>2, <2>1 DEF AppendTrial, Inv, TypeOK
    <2>5. Analysed(p)' = TrialsIn(store')
      BY <2>1, <2>2, <2>3, <2>4 DEF Analysed
    <2>6. \A i \in DOMAIN statistics.trials : i \in DOMAIN store' /\ statistics.trials[i] = store'[i].trial
      <3>1. /\ DOMAIN store = 1 .. Len(store) /\ DOMAIN store' = 1 .. Len(store) + 1
            /\ Len(store) \in Nat /\ \A i \in 1 .. Len(store) : store'[i] = store[i]
        BY <2>3 DEF Inv, TypeOK
      <3>. QED BY <3>1 DEF SerialInv
    <2>. QED BY <2>1, <2>2, <2>3, <2>4, <2>5, <2>6 DEF SerialInv
  <1>3. ASSUME NEW p \in Ingests, WriteTrialRecords(p)
        PROVE  SerialInv' /\ store' = store /\ statistics' = statistics
    <2>1. /\ store' = store /\ ended' = ended /\ statistics' = statistics /\ loaded' = loaded /\ own' = own
          /\ pc[p] = "appended" /\ pc'[p] = "recorded" /\ \A q \in Ingests \ {p} : pc'[q] = pc[q]
      BY <1>3 DEF WriteTrialRecords, Inv, TypeOK
    <2>. QED BY <2>1 DEF SerialInv, Analysed
  <1>4. ASSUME NEW p \in Ingests, NEW narrow \in BOOLEAN, NEW belowHalf \in BOOLEAN,
               WriteStatistics(p, narrow, belowHalf)
        PROVE  SerialInv' /\ store' = store /\ statistics'.trials = TrialsIn(store)
    <2>1. /\ store' = store /\ ended' = ended
          /\ pc[p] = "recorded" /\ \A q \in Ingests : pc'[q] = "idle"
          /\ statistics'.trials = Analysed(p)
      BY <1>4 DEF WriteStatistics, Ends, Inv, TypeOK, SerialInv
    <2>2. Analysed(p) = TrialsIn(store)
      BY <2>1 DEF SerialInv
    <2>3. \A i \in DOMAIN TrialsIn(store) : i \in DOMAIN store /\ TrialsIn(store)[i] = store[i].trial
      BY DEF TrialsIn
    <2>. QED BY <2>1, <2>2, <2>3 DEF SerialInv, Analysed
  <1>5. ASSUME NEW p \in Ingests, Fail(p)
        PROVE  SerialInv' /\ store' = store /\ statistics'.trials = statistics.trials
    <2>1. /\ store' = store /\ ended' = ended
          /\ \A q \in Ingests : pc'[q] = "idle"
      BY <1>5 DEF Fail, Ends, Idle, Inv, TypeOK, SerialInv
    <2>2. statistics'.trials = statistics.trials
      BY <1>5 DEF Fail, Inv, TypeOK, Statistics
    <2>. QED BY <2>1, <2>2 DEF SerialInv, Analysed
  <1>6. CASE UNCHANGED vars
    BY <1>6 DEF vars, SerialInv, Analysed
  <1>. QED BY <1>1, <1>2, <1>3, <1>4, <1>5, <1>6 DEF Next, vars

LEMMA SerialInit == Init => SerialInv
  BY DEF Init, SerialInv, Loadable, Whole, Chained, NoDuplicates, NoStatistics

LEMMA OrderlyFixed == ASSUME [Next]_vars PROVE orderly' = orderly
  BY DEF Next, vars, Load, AppendTrial, WriteTrialRecords, WriteStatistics, Fail

\* What holds of orderly runs.
OrderlyInv == Inv /\ (orderly => SerialInv)

LEMMA OrderlyInvariance == Spec => []OrderlyInv
  <1>1. Init => OrderlyInv
    BY InitInv, SerialInit DEF OrderlyInv
  <1>2. OrderlyInv /\ [Next]_vars => OrderlyInv'
    BY NextInv, SerialNext, OrderlyFixed DEF OrderlyInv
  <1>. QED BY <1>1, <1>2, PTL DEF Spec

\* Under orderly runs load_trial_store finds whole, chained and distinct lines
\* at the start of every run.
THEOREM AlwaysLoadable == Spec => []StoreLoadable
  <1>1. OrderlyInv => StoreLoadable
    BY DEF OrderlyInv, SerialInv, StoreLoadable
  <1>. QED BY <1>1, OrderlyInvariance, PTL

\* Under orderly runs statistics.json never loses a trial it has counted.
THEOREM NothingUncounted == Spec => StatisticsGrow
  <1>1. OrderlyInv /\ [Next]_vars
        => [orderly =>
            \A i \in DOMAIN statistics.trials :
              /\ i \in DOMAIN statistics'.trials
              /\ statistics'.trials[i] = statistics.trials[i]]_<<orderly, statistics>>
    <2> SUFFICES ASSUME OrderlyInv, [Next]_vars, orderly, NEW i \in DOMAIN statistics.trials
                 PROVE  /\ i \in DOMAIN statistics'.trials
                        /\ statistics'.trials[i] = statistics.trials[i]
      OBVIOUS
    <2>. Inv /\ SerialInv
      BY DEF OrderlyInv
    <2>1. i \in DOMAIN store /\ statistics.trials[i] = store[i].trial
      BY DEF SerialInv
    <2>2. i \in DOMAIN TrialsIn(store) /\ TrialsIn(store)[i] = store[i].trial
      BY <2>1 DEF TrialsIn
    <2>. QED BY <2>1, <2>2, SerialNext
  <1>. QED BY <1>1, OrderlyInvariance, PTL DEF Spec, StatisticsGrow

\* Under orderly runs trials.jsonl implements the abstract log: it grows by one
\* new trial at a time, each trial once.
THEOREM LogRefinement == Spec => RefinesTrialLog
  <1> DEFINE ids == [i \in DOMAIN store |-> store[i].trial.id]
             bar == IF orderly THEN ids ELSE << >>
  <1>1. Init => bar = << >>
    BY DEF Init
  <1>2. ASSUME OrderlyInv, [Next]_vars, orderly, store' # store
        PROVE  \E t \in Trials : (\A i \in DOMAIN ids : ids[i] # t) /\ ids' = Append(ids, t)
    <2>. Inv /\ SerialInv
      BY <1>2 DEF OrderlyInv
    <2>1. PICK line \in Line : /\ store' = Append(store, line)
                               /\ ~Contains(TrialsIn(store), line.trial.id)
      BY <1>2, SerialNext
    <2>2. store \in Seq(Line \cup {Torn}) /\ Len(store) \in Nat /\ DOMAIN store = 1 .. Len(store)
      BY DEF Inv, TypeOK
    <2>3. line.trial.id \in Trials
      BY DEF Line, Trial
    <2>4. \A i \in DOMAIN ids : ids[i] # line.trial.id
      BY <2>1 DEF Contains, TrialsIn
    <2>5. /\ Len(store') = Len(store) + 1 /\ DOMAIN store' = 1 .. Len(store) + 1
          /\ store'[Len(store) + 1] = line /\ \A i \in 1 .. Len(store) : store'[i] = store[i]
      <3> DEFINE longer == Append(store, line)
      <3>1. /\ longer \in Seq(Line \cup {Torn}) /\ Len(longer) = Len(store) + 1
            /\ longer[Len(store) + 1] = line /\ \A i \in 1 .. Len(store) : longer[i] = store[i]
        BY <2>2
      <3>2. DOMAIN longer = 1 .. Len(store) + 1
        BY <3>1
      <3>3. store' = longer
        BY <2>1
      <3> HIDE DEF longer
      <3>. QED BY <3>1, <3>2, <3>3
    <2>6. ids \in Seq(Trials) /\ Len(ids) = Len(store)
      <3>1. \A i \in 1 .. Len(store) : store[i] \in Line
        BY <2>2 DEF SerialInv, Loadable, Whole
      <3>. QED BY <2>2, <3>1 DEF Line, Trial
    <2>7. ids' = Append(ids, line.trial.id)
      <3>1. ids' \in Seq(Trials) /\ Len(ids') = Len(store) + 1
        BY <2>2, <2>3, <2>5, <2>6
      <3>. QED BY <2>2, <2>3, <2>5, <2>6, <3>1
    <2>. QED BY <2>3, <2>4, <2>7
  <1>3. OrderlyInv /\ [Next]_vars => [\E t \in Trials : Log!Admit(t)]_bar
    <2> SUFFICES ASSUME OrderlyInv, [Next]_vars, bar' # bar
                 PROVE  \E t \in Trials : Log!Admit(t)
      OBVIOUS
    <2>1. orderly' = orderly
      BY OrderlyFixed
    <2>2. orderly /\ store' # store /\ bar = ids /\ bar' = ids'
      BY <2>1
    <2>3. PICK t \in Trials : (\A i \in DOMAIN ids : ids[i] # t) /\ ids' = Append(ids, t)
      BY <1>2, <2>2
    <2> HIDE DEF ids
    <2>4. (\A i \in DOMAIN bar : bar[i] # t) /\ bar' = Append(bar, t)
      BY <2>2, <2>3
    <2>. QED BY <2>4 DEF Log!Admit, ids
  <1>. QED
    BY <1>1, <1>3, OrderlyInvariance, PTL DEF Spec, RefinesTrialLog, Log!Spec, Log!Init

\* BrokenStoreIsFrozen: with nobody left who had loaded it, a store that does not
\* load gets no further line: load_trial_store comes before every append.
THEOREM FrozenForGood == Spec => BrokenStoreIsFrozen
<1>. SUFFICES ASSUME NEW n \in 1 .. MaxLines
              PROVE  Spec => [](~Loadable(store) /\ (\A p \in Ingests : pc[p] # "loaded") /\ Len(store) = n
                                  => [](Len(store) = n))
  BY DEF BrokenStoreIsFrozen
<1>. DEFINE Frozen == Len(store) = n
            Broken == ~Loadable(store) /\ (\A p \in Ingests : pc[p] # "loaded") /\ Frozen
<1>1. TypeOK /\ [Next]_vars /\ Broken => Broken'
  <2>1. SUFFICES ASSUME TypeOK, [Next]_vars, Broken PROVE Broken'
    OBVIOUS
  <2>2. ASSUME NEW p \in Ingests, NEW to, to # "loaded", pc' = [pc EXCEPT ![p] = to], store' = store
        PROVE  Broken'
    BY <2>1, <2>2 DEF TypeOK
  <2>3. ASSUME NEW p \in Ingests, Fail(p) PROVE Broken'
    <3>1. store' = store
      BY <2>1, <2>3 DEF Fail
    <3>2. QED
      BY <2>2, <2>3, <3>1 DEF Fail, Ends
  <2>4. CASE UNCHANGED <<store, pc>>
    BY <2>1, <2>4
  <2>5. QED
    BY <2>1, <2>2, <2>3, <2>4
       DEF Next, vars, Load, AppendTrial, WriteTrialRecords, WriteStatistics, Ends
<1>2. Broken => Frozen
  OBVIOUS
<1>. HIDE DEF Broken, Frozen
<1>3. Spec => [](Broken => []Frozen)
  BY <1>1, <1>2, TypeCorrect, PTL DEF Spec
<1>4. QED
  BY <1>3 DEF Broken, Frozen
=============================================================================
