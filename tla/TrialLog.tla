------------------------------ MODULE TrialLog ------------------------------
(***************************************************************************)
(* What the cumulative P1 trial store promises: a list of matched trials   *)
(* that grows by one trial at a time, each trial at most once, and is      *)
(* otherwise never touched.                                                *)
(***************************************************************************)
EXTENDS Sequences

CONSTANT Trials
VARIABLE log

Init == log = << >>

Admit(t) ==
  /\ \A i \in DOMAIN log : log[i] # t
  /\ log' = Append(log, t)

Spec == Init /\ [][\E t \in Trials : Admit(t)]_log
=============================================================================
