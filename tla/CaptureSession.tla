---------------------------- MODULE CaptureSession ----------------------------
(***************************************************************************)
(* What the Capture Lab promises an operator who waits (capture-lab.js and *)
(* scripts/validate_capture_session.py): a manifest is frozen once, records *)
(* are added to it one at a time and each is true, a sealed session does   *)
(* not change, and it is what the validation script admits.                *)
(***************************************************************************)
EXTENDS Naturals, Sequences

CONSTANTS Trials, FirstArm, Arms, Kinds, None

VARIABLES
  manifest,  \* the frozen manifest, in a set of at most one
  captures,  \* the records of each arm and kind
  sealed,
  admitted   \* what the script admitted: a trial and its records

vars == <<manifest, captures, sealed, admitted>>

Manifest == {m \in [physical : BOOLEAN, trial : Trials \cup {None}] :
               m.physical => m.trial # None}

Init ==
  /\ manifest = {}
  /\ captures = [x \in Arms \X Kinds |-> << >>]
  /\ sealed = FALSE
  /\ admitted = {}

Freeze ==
  /\ manifest = {}
  /\ \E m \in Manifest : manifest' = {m}
  /\ UNCHANGED <<captures, sealed, admitted>>

\* A record says what was shown, under which trial, and where it is; its frame is
\* no other record's, and a trial's first record is of its first arm.
TrueRecord(m, r, x) ==
  /\ r.list = x[1] /\ r.kind = x[2] /\ r.number = Len(captures[x]) + 1
  /\ r.shown = {x[1]}
  /\ m.physical => r.condition = m.trial
  /\ \A y \in Arms \X Kinds : \A i \in DOMAIN captures[y] : captures[y][i].frame # r.frame
  /\ (m.physical /\ \A y \in Arms \X Kinds : captures[y] = << >>) => x[1] = FirstArm[m.trial]

Capture(m, x) ==
  /\ ~sealed
  /\ \E i \in DOMAIN captures'[x] :
       /\ captures' = [captures EXCEPT ![x] = Append(@, captures'[x][i])]
       /\ TrueRecord(m, captures'[x][i], x)
  /\ UNCHANGED <<manifest, sealed, admitted>>

Seal ==
  /\ ~sealed
  /\ \A a \in Arms : captures[<<a, "still">>] # << >>
  /\ sealed' = TRUE
  /\ UNCHANGED <<manifest, captures, admitted>>

Admit(m) ==
  /\ sealed /\ m.physical
  /\ admitted' = admitted \cup {[trial |-> m.trial, captures |-> captures]}
  /\ UNCHANGED <<manifest, captures, sealed>>

Next ==
  \/ Freeze
  \/ \E m \in manifest :
       \/ \E x \in Arms \X Kinds : Capture(m, x)
       \/ Seal
       \/ Admit(m)

Spec == Init /\ [][Next]_vars
=============================================================================
