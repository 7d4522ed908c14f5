---------------------------- MODULE MCRehearsal ----------------------------
(* Model values for TLC: the default date and another one.                 *)
EXTENDS Rehearsal

CONSTANTS d1, d2
MCDates == {d1, d2}
=============================================================================
