-------------------------- MODULE MCPlatformRuntime --------------------------
(* Model values for TLC: two runs, so that one can hold the lock.          *)
EXTENDS PlatformRuntime

CONSTANTS r1, r2
MCRuns == {r1, r2}
=============================================================================
