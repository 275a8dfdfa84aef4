---------------------------- MODULE MCProcThread ----------------------------
(***************************************************************************)
(* ProcThread on a small instance; a, b and s are callbacks, of which s    *)
(* repeats for ever.                                                       *)
(***************************************************************************)
EXTENDS ProcThread

CONSTANTS a, b, s

\* Idle, the lowest that is run, a high one, and one out of range, which becomes
\* normal.
Asked == {0, 1, PriHigh, PriMax}
=============================================================================
