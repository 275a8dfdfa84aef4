---------------------------- MODULE MCContextLife ----------------------------
(***************************************************************************)
(* ContextLife with two or three workers and processing threads.           *)
(***************************************************************************)
EXTENDS ContextLife
=============================================================================
