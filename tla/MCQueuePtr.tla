----------------------------- MODULE MCQueuePtr -----------------------------
(***************************************************************************)
(* QueuePtr on a small instance.                                           *)
(***************************************************************************)
EXTENDS QueuePtr, TLC
=============================================================================
