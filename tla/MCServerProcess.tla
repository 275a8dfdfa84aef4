-------------------------- MODULE MCServerProcess --------------------------
(***************************************************************************)
(* ServerProcess on a small instance; pids are interchangeable.            *)
(***************************************************************************)
EXTENDS ServerProcess, TLC

PidSymmetry == Permutations(Pids)
=============================================================================
