------------------------------ MODULE MCReactor ------------------------------
(***************************************************************************)
(* Small instances of Reactor for TLC.                                     *)
(***************************************************************************)
EXTENDS Reactor, TLC

\* Workers and esockets are interchangeable where no constant singles one out.
Symmetry == Permutations(Workers)
=============================================================================
