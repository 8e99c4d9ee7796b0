---------------------------- MODULE MCGroupCommit ----------------------------
(* TLC instance of GroupCommit: the calls are interchangeable.             *)
EXTENDS GroupCommit, TLC

CallSymmetry == Permutations(Statements)
=============================================================================
