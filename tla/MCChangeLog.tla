---------------------------- MODULE MCChangeLog ----------------------------
(***************************************************************************)
(* Instances of ChangeLog for TLC.  Transactions are interchangeable, and  *)
(* so are consumers.                                                       *)
(***************************************************************************)
EXTENDS ChangeLog, TLC

Interchange == Permutations(Txs) \cup Permutations(Consumers)
=============================================================================
