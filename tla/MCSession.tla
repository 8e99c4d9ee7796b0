------------------------------ MODULE MCSession ------------------------------
(* TLC instance of Session: threads and writes are interchangeable.        *)
EXTENDS SessionStore, TLC

ThreadSymmetry == Permutations(Clients) \cup Permutations(Writes)
=============================================================================
