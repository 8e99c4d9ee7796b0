------------------------- MODULE MCDiskGenerations -------------------------
(***************************************************************************)
(* Instances of DiskGenerations for TLC.                                   *)
(***************************************************************************)
EXTENDS DiskGenerations

\* A create and two saves with two troubles, or with two writes and one; and
\* a create and three saves without any.
SmallBudgets ==
    {[writes |-> 1, publishes |-> 3, troubles |-> 2],
     [writes |-> 2, publishes |-> 3, troubles |-> 1],
     [writes |-> 2, publishes |-> 4, troubles |-> 0]}
\* Nothing fails and nobody is stopped.
CalmBudgets == {[writes |-> 1, publishes |-> 3, troubles |-> 0]}
=============================================================================
