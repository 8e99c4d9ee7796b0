----------------------------- MODULE SessionStore -----------------------------
(***************************************************************************)
(* Session implements SnapshotStore: the contents are the published        *)
(* graph's writes, and a client's view is what its snapshot, or the base   *)
(* its working copy was forked from, held.                                 *)
(***************************************************************************)
EXTENDS Session

CONSTANT NoView

HasWork(c) ==
    \/ pc[c] \in {"commit", "flush", "closure"}
    \/ pc[c] = "open" /\ mine[c] # {}

ReadView(c) ==
    IF snap[c] # NoCell THEN heap[snap[c]].writes
    ELSE IF HasWork(c) THEN work[c].writes \ mine[c]
    ELSE NoView

Store == INSTANCE SnapshotStore WITH
    contents <- Current.writes,
    view     <- [c \in Clients |-> ReadView(c)]

\* Every run of a session whose commits check the version and whose writes
\* move it is a run of SnapshotStore: commits are serializable and atomic,
\* and readers see one published graph for as long as they hold it.
ImplementsSnapshotStore == Store!Spec
=============================================================================
