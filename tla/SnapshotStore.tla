---------------------------- MODULE SnapshotStore ----------------------------
(***************************************************************************)
(* What a session promises its clients, with no versions, cells, gates or  *)
(* retries: a store that only ever gains whole batches of writes, read     *)
(* through views that are the store as it was at one instant.  A client    *)
(* that has read may add a batch only while what it read is still the      *)
(* store's contents, so every batch takes effect at one point in time.     *)
(***************************************************************************)
CONSTANTS Clients, Writes, NoView

VARIABLES
    contents,   \* the writes everybody who reads now will see
    view        \* view[c]: what client c read, or NoView

vars == <<contents, view>>

Init ==
    /\ contents = {}
    /\ view = [c \in Clients |-> NoView]

Read(c) ==
    /\ view' = [view EXCEPT ![c] = contents]
    /\ UNCHANGED contents

Forget(c) ==
    /\ view' = [view EXCEPT ![c] = NoView]
    /\ UNCHANGED contents

Update(c, batch) ==
    /\ view[c] \in {NoView, contents}
    /\ batch \cap contents = {}
    /\ contents' = contents \cup batch
    /\ view' = [view EXCEPT ![c] = NoView]

Next ==
    \E c \in Clients :
        \/ Read(c)
        \/ Forget(c)
        \/ \E batch \in SUBSET Writes : Update(c, batch)

Spec == Init /\ [][Next]_vars
=============================================================================
