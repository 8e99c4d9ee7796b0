-------------------------- MODULE DiskGenerations --------------------------
(***************************************************************************)
(* A disk-mode graph directory: immutable generations, the pointer CURRENT *)
(* that selects one, the writer lease, and the handles of one or more      *)
(* processes that load, fork, write, save, prune, revoke and create it,    *)
(* while operations fail, processes die and power is lost.                 *)
(*                                                                         *)
(* What is abstracted:                                                     *)
(*   - A generation is the set of writes it contains.  Its files are       *)
(*     written and synced in its stage before the stage is renamed, so a   *)
(*     generation is whole or not there.                                   *)
(*   - A directory entry is on the platter once its directory is synced;   *)
(*     until then a power loss keeps it or not.                            *)
(*   - A handle holds a lease on the shared root only: the private root of *)
(*     a detached lineage is nobody else's, its lease always granted.      *)
(*   - Legacy flat directories and bulk builds are left out.               *)
(***************************************************************************)
EXTENDS Naturals, FiniteSets

CONSTANTS
    Handles,        \* names of handles, numbered
    Processes,      \* a partition of Handles: who lives with whom
    Creators,       \* the handles that may create the directory
    CreatesAlone,   \* nobody else comes to the directory during a create
    Lineages,       \* names of writer lineages, numbered
    KeepPrevious,   \* KGLITE_KEEP_GENERATIONS
    Faults,         \* operations that may fail: see Fault
    Budgets         \* bounds: on the statements, on the saves and creates begun,
                    \* on the failures, crashes and revocations of a run

Fault == {"begin", "rename", "list", "select", "root", "finish"}

Budget == [writes : Nat, publishes : Nat, troubles : Nat]

ASSUME DiskAssumption ==
    /\ UNION Processes = Handles
    /\ \A P, Q \in Processes : P = Q \/ P \cap Q = {}
    /\ Creators \subseteq Handles
    /\ CreatesAlone \in BOOLEAN
    /\ Handles \cup Lineages \subseteq Nat \ {0}
    /\ KeepPrevious \in Nat
    /\ Faults \subseteq Fault
    /\ Budgets \subseteq Budget

VARIABLES
    gens,      \* generations/: the contents of each generation, by id
    listed,    \* the ids whose entry in generations/ is synced
    current,   \* the id CURRENT names, 0 before there is a CURRENT
    durable,   \* what CURRENT may name after a power loss
    stages,    \* the publications whose stage directory is there
    owner,     \* the lineage whose lease has the OS lock, or NoLineage
    permit,    \* the handle inside publication_permit(), if any
    handles,   \* handles[h]: a handle and the call it is in
    saved,     \* the writes acknowledged as saved
    left       \* of the budget

disk == <<gens, listed, current, durable, stages>>
lease == <<owner, permit>>
vars == <<disk, lease, handles, saved, left>>

-----------------------------------------------------------------------------
NoLineage == 0
Nobody == {}

\* The place of a handle: not there, between resolve_snapshot and the opening
\* of what it named, idle, with a lease or further in save_disk, in a create,
\* between the flag and the lock of end_writer_authority.
Save    == {"permitted", "staged", "renamed", "listed", "selected", "synced"}
Place   == {"none", "opening", "idle", "leased", "creating", "ending"} \cup Save
Live    == Place \ {"none", "opening", "creating"}

\* holds: writer_lock is Some.  using: the reference a call keeps to a lease.
\* base: expected_generation, empty for None.  maps: the generation of its files.
\* revoked: the lineage's ended flag.  detached: logical_root is a private root.
\* id: the generation a call names.  creates: the call is a create.
Handle == [place : Place, lineage : Lineages \cup {NoLineage}, holds : BOOLEAN,
           using : Lineages \cup {NoLineage}, base : SUBSET Nat, maps : Nat,
           revoked : BOOLEAN, detached : BOOLEAN,
           graph : SUBSET Nat, id : Nat, creates : BOOLEAN]

Absent == [place |-> "none", lineage |-> NoLineage, holds |-> FALSE,
           using |-> NoLineage, base |-> {}, maps |-> 0, revoked |-> FALSE,
           detached |-> FALSE, graph |-> {}, id |-> 0, creates |-> FALSE]

Ids == DOMAIN gens
Contents(id) == IF id \in Ids THEN gens[id] ELSE {}

TypeOK ==
    /\ Ids \subseteq Nat \ {0} /\ IsFiniteSet(Ids)
    /\ gens \in [Ids -> SUBSET Nat]
    /\ listed \subseteq Nat
    /\ current \in Nat
    /\ durable \subseteq Nat
    /\ stages \subseteq Handles
    /\ owner \in Lineages \cup {NoLineage}
    /\ permit \subseteq Handles
    /\ handles \in [Handles -> Handle]
    /\ saved \subseteq Nat
    /\ left \in Budget

Init ==
    /\ gens = [id \in {} |-> {}]
    /\ listed = {}
    /\ current = 0
    /\ durable = {0}
    /\ stages = {}
    /\ owner = NoLineage
    /\ permit = Nobody
    /\ handles = [h \in Handles |-> Absent]
    /\ saved = {}
    /\ left \in Budgets

-----------------------------------------------------------------------------
(***************************************************************************)
(* Lineages and the lease.                                                 *)
(***************************************************************************)
\* The lease is an Arc: the OS lock goes with its last reference.
KeepsLock ==
    owner' = IF \E h \in Handles : \/ handles'[h].lineage = owner /\ handles'[h].holds
                                   \/ handles'[h].using = owner
             THEN owner ELSE NoLineage

Becomes(h, handle) == handles' = [handles EXCEPT ![h] = handle]

\* A handle whose call has returned.
Returned(handle) ==
    [handle EXCEPT !.place = "idle", !.using = NoLineage, !.id = 0, !.creates = FALSE]

Unused == {l \in Lineages : \A h \in Handles : l \notin {handles[h].lineage, handles[h].using}}

\* A new lease_cell for h.  Any unused name would do.
NewLineage(h) == {l \in Unused : l = h \/ (h \notin Unused /\ \A k \in Unused : l <= k)}

\* detach_ended_lineage: what a call on h goes on with.
Detached(h) ==
    IF handles[h].revoked
    THEN {[handles[h] EXCEPT !.lineage = l, !.holds = FALSE, !.revoked = FALSE,
                             !.detached = TRUE] : l \in NewLineage(h)}
    ELSE {handles[h]}

\* take_lease on the shared root, or the writer_lock the handle has.
Grants(handle) ==
    ~handle.revoked /\ owner \in {NoLineage, handle.lineage}

Spend(what) == left[what] > 0 /\ left' = [left EXCEPT ![what] = @ - 1]
MayFail(fault) == fault \in Faults /\ Spend("troubles")

-----------------------------------------------------------------------------
(***************************************************************************)
(* Loading, forking, writing, dropping, ending authority.                  *)
(***************************************************************************)
\* A process may come to the directory.
Admitted == CreatesAlone => \A h \in Handles : ~handles[h].creates

\* load_disk_dir resolves CURRENT ...
Resolve(h) ==
    /\ handles[h].place = "none" /\ current # 0 /\ Admitted
    /\ Becomes(h, [Absent EXCEPT !.place = "opening", !.id = current])
    /\ UNCHANGED <<disk, lease, saved, left>>

\* ... and opens what it named, unless that was pruned meanwhile.
Open(h) ==
    /\ handles[h].place = "opening"
    /\ \/ /\ handles[h].id \in Ids
          /\ \E l \in NewLineage(h) :
                Becomes(h, [Absent EXCEPT !.place = "idle", !.lineage = l,
                                          !.base = {handles[h].id},
                                          !.maps = handles[h].id,
                                          !.graph = gens[handles[h].id]])
       \/ handles[h].id \notin Ids /\ Becomes(h, Absent)
    /\ UNCHANGED <<disk, lease, saved, left>>

\* A transaction's working copy, or the graph a reader leaves behind.
Fork(h, fork) ==
    /\ handles[h].place = "idle" /\ handles[fork].place = "none"
    /\ \E P \in Processes : {h, fork} \subseteq P
    /\ Becomes(fork, handles[h])
    /\ UNCHANGED <<disk, lease, saved, left>>

\* prepare_mutation and the statement behind it; refused, it changes nothing.
Mutate(h) ==
    /\ handles[h].place = "idle" /\ Spend("writes")
    /\ \E now \in Detached(h) :
          LET written == [now EXCEPT !.graph = @ \cup {left.writes}]
          IN  IF now.detached
              THEN Becomes(h, written) /\ KeepsLock
              ELSE /\ Grants(now)
                   /\ Becomes(h, [written EXCEPT !.holds = TRUE])
                   /\ owner' = now.lineage
    /\ UNCHANGED <<disk, permit, saved>>

Drop(h) ==
    /\ handles[h].place = "idle"
    /\ Becomes(h, Absent)
    /\ KeepsLock
    /\ UNCHANGED <<disk, permit, saved, left>>

\* end_writer_authority: the lineage's flag first ...
End(h) ==
    /\ handles[h].place = "idle" /\ ~handles[h].revoked /\ Spend("troubles")
    /\ LET revoked(k) == [handles[k] EXCEPT !.revoked = TRUE]
           ender == IF owner = handles[h].lineage
                    THEN [revoked(h) EXCEPT !.place = "ending", !.using = owner]
                    ELSE revoked(h)
       IN  handles' = [k \in Handles |->
                         IF k = h THEN ender
                         ELSE IF handles[k].lineage = handles[h].lineage THEN revoked(k)
                         ELSE handles[k]]
    /\ UNCHANGED <<disk, lease, saved>>

\* Mutant: the lock is let go under a sibling's publication.
EndLeaseUnwaited(h) ==
    /\ handles[h].place = "ending"
    /\ Becomes(h, Returned(handles[h]))
    /\ owner' = NoLineage
    /\ UNCHANGED <<disk, permit, saved, left>>

\* ... then the lock, once no publication of the lineage is inside its permit.
EndLease(h) ==
    /\ handles[h].place = "ending" /\ permit = Nobody
    /\ Becomes(h, Returned(handles[h]))
    /\ owner' = NoLineage
    /\ UNCHANGED <<disk, permit, saved, left>>

-----------------------------------------------------------------------------
(***************************************************************************)
(* save_disk.                                                              *)
(***************************************************************************)
\* The lease: the one at hand, a sibling's, or a new one; else refused.
SaveLease(h) ==
    /\ handles[h].place = "idle" /\ Spend("publishes")
    /\ \E now \in Detached(h) :
          IF Grants(now)
          THEN /\ Becomes(h, [now EXCEPT !.place = "leased", !.holds = TRUE,
                                         !.using = now.lineage])
               /\ owner' = now.lineage
          ELSE Becomes(h, now) /\ KeepsLock
    /\ UNCHANGED <<disk, permit, saved>>

\* prepare_mutation looks at the flag again; then the permit, which a sibling
\* may have and an ended lease refuses.
SavePermit(h) ==
    /\ handles[h].place = "leased"
    /\ \E now \in Detached(h) :
          IF owner = now.using
          THEN /\ permit = Nobody /\ permit' = {h}
               /\ Becomes(h, [now EXCEPT !.place = "permitted"])
               /\ UNCHANGED owner
          ELSE Becomes(h, Returned(now)) /\ KeepsLock /\ UNCHANGED permit
    /\ UNCHANGED <<disk, saved, left>>

\* A call on h that returns an error: h stays as it is, a create leaves none.
Fails(h) ==
    /\ Becomes(h, IF handles[h].creates THEN Absent ELSE Returned(handles[h]))
    /\ KeepsLock
    /\ permit' = permit \ {h}
    /\ stages' = stages \ {h}
    /\ UNCHANGED <<gens, listed, current, durable, saved>>

\* ensure_current_generation_unchanged lets these pass unseen.
Unguarded(h) == handles[h].detached \/ handles[h].base = {}

\* One more than the greatest id there is.
NextId ==
    LET known == Ids \cup {current}
    IN  {id + 1 : id \in {k \in known : \A j \in known : j <= k}}

\* GenerationTxn::begin: any stage it finds is abandoned.
Begin(h) ==
    \/ /\ stages' = {h}
       /\ \E id \in NextId :
             Becomes(h, [handles[h] EXCEPT !.place = "staged", !.id = id])
       /\ UNCHANGED <<gens, listed, current, durable, lease, saved, left>>
    \/ MayFail("begin") /\ Fails(h)

\* Mutant: the generation the handle came from is not compared.
SaveBeginUnchecked(h) == handles[h].place = "permitted" /\ Begin(h)

SaveBegin(h) ==
    /\ handles[h].place = "permitted"
    /\ IF Unguarded(h) \/ current \in handles[h].base
       THEN Begin(h)
       ELSE Fails(h) /\ UNCHANGED left

\* GenerationTxn::publish, from the synced stage to its place ...
Rename(h) ==
    /\ handles[h].place = "staged"
    /\ IF h \in stages /\ handles[h].id \notin Ids
       THEN \/ /\ gens' = [id \in Ids \cup {handles[h].id} |->
                             IF id \in Ids THEN gens[id] ELSE handles[h].graph]
               /\ stages' = stages \ {h}
               /\ Becomes(h, [handles[h] EXCEPT !.place = "renamed"])
               /\ UNCHANGED <<listed, current, durable, lease, saved, left>>
            \/ MayFail("rename") /\ Fails(h)
       ELSE Fails(h) /\ UNCHANGED left

\* Mutant: generations/ is not synced.
SyncListUnsynced(h) ==
    /\ handles[h].place = "renamed"
    /\ Becomes(h, [handles[h] EXCEPT !.place = "listed"])
    /\ UNCHANGED <<disk, lease, saved, left>>

\* ... the directory generations/ ...
SyncList(h) ==
    /\ handles[h].place = "renamed"
    /\ \/ /\ listed' = Ids
          /\ Becomes(h, [handles[h] EXCEPT !.place = "listed"])
          /\ UNCHANGED <<gens, current, durable, stages, lease, saved, left>>
       \/ MayFail("list") /\ Fails(h)

\* ... the pointer.  What a save that checks nothing leaves behind is gone.
Select(h) ==
    /\ handles[h].place = "listed"
    /\ \/ /\ current' = handles[h].id
          /\ durable' = durable \cup {handles[h].id}
          /\ saved' = IF Unguarded(h) THEN saved \cap handles[h].graph ELSE saved
          /\ Becomes(h, [handles[h] EXCEPT !.place = "selected"])
          /\ UNCHANGED <<gens, listed, stages, lease, left>>
       \/ MayFail("select") /\ Fails(h)

\* ... and the directory it is in.
SyncRoot(h) ==
    /\ handles[h].place = "selected"
    /\ \/ /\ durable' = {current}
          /\ Becomes(h, [handles[h] EXCEPT !.place = "synced"])
          /\ UNCHANGED <<gens, listed, current, stages, lease, saved, left>>
       \/ MayFail("root") /\ Fails(h)

\* Mutant: only handles with unsaved writes pin.
PinnedDirty(h) == {handles[k].maps : k \in {k \in Handles \ {h} : handles[k].holds}}

\* The generations a live value of h's process maps, but for h: it maps the one
\* it published.
Pinned(h) ==
    {handles[k].maps : k \in {k \in Handles \ {h} :
                                /\ handles[k].place \in Live
                                /\ \E P \in Processes : {h, k} \subseteq P}}

\* Older than the window below CURRENT.
Outdated ==
    LET older == {id \in Ids : id < current}
    IN  {id \in older : Cardinality({k \in older : k > id}) >= KeepPrevious}

\* finish_generation: h goes on from what it published and lets its lease go;
\* prune_generations, whose deletions may fail; and the save returns.
Finish(h) ==
    /\ handles[h].place = "synced" /\ ~handles[h].creates
    /\ LET rebased == [Returned(handles[h]) EXCEPT !.base = {handles[h].id},
                                                  !.maps = handles[h].id,
                                                  !.detached = FALSE]
       IN  \/ /\ Becomes(h, [rebased EXCEPT !.holds = FALSE])
              /\ \E gone \in SUBSET (Outdated \ Pinned(h)) :
                    gens' = [id \in Ids \ gone |-> gens[id]]
              /\ listed' = listed \cap DOMAIN gens'
              /\ saved' = saved \cup handles[h].graph
              /\ UNCHANGED left
           \/ /\ MayFail("finish")
              /\ Becomes(h, rebased)
              /\ UNCHANGED <<gens, listed, saved>>
    /\ KeepsLock
    /\ permit' = permit \ {h}
    /\ UNCHANGED <<current, durable, stages>>

-----------------------------------------------------------------------------
(***************************************************************************)
(* new_dir_graph_in_mode.                                                  *)
(***************************************************************************)
\* Over a graph that is there, the handle is given and nothing published.
Create(h) ==
    /\ handles[h].place = "none" /\ h \in Creators /\ Admitted
    /\ Spend("publishes")
    /\ \E l \in NewLineage(h) :
          Becomes(h, IF current # 0
                     THEN [Absent EXCEPT !.place = "idle", !.lineage = l]
                     ELSE [Absent EXCEPT !.place = "creating", !.lineage = l,
                                         !.creates = TRUE])
    /\ UNCHANGED <<disk, lease, saved>>

\* publish_initial_generation, without a lease; the rest as for a save.
CreateBegin(h) ==
    /\ handles[h].place = "creating"
    /\ Begin(h)

CreateEnds(h) ==
    /\ handles[h].place = "synced" /\ handles[h].creates
    /\ Becomes(h, [Returned(handles[h]) EXCEPT !.base = {current}])
    /\ UNCHANGED <<disk, lease, saved, left>>

-----------------------------------------------------------------------------
(***************************************************************************)
(* Crashes.                                                                *)
(***************************************************************************)
\* A process dies: its handles, its leases and its pins with it.
Crash(P) ==
    /\ Spend("troubles")
    /\ \E h \in P : handles[h].place # "none"
    /\ handles' = [h \in Handles |-> IF h \in P THEN Absent ELSE handles[h]]
    /\ KeepsLock
    /\ permit' = permit \ P
    /\ stages' = stages \ P
    /\ UNCHANGED <<gens, listed, current, durable, saved>>

\* Entries not synced since they changed are there or not.
PowerLoss ==
    /\ Spend("troubles")
    /\ \E kept \in SUBSET (Ids \ listed) :
          /\ gens' = [id \in (Ids \cap listed) \cup kept |-> gens[id]]
          /\ listed' = DOMAIN gens'
    /\ current' \in durable
    /\ durable' = {current'}
    /\ handles' = [h \in Handles |-> Absent]
    /\ owner' = NoLineage
    /\ permit' = Nobody
    /\ stages' = {}
    /\ UNCHANGED saved

-----------------------------------------------------------------------------
Saves(h) ==
    \/ SaveLease(h) \/ SavePermit(h) \/ SaveBegin(h) \/ Rename(h) \/ SyncList(h)
    \/ Select(h) \/ SyncRoot(h) \/ Finish(h)

Next ==
    \/ \E h \in Handles :
          \/ Resolve(h) \/ Open(h) \/ Mutate(h) \/ Drop(h) \/ End(h) \/ EndLease(h)
          \/ Saves(h) \/ Create(h) \/ CreateBegin(h) \/ CreateEnds(h)
          \/ \E fork \in Handles : Fork(h, fork)
    \/ \E P \in Processes : Crash(P)
    \/ PowerLoss

Spec == Init /\ [][Next]_vars

-----------------------------------------------------------------------------
(***************************************************************************)
(* Properties.                                                             *)
(***************************************************************************)
\* What a save acknowledged is in whatever generation CURRENT may name, now or
\* after a power loss: a fork, a sibling, another process, a revocation, a
\* failed or repeated save and a prune never take it back.  (A handle created
\* over the graph, or detached from it, is not checked and may.)
SavedStays == \A id \in durable \cup {current} : saved \subseteq Contents(id)

\* CURRENT always names a generation that is there, and whose entry no power
\* loss takes, whatever fails between a rename and the pointer's sync and
\* whichever older generations go.
SelectedResolves == durable \cup {current} \subseteq (Ids \cap listed) \cup {0}

\* From its permit to its return a save has the directory to itself: no
\* sibling, no other process and no revocation gets the lock meanwhile; and
\* however a save ends, it leaves the permit to the next.
PublishesAlone ==
    LET publishing == {h \in Handles : handles[h].place \in Save /\ ~handles[h].creates}
    IN  /\ permit = publishing
        /\ \A h, k \in publishing : h = k /\ handles[h].using = owner

\* A prune never deletes a generation something in its own process reads.
ReadersKeepFiles ==
    [][\A h, k \in Handles :
          /\ handles[h].place = "synced" /\ handles'[h].place = "idle"
          /\ k # h /\ handles[k].place \in Live /\ handles[k].maps \in Ids
          /\ \E P \in Processes : {h, k} \subseteq P
          => handles[k].maps \in DOMAIN gens']_vars
=============================================================================
