----------------------------- MODULE WalReplay -----------------------------
(***************************************************************************)
(* What a commit writes into its log frame and what replay makes of it.    *)
(* A mutation of the working graph appends raw touches to the capture      *)
(* buffer, which name physical slots as hints and logical identities as    *)
(* truth; at commit the touches are resolved against the final graph into  *)
(* the frame's operations; recovery folds all frames into one plan, keyed  *)
(* by identity, and installs the plan on the checkpoint in one pass.  The  *)
(* question is whether the pass gives back the graph that was committed,   *)
(* with slots reused, identities deleted and recreated, parallel edges and *)
(* statements rolled back in between.                                      *)
(*                                                                         *)
(* What is abstracted:                                                     *)
(*   - One node type and one connection type; a row is a node's title and  *)
(*     properties, a prop an edge's property map.                          *)
(*   - Frames written before format v4 are one mutation each, which is     *)
(*     where their final-state resolution is exact, and add no parallel    *)
(*     edge, which their operations cannot tell apart.                     *)
(*   - Declarations, embeddings and the constraint check of the recovered  *)
(*     graph; endpoints vivified for logs that name a node no frame made.  *)
(***************************************************************************)
EXTENDS Integers, Sequences, FiniteSets, SequencesExt

CONSTANTS
    Ids,          \* node identities, in their canonical spelling
    Slots,        \* NodeIndex values
    Rows, Props, Labels,
    Scopes,       \* the sets of kinds of writes explored together (bound)
    Seeds,        \* the graphs a log starts from, as checkpoints hold them
    MaxEdges,     \* edges in a graph (bound)
    MaxTouches,   \* raw touches in one commit (bound)
    MaxCommits,   \* frames in a behaviour (bound)
    None

VARIABLES
    scope,      \* the kinds of writes of this behaviour
    format,     \* the log's format: "v3" until an open upgrades it
    published,  \* the committed graph, by slot
    working,    \* the working copy
    touches,    \* RecordingGraph.ops of the working copy
    mark,       \* the running statement's checkpoint, or None
    base,       \* the checkpoint, by identity
    plan,       \* the fold of the frames after the checkpoint
    commits

vars == <<scope, format, published, working, touches, mark, base, plan, commits>>

-----------------------------------------------------------------------------
\* Graphs.  Between two nodes the edges are a bag of property maps.
Bag == [Props -> 0..MaxEdges]
NoEdges == [p \in Props |-> 0]
Node == [id : Ids, row : Rows, labels : SUBSET Labels]
Graph == [node : [Slots -> Node \cup {None}], edges : [Slots \X Slots -> Bag]]
LogicalNode == [row : Rows, labels : SUBSET Labels]
Logical == [node : [Ids -> LogicalNode \cup {None}], edges : [Ids \X Ids -> Bag]]

ASSUME WalReplayAssumption ==
    /\ None \notin Ids \cup Slots \cup Rows
    /\ IsFiniteSet(Ids) /\ IsFiniteSet(Slots)
    /\ MaxEdges \in Nat \ {0}
    /\ \A scopes \in Scopes : scopes \subseteq
            {"create", "update", "relabel", "delete", "link", "unlink", "relink"}
    /\ Seeds \subseteq Graph
    /\ MaxTouches \in Nat /\ MaxCommits \in Nat

Holds(g, s, id) == g.node[s] # None /\ g.node[s].id = id
Alive(g, id) == \E s \in Slots : Holds(g, s, id)
SlotOf(g, id) == CHOOSE s \in Slots : Holds(g, s, id)

\* What a reader sees of a graph: no slots.
Seen(g) ==
    [node |-> [id \in Ids |->
        IF Alive(g, id)
        THEN [row |-> g.node[SlotOf(g, id)].row, labels |-> g.node[SlotOf(g, id)].labels]
        ELSE None],
     edges |-> [e \in Ids \X Ids |->
        IF Alive(g, e[1]) /\ Alive(g, e[2])
        THEN g.edges[<<SlotOf(g, e[1]), SlotOf(g, e[2])>>] ELSE NoEdges]]

-----------------------------------------------------------------------------
\* Capture.  A raw touch is taken before or after the write as in the code;
\* only what it names matters, since it is resolved against the final graph.
NodeTouch(s, id, reset) == [raw |-> "node", slot |-> s, id |-> id, reset |-> reset]
RemoveTouch(id) == [raw |-> "remove", id |-> id]
GroupTouch(g, e) == [raw |-> "group", slots |-> e,
                     ids |-> <<g.node[e[1]].id, g.node[e[2]].id>>]

Incident(g, s) == {e \in Slots \X Slots : s \in {e[1], e[2]} /\ g.edges[e] # NoEdges}

\* detach_delete_nodes: every incident edge is removed before the node.
Detached(g, s) ==
    [node |-> [g.node EXCEPT ![s] = None],
     edges |-> [e \in Slots \X Slots |-> IF s \in {e[1], e[2]} THEN NoEdges ELSE g.edges[e]]]
DetachTouches(g, s) ==
    Append([i \in 1..Cardinality(Incident(g, s)) |->
                GroupTouch(g, SetToSeq(Incident(g, s))[i])],
           RemoveTouch(g.node[s].id))

\* Every write of the storage seam: the graph after it and what it captures.
Creates(g) ==
    {[graph |-> [g EXCEPT !.node[s] = [id |-> id, row |-> r, labels |-> {}]],
      raw |-> <<NodeTouch(s, id, TRUE)>>, legacy |-> "UpsertNode"] :
        s \in {t \in Slots : g.node[t] = None},
        id \in {i \in Ids : ~Alive(g, i)}, r \in Rows}
Updates(g) ==
    UNION {{[graph |-> [g EXCEPT !.node[s].row = r],
             raw |-> <<NodeTouch(s, g.node[s].id, FALSE)>>, legacy |-> "UpsertNode"] : r \in Rows \ {g.node[s].row}}
           : s \in {t \in Slots : g.node[t] # None}}
Relabels(g) ==
    UNION {{[graph |-> [g EXCEPT !.node[s].labels = ls],
             raw |-> <<NodeTouch(s, g.node[s].id, FALSE)>>, legacy |-> "SetNodeLabels"]
            : ls \in SUBSET Labels \ {g.node[s].labels}}
           : s \in {t \in Slots : g.node[t] # None}}
Deletes(g) ==
    {[graph |-> Detached(g, s), raw |-> DetachTouches(g, s), legacy |-> "RemoveNode"]
        : s \in {t \in Slots : g.node[t] # None}}

EdgeCount(g) ==
    SumFunction([x \in Slots \X Slots \X Props |-> g.edges[<<x[1], x[2]>>][x[3]]])
Live(g) == {e \in Slots \X Slots : g.node[e[1]] # None /\ g.node[e[2]] # None}
Links(g) ==
    {[graph |-> [g EXCEPT !.edges[x[1]][x[2]] = @ + 1], raw |-> <<GroupTouch(g, x[1])>>,
      legacy |-> "Edge"]
        : x \in {y \in Live(g) \X Props : EdgeCount(g) < MaxEdges}}
Unlinks(g) ==
    {[graph |-> [g EXCEPT !.edges[x[1]][x[2]] = @ - 1], raw |-> <<GroupTouch(g, x[1])>>,
      legacy |-> "Edge"]
        : x \in {y \in Live(g) \X Props : g.edges[y[1]][y[2]] > 0}}
Relinks(g) ==
    {[graph |-> [g EXCEPT !.edges[x[1]] = [@ EXCEPT ![x[2]] = @ - 1, ![x[3]] = @ + 1]],
      raw |-> <<GroupTouch(g, x[1])>>,
      legacy |-> "Edge"]
        : x \in {y \in Live(g) \X Props \X Props :
                    /\ y[2] # y[3]
                    /\ g.edges[y[1]][y[2]] > 0}}
WritesOf(kind, g) ==
    CASE kind = "create"  -> Creates(g)
      [] kind = "update"  -> Updates(g)
      [] kind = "relabel" -> Relabels(g)
      [] kind = "delete"  -> Deletes(g)
      [] kind = "link"    -> Links(g)
      [] kind = "unlink"  -> Unlinks(g)
      [] kind = "relink"  -> Relinks(g)
Writes(g) == UNION {WritesOf(kind, g) : kind \in scope}

-----------------------------------------------------------------------------
\* Resolution of a commit's touches against its final graph.
Touching(raw, id) == {i \in DOMAIN raw : raw[i].raw \in {"node", "remove"} /\ raw[i].id = id}

\* The slot of the last touch, None if that was the removal.
TouchedSlot(raw, id) ==
    LET t == raw[Max(Touching(raw, id))] IN IF t.raw = "remove" THEN None ELSE t.slot
Reset(raw, id) == \E i \in Touching(raw, id) : raw[i].raw = "remove" \/ raw[i].reset

NodeOp(raw, g, id) ==
    LET s == TouchedSlot(raw, id)
    IN IF s # None /\ Holds(g, s, id)
       THEN [op |-> "ReplaceNodeState", id |-> id, row |-> g.node[s].row,
             labels |-> g.node[s].labels, reset |-> Reset(raw, id)]
       ELSE [op |-> "RemoveNode", id |-> id]


GroupTouches(raw, ids) == {i \in DOMAIN raw : raw[i].raw = "group" /\ raw[i].ids = ids}

\* endpoint: the node's own touch if it has one, else the group's hint.
Endpoint(raw, g, id, hint) ==
    LET s == IF Touching(raw, id) = {} THEN hint ELSE TouchedSlot(raw, id)
    IN IF s # None /\ Holds(g, s, id) THEN s ELSE None

GroupOp(raw, g, ids) ==
    LET hint == raw[Max(GroupTouches(raw, ids))].slots
        s == Endpoint(raw, g, ids[1], hint[1])
        t == Endpoint(raw, g, ids[2], hint[2])
    IN [op |-> "ReplaceEdgeGroup", ids |-> ids,
        edges |-> IF s # None /\ t # None THEN g.edges[<<s, t>>] ELSE NoEdges]

\* wal_capture::resolve: declarations aside, nodes first, then groups.
Resolve(raw, g) ==
    SetToSeq({NodeOp(raw, g, id) : id \in {i \in Ids : Touching(raw, i) # {}}})
    \o SetToSeq({GroupOp(raw, g, e) : e \in {f \in Ids \X Ids : GroupTouches(raw, f) # {}}})

\* What an older writer logged for one write: the fallback of resolve_ops.
LegacyNode(op, s, g) ==
    IF op = "UpsertNode" THEN [op |-> op, id |-> g.node[s].id, row |-> g.node[s].row]
    ELSE [op |-> op, id |-> g.node[s].id, labels |-> g.node[s].labels]
LegacyEdge(e, g) ==
    LET ids == <<g.node[e[1]].id, g.node[e[2]].id>>
        props == {p \in Props : g.edges[e][p] > 0}
    IN IF props = {} THEN [op |-> "RemoveEdge", ids |-> ids]
       ELSE [op |-> "UpsertEdge", ids |-> ids, prop |-> CHOOSE p \in props : TRUE]
LegacyOps(w) ==
    [i \in DOMAIN w.raw |->
        LET t == w.raw[i]
        IN CASE t.raw = "node" -> LegacyNode(w.legacy, t.slot, w.graph)
             [] t.raw = "remove" -> [op |-> "RemoveNode", id |-> t.id]
             [] t.raw = "group" /\ w.legacy = "Edge" -> LegacyEdge(t.slots, w.graph)
             [] OTHER -> [op |-> "RemoveEdge", ids |-> t.ids]]

-----------------------------------------------------------------------------
\* The fold (ReplayPlan).  A slot is None until an operation names its key.
NodeState == [row : Rows \cup {None}, removed : BOOLEAN, reset : BOOLEAN,
              generation : Nat, labels : (SUBSET Labels) \cup {None}]
EdgeState == [prop : Props \cup {None}, reset : BOOLEAN, group : Bag \cup {None},
              generations : Nat \X Nat]
Plan == [node : [Ids -> NodeState \cup {None}], edge : [Ids \X Ids -> EdgeState \cup {None}]]

EmptyPlan == [node |-> [id \in Ids |-> None], edge |-> [e \in Ids \X Ids |-> None]]
FreshNode == [row |-> None, removed |-> FALSE, reset |-> FALSE, generation |-> 0, labels |-> None]

NodeMut(p, id) == IF p.node[id] = None THEN FreshNode ELSE p.node[id]
Generation(p, id) == NodeMut(p, id).generation

FoldEdge(p, ids, prop, group) ==
    [p EXCEPT !.edge[ids] =
        [prop |-> prop, group |-> group,
         reset |-> prop = None \/ (p.edge[ids] # None /\ p.edge[ids].reset),
         generations |-> <<Generation(p, ids[1]), Generation(p, ids[2])>>]]

Replaced(n, o) ==
    [n EXCEPT !.row = o.row, !.removed = FALSE, !.labels = o.labels,
              !.reset = @ \/ o.reset,
              !.generation = @ + (IF o.reset THEN 1 ELSE 0)]
Removed(n) ==
    [n EXCEPT !.row = None, !.removed = TRUE, !.reset = TRUE,
              !.generation = @ + 1, !.labels = None]

FoldOp(p, o) ==
    CASE o.op = "ReplaceNodeState" -> [p EXCEPT !.node[o.id] = Replaced(NodeMut(p, o.id), o)]
      [] o.op = "RemoveNode" -> [p EXCEPT !.node[o.id] = Removed(NodeMut(p, o.id))]
      [] o.op = "UpsertNode" ->
            [p EXCEPT !.node[o.id] = [NodeMut(p, o.id) EXCEPT !.row = o.row, !.removed = FALSE]]
      [] o.op = "SetNodeLabels" ->
            [p EXCEPT !.node[o.id] = [NodeMut(p, o.id) EXCEPT !.labels = o.labels]]
      [] o.op = "ReplaceEdgeGroup" -> FoldEdge(p, o.ids, None, o.edges)
      [] o.op = "UpsertEdge" -> FoldEdge(p, o.ids, o.prop, None)
      [] o.op = "RemoveEdge" -> FoldEdge(p, o.ids, None, None)


Absorb(p, ops) == FoldLeft(FoldOp, p, ops)

-----------------------------------------------------------------------------
\* Installation of a plan on a checkpoint.
Doomed(p) == {id \in Ids : p.node[id] # None /\ p.node[id].reset}
NodeRemoved(p, id) == p.node[id] # None /\ p.node[id].removed
EdgeSurvives(p, ids) ==
    /\ ~NodeRemoved(p, ids[1]) /\ ~NodeRemoved(p, ids[2])
    /\ p.edge[ids].generations = <<Generation(p, ids[1]), Generation(p, ids[2])>>

InstalledNode(b, p, id) ==
    LET old == IF id \in Doomed(p) THEN None ELSE b.node[id]
        row == IF p.node[id] # None /\ p.node[id].row # None THEN p.node[id].row
               ELSE IF old = None THEN None ELSE old.row
        labels == IF p.node[id] # None /\ ~p.node[id].removed /\ p.node[id].labels # None
                  THEN p.node[id].labels
                  ELSE IF old = None THEN {} ELSE old.labels
    IN IF row = None THEN None ELSE [row |-> row, labels |-> labels]

OneEdge(prop) == [p \in Props |-> IF p = prop THEN 1 ELSE 0]

\* Mutant of InstalledEdges: a group's members join those of the checkpoint.
InstalledEdgesAdded(b, p, ids) ==
    LET old == IF ids[1] \in Doomed(p) \/ ids[2] \in Doomed(p) THEN NoEdges ELSE b.edges[ids]
        s == p.edge[ids]
    IN IF s = None \/ ~EdgeSurvives(p, ids) THEN old
       ELSE IF s.group # None THEN [q \in Props |-> old[q] + s.group[q]]
       ELSE IF s.prop = None THEN NoEdges
       ELSE OneEdge(s.prop)
InstalledEdges(b, p, ids) ==
    LET old == IF ids[1] \in Doomed(p) \/ ids[2] \in Doomed(p) THEN NoEdges ELSE b.edges[ids]
        s == p.edge[ids]
    IN IF s = None \/ ~EdgeSurvives(p, ids) THEN old
       ELSE IF s.group # None THEN s.group
       ELSE IF s.prop = None THEN NoEdges
       ELSE OneEdge(s.prop)


Installed(b, p) ==
    [node |-> [id \in Ids |-> InstalledNode(b, p, id)],
     edges |-> [e \in Ids \X Ids |-> InstalledEdges(b, p, e)]]

Parallel(bag) ==
    \/ \E p \in Props : bag[p] > 1
    \/ \E p, q \in Props : p # q /\ bag[p] > 0 /\ bag[q] > 0

\* A group with members whose endpoint is missing, or a single-edge operation
\* over parallel edges: recovery refuses the log and keeps the old graph.
Refused(b, p) ==
    \E ids \in Ids \X Ids :
        /\ p.edge[ids] # None /\ EdgeSurvives(p, ids)
        /\ LET old == IF ids[1] \in Doomed(p) \/ ids[2] \in Doomed(p)
                      THEN NoEdges ELSE b.edges[ids]
               missing == \E k \in {1, 2} : InstalledNode(b, p, ids[k]) = None
               s == p.edge[ids]
           IN IF s.group # None THEN missing /\ s.group # NoEdges
              ELSE IF missing THEN s.prop # None ELSE Parallel(old)

-----------------------------------------------------------------------------
Init ==
    /\ scope \in Scopes
    /\ format \in {"v3", "v4"}
    /\ published \in Seeds /\ working = published
    /\ touches = <<>> /\ mark = None
    /\ base = Seen(published) /\ plan = EmptyPlan
    /\ commits = 0

\* One write of a statement; the first one begins it, and with it the rollback
\* journal, which notes the buffer's length.
Write ==
    /\ format = "v4" /\ commits < MaxCommits
    /\ \E w \in Writes(working) :
        /\ Len(touches) + Len(w.raw) <= MaxTouches
        /\ working' = w.graph
        /\ touches' = touches \o w.raw
    /\ mark' = IF mark = None THEN [graph |-> working, len |-> Len(touches)] ELSE mark
    /\ UNCHANGED <<scope, format, published, base, plan, commits>>

Succeed ==
    /\ mark # None
    /\ mark' = None
    /\ UNCHANGED <<scope, format, published, working, touches, base, plan, commits>>

\* Mutant of Fail: the touches of an undone statement stay.
FailKeepingTouches ==
    /\ mark # None
    /\ working' = mark.graph
    /\ mark' = None
    /\ UNCHANGED <<scope, format, published, touches, base, plan, commits>>

\* The statement fails: its writes are undone and their touches cut off.
Fail ==
    /\ mark # None
    /\ working' = mark.graph
    /\ touches' = SubSeq(touches, 1, mark.len)
    /\ mark' = None
    /\ UNCHANGED <<scope, format, published, base, plan, commits>>


\* The transaction commits: resolve, log, publish.
Commit ==
    /\ mark = None /\ touches # <<>>
    /\ plan' = Absorb(plan, Resolve(touches, working))
    /\ published' = working
    /\ touches' = <<>>
    /\ commits' = commits + 1
    /\ UNCHANGED <<scope, format, working, mark, base>>

\* It is rolled back, or its frame is refused: the working copy goes.
Abandon ==
    /\ mark = None /\ touches # <<>>
    /\ working' = published
    /\ touches' = <<>>
    /\ UNCHANGED <<scope, format, published, mark, base, plan, commits>>

\* A commit of the writer that left a v3 log behind: one write.
LegacyCommit ==
    /\ format = "v3" /\ commits < MaxCommits
    /\ \E w \in Writes(published) :
        /\ \A e \in Slots \X Slots : ~Parallel(w.graph.edges[e])
        /\ published' = w.graph /\ working' = w.graph
        /\ plan' = Absorb(plan, LegacyOps(w))
    /\ commits' = commits + 1
    /\ UNCHANGED <<scope, format, touches, mark, base>>

\* An open upgrades the header in place; the v3 frames stay.
Upgrade ==
    /\ format = "v3"
    /\ format' = "v4"
    /\ UNCHANGED <<scope, published, working, touches, mark, base, plan, commits>>

\* A checkpoint stamps the graph; replay starts after its frame.
Checkpoint ==
    /\ mark = None /\ plan # EmptyPlan
    /\ base' = Seen(published)
    /\ plan' = EmptyPlan
    /\ UNCHANGED <<scope, format, published, working, touches, mark, commits>>

Next == \/ Write \/ Succeed \/ Fail \/ Commit \/ Abandon
        \/ LegacyCommit \/ Upgrade \/ Checkpoint

Spec == Init /\ [][Next]_vars

-----------------------------------------------------------------------------
Touch == [raw : {"node"}, slot : Slots, id : Ids, reset : BOOLEAN]
            \cup [raw : {"remove"}, id : Ids]
            \cup [raw : {"group"}, slots : Slots \X Slots, ids : Ids \X Ids]

\* Every variable keeps its type; no write adds an edge to a node that is not
\* there, and no two nodes share an identity.
TypeOK ==
    /\ scope \in Scopes
    /\ format \in {"v3", "v4"} /\ commits \in 0..MaxCommits
    /\ \A g \in {published, working} :
        /\ g \in Graph
        /\ \A e \in Slots \X Slots : g.edges[e] # NoEdges => e \in Live(g)
        /\ \A s, t \in Slots : s # t /\ g.node[s] # None /\ g.node[t] # None
                                  => g.node[s].id # g.node[t].id
    /\ touches \in Seq(Touch) /\ Len(touches) <= MaxTouches
    /\ mark = None \/ mark \in [graph : Graph, len : 0..Len(touches)]
    /\ base \in Logical /\ plan \in Plan

\* What recovery reads stays as it is while a transaction writes.
AtCommit == touches = <<>> /\ mark = None

\* Recovery gives back the committed graph: nothing lost, nothing revived.
ReplayIsExact ==
    AtCommit => /\ ~Refused(base, plan)
                /\ Installed(base, plan) = Seen(published)

\* Replaying the log over a checkpoint that already holds its effects, or
\* twice, changes nothing (wal.rs on SetNodeLabels: "converges on the same").
ReplayConverges ==
    AtCommit => /\ ~Refused(Seen(published), plan)
                /\ Installed(Seen(published), plan) = Seen(published)
=============================================================================
