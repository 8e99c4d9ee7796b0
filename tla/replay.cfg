\* Two identities in two slots; a frame may delete, recreate and relink a node.
CONSTANTS
    Ids = {i1, i2}
    Slots = {s1, s2}
    Rows = {r1, r2}
    Props = {p1, p2}
    Labels = {l1}
    MaxEdges = 2
    MaxTouches = 4
    MaxCommits = 2
    None = None
    Scopes = {{"create", "delete", "link"}, {"create", "delete", "update", "relabel"},
              {"delete", "link", "unlink", "relink"}}
    Seeds <- Checkpoints
SPECIFICATION Spec
SYMMETRY Renaming
CHECK_DEADLOCK FALSE
INVARIANT ReplayIsExact
INVARIANT ReplayConverges
