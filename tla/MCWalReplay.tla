---------------------------- MODULE MCWalReplay ----------------------------
EXTENDS WalReplay, TLC

\* The checkpoints with all identities alive and labelled and one edge between
\* two of them.
Linked(place, row, e, p) ==
    [node |-> [s \in Slots |-> [id |-> place[s], row |-> row, labels |-> Labels]],
     edges |-> [f \in Slots \X Slots |->
                    [q \in Props |-> IF f = e /\ q = p THEN 1 ELSE 0]]]
Checkpoints ==
    {Linked(place, row, e, p) :
        place \in {f \in [Slots -> Ids] : \A s, t \in Slots : f[s] = f[t] => s = t},
        row \in Rows, p \in Props, e \in {f \in Slots \X Slots : f[1] # f[2]}}

Renaming ==
    {[x \in Ids \cup Slots \cup Props \cup Rows |->
        IF x \in Ids THEN i[x] ELSE IF x \in Slots THEN s[x]
        ELSE IF x \in Props THEN p[x] ELSE r[x]] :
        i \in Permutations(Ids), s \in Permutations(Slots), p \in Permutations(Props),
        r \in Permutations(Rows)}
=============================================================================
