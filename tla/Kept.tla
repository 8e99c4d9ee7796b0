-------------------------------- MODULE Kept --------------------------------
(***************************************************************************)
(* What is left of a sequence when only some of its positions are kept, in *)
(* order: Rust's filter and pop_front loops over a VecDeque or a Vec.      *)
(* SelectSeq does the same, but by a definition the provers cannot expand. *)
(***************************************************************************)
EXTENDS Naturals, Sequences

KeptUpTo(s, positions) ==
    LET kept[i \in 0..Len(s)] ==
            IF i = 0 THEN <<>>
            ELSE IF i \in positions THEN Append(kept[i - 1], s[i]) ELSE kept[i - 1]
    IN kept
Kept(s, positions) == KeptUpTo(s, positions)[Len(s)]
=============================================================================
