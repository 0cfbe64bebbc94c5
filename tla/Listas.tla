------------------------------- MODULE Listas -------------------------------
(***************************************************************************)
(* What the node and the city view both do with a list.                    *)
(***************************************************************************)
EXTENDS Integers, Sequences

\* The elements of s that are in keep, in the order of s.
Kept(s, keep) ==
    LET kept[i \in 0..Len(s)] ==
            IF i = 0 THEN <<>>
            ELSE IF s[i] \in keep THEN Append(kept[i - 1], s[i]) ELSE kept[i - 1]
    IN kept[Len(s)]
=============================================================================
