--------------------------- MODULE MCBranchSync ---------------------------
(***************************************************************************)
(* Small universes for BranchSync.  Blocks are numbered; each universe is  *)
(* a chain of the common branch and the branches the nodes do not share.   *)
(***************************************************************************)
EXTENDS BranchSync, TLC

CONSTANTS A, B

\* 0 - 1 - 2 - 3 common; 4 and 5 on 2; 6 on 5.
ForkPrev == <<0, 1, 2, 2, 4, 5>> @@ (0 :> 0)
ForkWork == <<1, 2, 4, 3, 4, 5>> @@ (0 :> 0)
ForkTrees == {(A :> {0, 1, 2, 3, 4, 5}) @@ (B :> {0, 1, 2, 3})}

Pair == {{A, B}}
==========================================================================
