--------------------------- MODULE MCMinerLoop ---------------------------
(* Values of the constants of MinerLoop.                                   *)
EXTENDS MinerLoop

\* A job won at once, where the guard on last_found can act, and one won at
\* its second nonce, where it cannot.
WinningAtZeroAndOne == [j \in Jobs \ {MaxJobs} |-> (j + 1) % 2]
==========================================================================
