----------------------------- MODULE Universo -----------------------------
(***************************************************************************)
(* What the block tree promises: the universe of every block that is legal *)
(* after the history it names, and an observer of one of the heaviest      *)
(* histories.  Nothing is cached: the rules in force, the work and the     *)
(* next nonce of an account are read off the history each time.            *)
(*                                                                         *)
(* The arithmetic of the proof of work is a parameter: the work that bits  *)
(* stand for and the retarget over a window of blocks.                     *)
(***************************************************************************)
EXTENDS Integers, Sequences, FiniteSets

CONSTANTS GenesisBlock, Candidates, MinDifficulty, FirmaV2Desde, DubaiDesde,
          ViviendaDesde, NoTx, PowOk, LWMA_N, DifficultyFromBits(_), LwmaNextBits(_, _)

VARIABLES
    universe,   \* hash -> block
    observed    \* the block whose history the observer follows

vars == <<universe, observed>>

\* genesis..h, oldest first.
History(u, h) ==
    LET n == u[h].height + 1
        back[i \in 1..n] == IF i = 1 THEN u[h] ELSE u[back[i - 1].prev]
    IN [i \in 1..n |-> back[n + 1 - i]]

\* The work of a history, block by block from the oldest.
WorkOf(past) ==
    LET total[i \in 0..Len(past)] ==
            IF i = 0 THEN 0 ELSE total[i - 1] + DifficultyFromBits(past[i].bits)
    IN total[Len(past)]
Work(u, h) == WorkOf(History(u, h))

Heaviest(u) == {h \in DOMAIN u : \A other \in DOMAIN u : Work(u, other) <= Work(u, h)}

\* Some block of the history is dated at date or later.
Reached(past, date) == \E i \in DOMAIN past : past[i].timestamp >= date

\* The rules in force in the last block of a history.
FirmaV2(past) == Reached(past, FirmaV2Desde)
Dubai(past) == Reached(past, DubaiDesde)
\* The housing rules need those of Dubai in force when their date is reached.
Vivienda(past) ==
    \E i, j \in DOMAIN past : /\ j <= i
                               /\ past[i].timestamp >= ViviendaDesde
                               /\ past[j].timestamp >= DubaiDesde

\* The bits of the next block: the retarget over the last LWMA_N + 1 blocks.
NextBits(past) ==
    LET skipped == IF Len(past) > LWMA_N + 1 THEN Len(past) - LWMA_N - 1 ELSE 0
    IN LwmaNextBits([i \in 1..(Len(past) - skipped) |->
                        [timestamp |-> past[skipped + i].timestamp,
                         difficulty |-> DifficultyFromBits(past[skipped + i].bits)]],
                    MinDifficulty)

SpentBy(past, who) ==
    Cardinality({i \in DOMAIN past : past[i].tx # NoTx /\ past[i].tx.from = who})

\* b may follow the history past, which it names.
Legal(past, b) ==
    LET present == Append(past, b) IN
    /\ b.height = Len(past)
    /\ <<b.hash, b.bits>> \in PowOk
    /\ b.bits = NextBits(past)
    /\ b.tx # NoTx =>
          /\ b.tx.regla = (IF FirmaV2(present) THEN "v2" ELSE "v1")
          /\ b.tx.kind = "dubai" => Dubai(present)
          /\ b.tx.kind = "vivienda" => Vivienda(present)
          /\ b.tx.nonce = SpentBy(past, b.tx.from)

Init ==
    /\ universe = [h \in {GenesisBlock.hash} |-> GenesisBlock]
    /\ observed = GenesisBlock.hash

Admit(b) ==
    /\ b.hash \notin DOMAIN universe
    /\ universe' = [h \in DOMAIN universe \cup {b.hash} |->
                       IF h = b.hash THEN b ELSE universe[h]]
    /\ b.prev \in DOMAIN universe
    /\ Legal(History(universe, b.prev), b)
    /\ observed' \in Heaviest(universe')

Next == \E b \in Candidates : Admit(b)

Spec == Init /\ [][Next]_vars
==========================================================================
