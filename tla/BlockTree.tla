---------------------------- MODULE BlockTree ----------------------------
(***************************************************************************)
(* rami-core/src/blocktree.rs: the tree in which every valid block is kept *)
(* for ever, the rules in force on each branch, and the fork choice that   *)
(* selects the branch the observer follows.                                *)
(*                                                                         *)
(* A hash is a positive number; the order of the numbers is the order of   *)
(* the 32 bytes.  The ledger a block is applied to is reduced to the next  *)
(* nonce of each account, which is what makes a transaction unrepeatable;  *)
(* besides its coinbase a block carries at most one transaction.           *)
(***************************************************************************)
EXTENDS Pow

CONSTANTS
    Hashes,          \* hashes of the blocks that can exist
    GenesisBlock,    \* the block every node starts from
    Candidates,      \* blocks that can reach insert
    Timestamps,      \* header timestamps
    MinDifficulty,   \* Params.min_difficulty
    FirmaV2Desde,    \* activation of the v2 signature rule
    DubaiDesde,      \* activation of the Dubai rules
    ViviendaDesde,   \* activation of the housing rules
    Accounts,
    Txs,             \* transactions a block can carry
    NoTx,            \* a block with its coinbase only
    PowOk,           \* pairs <<hash, bits>> such that the hash meets the target
    Converged,       \* hashes whose Collatz orbit reaches 1 within the cap
    Score            \* Collatz score of each hash

ZERO_HASH == 0
V1 == "v1"
V2 == "v2"

Transaction == [from : Accounts, nonce : Nat, regla : {V1, V2},
                kind : {"base", "dubai", "vivienda"}]

Block == [hash : Hashes, prev : Hashes \cup {ZERO_HASH}, height : Nat,
          timestamp : Timestamps, bits : Nat, tx : Txs \cup {NoTx}]

ASSUME HashAssumption == Hashes \subseteq Nat \ {ZERO_HASH}
ASSUME TimeAssumption ==
    /\ Timestamps \subseteq Nat
    /\ FirmaV2Desde \in Nat /\ DubaiDesde \in Nat /\ ViviendaDesde \in Nat
ASSUME TxAssumption == Txs \subseteq Transaction /\ NoTx \notin Txs
ASSUME CandidateAssumption == Candidates \subseteq Block
ASSUME TieBreakAssumption == Converged \subseteq Hashes /\ Score \in [Hashes -> Nat]
\* What BlockTree::new checks of the genesis block.
ASSUME GenesisAssumption ==
    /\ GenesisBlock \in Block
    /\ GenesisBlock.height = 0 /\ GenesisBlock.prev = ZERO_HASH
    /\ GenesisBlock.tx = NoTx
    /\ <<GenesisBlock.hash, GenesisBlock.bits>> \in PowOk

genesis == GenesisBlock.hash

VARIABLES
    nodes,       \* hash -> [block, cum_work, firma_v2, dubai, vivienda]
    children,    \* hash -> the hashes of its children
    tip_state    \* hash of a tip -> ledger state after it

vars == <<nodes, children, tip_state>>

Node == [block : Block, cum_work : Nat,
         firma_v2 : BOOLEAN, dubai : BOOLEAN, vivienda : BOOLEAN]
Ledger == [nonces : [Accounts -> Nat], height : Nat]
EmptyLedger == [nonces |-> [a \in Accounts |-> 0], height |-> 0]

----------------------------------------------------------------------------
(* The rules in force and the transition of a block (tx.rs, state.rs).     *)

\* FirmaCtx of a block: regla, dubai, and vivienda only where dubai holds.
Ctx(firmaV2, dubai, vivienda) ==
    [regla |-> IF firmaV2 THEN V2 ELSE V1, dubai |-> dubai,
     vivienda |-> dubai /\ vivienda]

\* verify_tx_con: the signature is over the message of the rule in force,
\* and each kind of transaction needs its rules active.
VerifyTx(tx, ctx) ==
    /\ tx.regla = ctx.regla
    /\ tx.kind = "dubai" => ctx.dubai
    /\ tx.kind = "vivienda" => ctx.vivienda

\* apply_block_con accepts b on top of st, and the state it leaves.
BlockApplies(st, b, expectedHeight, ctx) ==
    /\ b.height = expectedHeight
    /\ b.tx # NoTx => /\ VerifyTx(b.tx, ctx)
                      /\ b.tx.nonce = st.nonces[b.tx.from]

ApplyBlock(st, b) ==
    [nonces |-> [a \in Accounts |->
                    IF b.tx # NoTx /\ a = b.tx.from THEN st.nonces[a] + 1
                                                    ELSE st.nonces[a]],
     height |-> b.height]

----------------------------------------------------------------------------
(* Walking the tree.                                                       *)

Parent(h) == nodes[h].block.prev
CumWork(h) == nodes[h].cum_work

\* h, its parent, its grandparent... down to the genesis, which is as many
\* steps away as h is high.
WalkBack(h) ==
    LET back[i \in 0..nodes[h].block.height] ==
            IF i = 0 THEN h ELSE Parent(back[i - 1])
    IN back

\* genesis..h, oldest first.
ChainTo(h) ==
    LET n == nodes[h].block.height + 1
    IN [i \in 1..n |-> WalkBack(h)[n - i]]

\* The last LWMA_N + 1 blocks ending in parent, fewer near the genesis.
LwmaWindow(parent) ==
    LET chain == ChainTo(parent)
        recent == SubSeq(chain, AtLeast(Len(chain) - LWMA_N, 1), Len(chain))
    IN [i \in DOMAIN recent |->
           [timestamp |-> nodes[recent[i]].block.timestamp,
            difficulty |-> DifficultyFromBits(nodes[recent[i]].block.bits)]]

ExpectedBits(parent) == LwmaNextBits(LwmaWindow(parent), MinDifficulty)

\* A rule reached by date, or already in force in the parent, is in force.
FirmaV2Sobre(parent, timestamp) == nodes[parent].firma_v2 \/ timestamp >= FirmaV2Desde
DubaiSobre(parent, timestamp) == nodes[parent].dubai \/ timestamp >= DubaiDesde
ViviendaSobre(parent, timestamp) ==
    /\ DubaiSobre(parent, timestamp)
    /\ nodes[parent].vivienda \/ timestamp >= ViviendaDesde

CtxSobre(parent, timestamp) ==
    Ctx(FirmaV2Sobre(parent, timestamp), DubaiSobre(parent, timestamp),
        ViviendaSobre(parent, timestamp))

CtxOf(h) == Ctx(nodes[h].firma_v2, nodes[h].dubai, nodes[h].vivienda)

\* replay_state: the ledger along the branch of h, from the empty one, under
\* the rules recorded in each node; it fails when some block no longer applies.
StatesAlong(h) ==
    LET after[i \in 0..(nodes[h].block.height + 1)] ==
            IF i = 0 THEN EmptyLedger
            ELSE ApplyBlock(after[i - 1], nodes[ChainTo(h)[i]].block)
    IN after
Replay(h) == StatesAlong(h)[nodes[h].block.height + 1]
Replays(h) ==
    \A i \in 1..(nodes[h].block.height + 1) :
        BlockApplies(StatesAlong(h)[i - 1], nodes[ChainTo(h)[i]].block, i - 1,
                     CtxOf(ChainTo(h)[i]))

\* Defect: a fork at an interior block takes the state of some tip.
ParentStateOfATip(p) ==
    IF p \in DOMAIN tip_state THEN tip_state[p]
    ELSE tip_state[CHOOSE t \in DOMAIN tip_state : TRUE]

\* The state of the parent: kept if it is a tip, replayed otherwise.
ParentState(p) == IF p \in DOMAIN tip_state THEN tip_state[p] ELSE Replay(p)

----------------------------------------------------------------------------
(* The tree's operations.                                                  *)

\* BlockTree::new.
Init ==
    LET t == GenesisBlock.timestamp
        dubai == t >= DubaiDesde
    IN /\ nodes = [h \in {genesis} |->
                      [block |-> GenesisBlock,
                       cum_work |-> DifficultyFromBits(GenesisBlock.bits),
                       firma_v2 |-> t >= FirmaV2Desde,
                       dubai |-> dubai,
                       vivienda |-> dubai /\ t >= ViviendaDesde]]
       /\ children = [h \in {} |-> {}]
       /\ tip_state = [h \in {genesis} |-> ApplyBlock(EmptyLedger, GenesisBlock)]

\* The checks of insert: each failed one leaves the tree as it was.
Admissible(b) ==
    /\ b.prev \in DOMAIN nodes
    /\ b.height = nodes[b.prev].block.height + 1
    /\ <<b.hash, b.bits>> \in PowOk
    /\ b.bits = ExpectedBits(b.prev)
    /\ b.prev \in DOMAIN tip_state \/ Replays(b.prev)
    /\ BlockApplies(ParentState(b.prev), b, b.height, CtxSobre(b.prev, b.timestamp))

WorkOn(b) == CumWork(b.prev) + DifficultyFromBits(b.bits)

NodeOn(b) ==
    [block |-> b,
     cum_work |-> WorkOn(b),
     firma_v2 |-> FirmaV2Sobre(b.prev, b.timestamp),
     dubai |-> DubaiSobre(b.prev, b.timestamp),
     vivienda |-> ViviendaSobre(b.prev, b.timestamp)]

AddNode(b) ==
    nodes' = [x \in DOMAIN nodes \cup {b.hash} |->
                 IF x = b.hash THEN NodeOn(b) ELSE nodes[x]]

AddChild(b) ==
    children' = [x \in DOMAIN children \cup {b.prev} |->
                    (IF x \in DOMAIN children THEN children[x] ELSE {})
                    \cup (IF x = b.prev THEN {b.hash} ELSE {})]

MoveTip(b) ==
    tip_state' = [x \in (DOMAIN tip_state \ {b.prev}) \cup {b.hash} |->
                     IF x = b.hash THEN ApplyBlock(ParentState(b.prev), b) ELSE tip_state[x]]

\* BlockTree::insert.  A known block is accepted again without effect.
Insert(b) ==
    /\ b.hash \notin DOMAIN nodes
    /\ Admissible(b)
    /\ AddNode(b) /\ AddChild(b) /\ MoveTip(b)

Next == \E b \in Candidates : Insert(b)

Spec == Init /\ [][Next]_vars

----------------------------------------------------------------------------
(* Fork choice (head, tips_by_work, tiebreak.rs) and reorg_between.        *)

Tips == DOMAIN tip_state

\* canonical_tip_order(a, b) = Less: the higher Collatz score wins when both
\* orbits converge; otherwise, and on equal scores, the lower hash.
CanonicalBefore(a, b) ==
    IF {a, b} \subseteq Converged /\ Score[a] # Score[b]
    THEN Score[a] > Score[b]
    ELSE a < b

\* No tip has been looked at yet: the None that head starts from.
NoTip == ZERO_HASH

\* Defect: length instead of work.
ReplacesByHeight(tip, best) ==
    \/ best = NoTip
    \/ nodes[tip].block.height > nodes[best].block.height
    \/ nodes[tip].block.height = nodes[best].block.height /\ CanonicalBefore(tip, best)

\* One step of the scan in head: a tip heavier than the best so far replaces
\* it, and one of the same work does when it comes before it.
Replaces(tip, best) ==
    \/ best = NoTip
    \/ CumWork(tip) > CumWork(best)
    \/ CumWork(tip) = CumWork(best) /\ CanonicalBefore(tip, best)
\* (best is bound to its value, so that the scan computes it once per step.)
BetterTip(best, tip) ==
    CHOOSE winner \in {IF Replaces(tip, b) THEN tip ELSE b : b \in {best}} : TRUE

\* The best of the tips up to each number, which are looked at in order.
Scan ==
    LET best[k \in 0..Max(Tips)] ==
            IF k = 0 THEN NoTip
            ELSE IF k \in Tips THEN BetterTip(best[k - 1], k) ELSE best[k - 1]
    IN best

ObserverHead == Scan[Max(Tips)]

----------------------------------------------------------------------------
(* Properties.                                                             *)

\* The tree, its child lists and the cached tip states are well formed.
TypeOK ==
    /\ DOMAIN nodes \subseteq Hashes
    /\ nodes \in [DOMAIN nodes -> Node]
    /\ DOMAIN children \subseteq DOMAIN nodes
    /\ children \in [DOMAIN children -> SUBSET DOMAIN nodes]
    /\ DOMAIN tip_state \subseteq DOMAIN nodes
    /\ tip_state \in [DOMAIN tip_state -> Ledger]

\* The three maps insert updates one after the other agree: a state is cached
\* for exactly the blocks without children, and the child lists are the
\* inverse of prev_hash.
TipsAreLeaves ==
    /\ Tips = DOMAIN nodes \ DOMAIN children
    /\ DOMAIN children = {Parent(c) : c \in DOMAIN nodes \ {genesis}}
    /\ \A p \in DOMAIN children : children[p] = {c \in DOMAIN nodes : Parent(c) = p}

\* Every branch stays valid from the empty ledger under the rules recorded in
\* its nodes, and the state cached for its tip is the one a replay computes:
\* a fork at an interior block sees the same ledger as an extension of a tip.
BranchesReplay ==
    /\ \A h \in DOMAIN nodes : Replays(h)
    /\ \A t \in Tips : tip_state[t] = Replay(t)

\* a is h or one of its ancestors: it is in every set that contains h and is
\* closed under parents.
Descends(h, a) ==
    \A S \in SUBSET DOMAIN nodes :
        (h \in S /\ \A x \in S \ {genesis} : Parent(x) \in S) => a \in S

\* What a branch has reached it keeps: a block stands higher and has more work
\* than each of its ancestors, and every rule in force in an ancestor is in
\* force in it, whatever its own timestamp says.
BranchesOnlyAdvance ==
    \A h, a \in DOMAIN nodes :
        Descends(h, a) /\ a # h =>
            /\ nodes[a].block.height < nodes[h].block.height
            /\ CumWork(a) < CumWork(h)
            /\ nodes[a].firma_v2 => nodes[h].firma_v2
            /\ nodes[a].dubai => nodes[h].dubai
            /\ nodes[a].vivienda => nodes[h].vivienda

\* The scan of head, which looks at tips only, ends on a tip that no block of
\* the whole tree outweighs.
HeadIsHeaviest ==
    /\ ObserverHead \in Tips
    /\ \A h \in DOMAIN nodes : CumWork(h) <= CumWork(ObserverHead)

\* No admitted block is ever forgotten or changed, on whichever branch it is.
NothingIsForgotten ==
    [][\A h \in DOMAIN nodes : h \in DOMAIN nodes' /\ nodes'[h] = nodes[h]]_vars
==========================================================================
