------------------------------- MODULE Node -------------------------------
(***************************************************************************)
(* The single-threaded actor of rami-node (lib.rs) with its directory      *)
(* (rami-core/store.rs): the tree in memory, chain.jsonl, the mempool and  *)
(* its file, the job of the miner thread, and what a crash or a failed     *)
(* write leaves of them.                                                   *)
(*                                                                         *)
(* The tree is the one of module BlockTree seen from outside: a node keeps *)
(* the ledger after its block (BlockTree: a replay gives the same one) and *)
(* the head is the highest block, the lowest hash among equals (every      *)
(* block has the same work and no orbit converges).  Of the ledger a       *)
(* transaction sees its signer's nonce and, when it buys something, that   *)
(* nobody bought it before.                                                *)
(*                                                                         *)
(* What the code does in a loop over a sequence is a recursive function of *)
(* the number of elements done, so that the proofs can unfold it.          *)
(***************************************************************************)
EXTENDS Integers, SequencesExt, Listas

CONSTANTS
    Hashes,                  \* hashes of the blocks that can exist
    GENESIS,                 \* the genesis block's hash
    Accounts, Items, NoItem,
    Txs,                     \* transactions users can sign
    PeerBodies,              \* transaction lists of the blocks peers mine
    MAX_BLOCK_TXS, MEMPOOL_MAX, MEMPOOL_MAX_PER_SIGNER, SEEN_TX_CAP,
    Faults,                  \* "crash": the process may die; "fail": a write may
                             \* fail; "tear": an interrupted write may leave part
                             \* of its record
    JUNK,                    \* a line that does not parse
    None,                    \* no file, no job, no block in the queue
    MaxLines                 \* bound on the lines of a file

\* A transaction is signed under rule v1 or v2.
Transaction == [from : Accounts, nonce : Nat, buys : Items \cup {NoItem}, v2 : BOOLEAN]
\* late: the header's timestamp has reached firma_v2_desde.
Block == [hash : Hashes, prev : Hashes, height : Nat, txs : Seq(Txs), late : BOOLEAN]
Genesis == [hash |-> GENESIS, prev |-> GENESIS, height |-> 0, txs |-> <<>>, late |-> FALSE]

ASSUME NodeAssumption ==
    /\ Hashes \subseteq Nat /\ GENESIS \in Hashes
    /\ Txs \subseteq Transaction /\ NoItem \notin Items
    /\ PeerBodies \subseteq Seq(Txs)
    /\ MAX_BLOCK_TXS \in Nat \ {0} /\ MEMPOOL_MAX \in Nat
    /\ MEMPOOL_MAX_PER_SIGNER \in Nat /\ SEEN_TX_CAP \in Nat \ {0}
    /\ JUNK \notin Block /\ JUNK \notin Txs
    /\ Faults \subseteq {"crash", "fail", "tear"} /\ MaxLines \in Nat

VARIABLES
    running,        \* the node is up
    tree,           \* hash -> [block, v2, after]; empty when down
    chain_file,     \* chain.jsonl
    mempool,        \* sequence of pending transactions, in order of arrival
    mempool_file,   \* mempool.jsonl
    seen_tx,
    job,            \* MiningShared.job: the candidate the miner works on
    mined,          \* the NodeMsg::Mined waiting in the actor's queue
    activated,      \* the clock has passed firma_v2_desde
    universe        \* every block that exists anywhere, by hash

disk == <<chain_file, mempool_file>>
env == <<activated, universe>>
vars == <<running, tree, disk, mempool, seen_tx, job, mined, env>>

----------------------------------------------------------------------------
(* The ledger (rami-core/state.rs).                                        *)

Ledger == [nonces : [Accounts -> Nat], taken : SUBSET Items]
EmptyLedger == [nonces |-> [a \in Accounts |-> 0], taken |-> {}]

\* apply_tx: the nonce is consumed before the checks that may still fail.
ApplyTx(st, tx) ==
    LET spent == [st EXCEPT !.nonces[tx.from] = @ + 1]
    IN IF tx.nonce # st.nonces[tx.from] THEN [ok |-> FALSE, state |-> st]
       ELSE IF tx.buys \in st.taken THEN [ok |-> FALSE, state |-> spent]
       ELSE [ok |-> TRUE, state |-> [spent EXCEPT !.taken = @ \cup ({tx.buys} \ {NoItem})]]

\* apply_tx_sin_rastro: a rejection puts the signer's account back.
ApplyTxSinRastro(st, tx) ==
    LET result == ApplyTx(st, tx)
    IN IF result.ok THEN result
       ELSE [result EXCEPT !.state.nonces[tx.from] = st.nonces[tx.from]]

\* apply_block_con: all the transactions, in order, or none.
ApplyNext(acc, tx) == IF acc.ok THEN ApplyTx(acc.state, tx) ELSE acc
ApplyTxs(st, txs) ==
    LET after[i \in 0..Len(txs)] ==
            IF i = 0 THEN [ok |-> TRUE, state |-> st] ELSE ApplyNext(after[i - 1], txs[i])
    IN after[Len(txs)]

\* The ledger after the pending transactions that apply, tried in order.
TryAll(st, pending) ==
    LET sim[i \in 0..Len(pending)] ==
            IF i = 0 THEN st ELSE ApplyTxSinRastro(sim[i - 1], pending[i]).state
    IN sim[Len(pending)]

----------------------------------------------------------------------------
(* The tree, from outside.                                                 *)

RuleOn(t, parent, late) == t[parent].v2 \/ late

Admits(t, b) ==
    /\ b.hash \notin DOMAIN t
    /\ b.prev \in DOMAIN t
    /\ b.height = t[b.prev].block.height + 1
    /\ \A i \in DOMAIN b.txs : b.txs[i].v2 = RuleOn(t, b.prev, b.late)
    /\ ApplyTxs(t[b.prev].after, b.txs).ok

Inserted(t, b) ==
    [h \in DOMAIN t \cup {b.hash} |->
        IF h = b.hash
        THEN [block |-> b, v2 |-> RuleOn(t, b.prev, b.late),
              after |-> ApplyTxs(t[b.prev].after, b.txs).state]
        ELSE t[h]]

NewTree == [h \in {GENESIS} |-> [block |-> Genesis, v2 |-> FALSE, after |-> EmptyLedger]]
EmptyTree == [h \in {} |-> None]

HeadOf(t) == CHOOSE h \in DOMAIN t : \A g \in DOMAIN t :
    \/ t[g].block.height < t[h].block.height
    \/ t[g].block.height = t[h].block.height /\ h <= g
HeadState(t) == t[HeadOf(t)].after

\* The rule a transaction needs now: firma_ctx over the head.
RuleNow(t, clock) == RuleOn(t, HeadOf(t), clock)

----------------------------------------------------------------------------
(* Files of one record per line (store.rs).  whole: the last line ends in  *)
(* a newline; when it does not, the next write continues that line.        *)

EmptyFile == [lines |-> <<>>, whole |-> TRUE]

AppendTo(file, record) ==
    [lines |-> IF file.whole THEN Append(file.lines, record)
               ELSE [file.lines EXCEPT ![Len(file.lines)] = JUNK],
     whole |-> TRUE]

\* What an interrupted write leaves: nothing of the record, part of it, or
\* all but its newline.
Interrupted(file, record) ==
    {file} \cup
    {[lines |-> IF file.whole THEN Append(file.lines, text)
                ELSE [file.lines EXCEPT ![Len(file.lines)] = JUNK],
      whole |-> FALSE] : text \in IF "tear" \in Faults THEN {JUNK, record} ELSE {}}

\* append_block, append_mempool: the file and the Result.
WriteResults(file, record) ==
    {[file |-> AppendTo(file, record), ok |-> TRUE]}
    \cup (IF "fail" \in Faults
          THEN {[file |-> f, ok |-> FALSE] : f \in Interrupted(file, record)} ELSE {})

\* persist_mempool: clear_mempool, then append_mempool of each, results
\* ignored.
PersistResults(file, pending) ==
    LET cleared == {EmptyFile} \cup (IF "fail" \in Faults THEN {file} ELSE {})
        written[i \in 0..Len(pending)] ==
            IF i = 0 THEN cleared
            ELSE {r.file : r \in UNION {WriteResults(f, pending[i]) : f \in written[i - 1]}}
    IN {f \in written[Len(pending)] : Len(f.lines) <= MaxLines}

\* Defect: bad lines are skipped wherever they are, as load_mempool does.
LoadsSkipping(file) == \E i \in DOMAIN file.lines : file.lines[i] # JUNK

\* load_blocks succeeds and finds a genesis: a bad line may only be the last.
Loads(file) ==
    /\ \A i \in DOMAIN file.lines : file.lines[i] = JUNK => i = Len(file.lines)
    /\ \E i \in DOMAIN file.lines : file.lines[i] # JUNK

\* load_tree, from the genesis in the first line on: a block that is not
\* admitted again is skipped.
Readmit(t, line) == IF line # JUNK /\ Admits(t, line) THEN Inserted(t, line) ELSE t
LoadTree(file) ==
    LET loaded[i \in 0..Len(file.lines)] ==
            IF i <= 1 THEN NewTree ELSE Readmit(loaded[i - 1], file.lines[i])
    IN loaded[Len(file.lines)]

\* load_mempool: the lines that parse.
LoadMempool(file) == Kept(file.lines, Txs)

----------------------------------------------------------------------------
(* The candidate block.                                                    *)

\* build_candidate: pending transactions of the rule in force that apply
\* one after the other, up to the block's capacity with the coinbase.
Take(acc, tx, rule) ==
    LET result == ApplyTxSinRastro(acc.sim, tx)
    IN IF Len(acc.txs) + 1 < MAX_BLOCK_TXS /\ tx.v2 = rule
       THEN [sim |-> result.state,
             txs |-> IF result.ok THEN Append(acc.txs, tx) ELSE acc.txs]
       ELSE acc
Filled(st, pending, rule) ==
    LET filled[i \in 0..Len(pending)] ==
            IF i = 0 THEN [sim |-> st, txs |-> <<>>]
            ELSE Take(filled[i - 1], pending[i], rule)
    IN filled[Len(pending)]
BuildCandidate(t, pending, clock) ==
    LET head == HeadOf(t)
    IN [prev |-> head, height |-> t[head].block.height + 1,
        txs |-> Filled(t[head].after, pending, RuleOn(t, head, clock)).txs,
        late |-> clock]

\* The block a job becomes when the miner finds its nonce.
BlockOfJob(candidate, h) ==
    [hash |-> h, prev |-> candidate.prev, height |-> candidate.height,
     txs |-> candidate.txs, late |-> candidate.late]

\* refresh_candidate, the last step of the handlers that change the head or
\* the mempool.
RefreshCandidate == job' = BuildCandidate(tree', mempool', activated)

----------------------------------------------------------------------------
(* Start and stop.                                                         *)

Init ==
    /\ running = FALSE
    /\ tree = EmptyTree /\ mempool = <<>> /\ seen_tx = {}
    /\ job = None /\ mined = None
    /\ chain_file = None /\ mempool_file = EmptyFile
    /\ activated = FALSE
    /\ universe = [h \in {GENESIS} |-> Genesis]

\* spawn, first time: ChainDir::init writes the genesis.
InitChain ==
    /\ ~running /\ chain_file = None
    /\ \/ chain_file' = AppendTo(EmptyFile, Genesis)
       \/ Faults \cap {"crash", "fail"} # {} /\ chain_file' \in Interrupted(EmptyFile, Genesis)
    /\ UNCHANGED <<running, tree, mempool_file, mempool, seen_tx, job, mined, env>>

\* spawn: load_tree, load_mempool and the first candidate.
Boot ==
    /\ ~running /\ chain_file # None /\ Loads(chain_file)
    /\ running' = TRUE
    /\ tree' = LoadTree(chain_file)
    /\ mempool' = LoadMempool(mempool_file)
    /\ seen_tx' = ToSet(mempool')
    /\ RefreshCandidate
    /\ UNCHANGED <<disk, mined, env>>

\* Everything in memory is gone.
Stop ==
    /\ running' = FALSE
    /\ tree' = EmptyTree /\ mempool' = <<>> /\ seen_tx' = {}
    /\ job' = None /\ mined' = None

----------------------------------------------------------------------------
(* Blocks.                                                                 *)

\* What accept_block leaves in the mempool: nothing the block includes and
\* no nonce already spent on the head's branch (podar_nonces_gastados).
Purged(t, pending, b) ==
    Kept(pending, {tx \in Txs \ ToSet(b.txs) : tx.nonce >= HeadState(t).nonces[tx.from]})

\* Defect: the block is written first, and inserted only if that succeeds.
AppendAndInsert(b, ok) ==
    /\ Admits(tree, b)
    /\ Len(chain_file.lines) < MaxLines
    /\ tree' = IF ok THEN Inserted(tree, b) ELSE tree
    /\ \E write \in WriteResults(chain_file, b) :
          write.ok = ok /\ chain_file' = write.file

\* accept_block up to append_block, whose result is ok.
InsertAndAppend(b, ok) ==
    /\ Admits(tree, b)
    /\ Len(chain_file.lines) < MaxLines
    /\ tree' = Inserted(tree, b)
    /\ \E write \in WriteResults(chain_file, b) :
          write.ok = ok /\ chain_file' = write.file

\* accept_block that returns Ok(true).
AcceptBlock(b) ==
    /\ InsertAndAppend(b, TRUE)
    /\ mempool' = Purged(tree', mempool, b)
    /\ mempool_file' \in PersistResults(mempool_file, mempool')

\* accept_block whose append_block fails: the block stays in the tree.
AcceptUnsaved(b) ==
    /\ InsertAndAppend(b, FALSE)
    /\ UNCHANGED <<mempool, mempool_file>>

\* Blocks a peer can send: any that exists, or a new one on any that exists.
FromPeers ==
    {universe[h] : h \in DOMAIN universe} \cup
    {[hash |-> h, prev |-> p, height |-> universe[p].height + 1, txs |-> body, late |-> l] :
        h \in Hashes \ DOMAIN universe, p \in DOMAIN universe, body \in PeerBodies,
        l \in {FALSE, TRUE}}

Exists(b) ==
    universe' = [h \in DOMAIN universe \cup {b.hash} |->
                    IF h = b.hash THEN b ELSE universe[h]]

\* Defect: the candidate is not refreshed.
NewBlockSinCandidato(b) ==
    /\ running
    /\ AcceptBlock(b) /\ Exists(b)
    /\ UNCHANGED <<running, seen_tx, job, mined, activated>>

\* Frame::NewBlock, and each block of a Frame::Branch.
NewBlock(b) ==
    /\ running
    /\ AcceptBlock(b) /\ Exists(b)
    /\ RefreshCandidate
    /\ UNCHANGED <<running, seen_tx, mined, activated>>

\* The same with a failed append: the job is left as it was.
NewBlockUnsaved(b) ==
    /\ running
    /\ AcceptUnsaved(b) /\ Exists(b)
    /\ UNCHANGED <<running, seen_tx, job, mined, activated>>

\* The miner thread meets the target of the job it sees and sends the block.
MinerFinds ==
    /\ running /\ job # None /\ mined = None
    /\ \E h \in Hashes :
          /\ h \in DOMAIN universe => universe[h] = BlockOfJob(job, h)
          /\ mined' = BlockOfJob(job, h)
          /\ Exists(mined')
    /\ UNCHANGED <<running, tree, disk, mempool, seen_tx, job, activated>>

\* on_mined.
OnMined ==
    /\ running /\ mined # None
    /\ \/ AcceptBlock(mined)
       \/ AcceptUnsaved(mined)
       \/ ~Admits(tree, mined) /\ UNCHANGED <<tree, disk, mempool>>
    /\ mined' = None
    /\ RefreshCandidate
    /\ UNCHANGED <<running, seen_tx, env>>

----------------------------------------------------------------------------
(* Transactions and the clock.                                             *)

\* accept_tx up to the caps: the rule of now, and not seen before.
Considers(tx) ==
    /\ tx.v2 = RuleNow(tree, activated)
    /\ tx \notin seen_tx
    /\ Len(mempool) < MEMPOOL_MAX
    /\ Len(SelectSeq(mempool, LAMBDA t : t.from = tx.from)) < MEMPOOL_MAX_PER_SIGNER

SeenUnderCap == IF Cardinality(seen_tx) >= SEEN_TX_CAP THEN {} ELSE seen_tx

AppliesAfterPending(tx) ==
    ApplyTxSinRastro(TryAll(HeadState(tree), mempool), tx).ok

AcceptTx(tx) ==
    /\ running /\ Considers(tx) /\ AppliesAfterPending(tx)
    /\ mempool' = Append(mempool, tx)
    /\ seen_tx' = SeenUnderCap \cup {tx}
    /\ Len(mempool_file.lines) < MaxLines
    /\ \E write \in WriteResults(mempool_file, tx) : mempool_file' = write.file
    /\ job' = BuildCandidate(tree, mempool', activated)
    /\ UNCHANGED <<running, tree, chain_file, mined, env>>

\* A transaction that does not apply; the cap was enforced before finding out.
RejectTx(tx) ==
    /\ running /\ Considers(tx) /\ ~AppliesAfterPending(tx)
    /\ seen_tx' = SeenUnderCap
    /\ UNCHANGED <<running, tree, disk, mempool, job, mined, env>>

\* on_tick: podar_mempool_por_regla, and a new timestamp for the candidate
\* when it is 30 s old.
Tick ==
    LET valid == Kept(mempool, {tx \in Txs : tx.v2})
        stale == RuleNow(tree, activated) /\ valid # mempool
    IN /\ running
       /\ mempool' = IF stale THEN valid ELSE mempool
       /\ IF stale THEN mempool_file' \in PersistResults(mempool_file, valid)
                   ELSE UNCHANGED mempool_file
       /\ \/ job' = BuildCandidate(tree, mempool', activated)
          \/ ~stale /\ UNCHANGED job
       /\ UNCHANGED <<running, tree, chain_file, seen_tx, mined, env>>

\* Time passes firma_v2_desde.
PassActivation ==
    /\ ~activated /\ activated' = TRUE
    /\ UNCHANGED <<running, tree, disk, mempool, seen_tx, job, mined, universe>>

----------------------------------------------------------------------------
(* Crashes.                                                                *)

\* The process dies between two messages.
Crash ==
    /\ "crash" \in Faults /\ running
    /\ Stop
    /\ UNCHANGED <<disk, env>>

\* It dies inside accept_block: while it appends the block, or after it with
\* mempool.jsonl as it was, cleared, or rewritten in part.
CrashAccepting(b) ==
    /\ "crash" \in Faults /\ running
    /\ Admits(tree, b) /\ Len(chain_file.lines) < MaxLines
    /\ \/ chain_file' \in Interrupted(chain_file, b) /\ UNCHANGED mempool_file
       \/ LET left == Purged(Inserted(tree, b), mempool, b)
          IN /\ chain_file' = AppendTo(chain_file, b)
             /\ mempool_file' \in {mempool_file} \cup
                    {[lines |-> SubSeq(left, 1, n), whole |-> TRUE] : n \in 0..Len(left)}
    /\ Stop /\ Exists(b)
    /\ UNCHANGED activated

----------------------------------------------------------------------------

Next ==
    \/ InitChain \/ Boot \/ Crash
    \/ MinerFinds \/ OnMined \/ Tick \/ PassActivation
    \/ \E b \in FromPeers : NewBlock(b) \/ NewBlockUnsaved(b)
    \/ \E b \in FromPeers \cup ({mined} \ {None}) : CrashAccepting(b)
    \/ \E tx \in Txs : AcceptTx(tx) \/ RejectTx(tx)

Spec == Init /\ [][Next]_vars

----------------------------------------------------------------------------
(* Properties.                                                             *)

\* The state and the files are well formed.
TypeOK ==
    /\ running \in BOOLEAN /\ activated \in BOOLEAN
    /\ \A h \in DOMAIN tree : /\ tree[h].block \in Block /\ tree[h].v2 \in BOOLEAN
                              /\ tree[h].after \in Ledger
    /\ mempool \in Seq(Txs) /\ seen_tx \subseteq Txs
    /\ chain_file # None => chain_file.lines \in Seq(Block \cup {JUNK})
    /\ mempool_file.lines \in Seq(Txs \cup {JUNK})
    /\ mined # None => mined \in Block
    /\ \A h \in DOMAIN universe : universe[h] \in Block

\* The job is a block the node itself would admit.
JobIsAdmissible ==
    running =>
        /\ job.prev \in DOMAIN tree
        /\ job.height = tree[job.prev].block.height + 1
        /\ \A i \in DOMAIN job.txs : job.txs[i].v2 = RuleOn(tree, job.prev, job.late)
        /\ ApplyTxs(tree[job.prev].after, job.txs).ok
        /\ Len(job.txs) < MAX_BLOCK_TXS

\* The job is on the head, with a body that would be chosen again now unless
\* the clock alone changed it.
JobFollowsHead ==
    running => /\ job.prev = HeadOf(tree)
               /\ job.txs = BuildCandidate(tree, mempool, job.late).txs

\* Between two messages the miner works on the head, on a block the node would
\* admit whatever was rejected while it was built and whatever happened since:
\* "a transaction that passes never invalidates the block mined" (apply_tx,
\* refresh_candidate).
JobIsSound == JobIsAdmissible /\ JobFollowsHead

\* Whatever was torn, lost or appended twice, what a restart recovers is part
\* of the tree in memory, block by block with the same rule and ledger.
RestartNeverInvents ==
    running /\ Loads(chain_file) =>
        LET loaded == LoadTree(chain_file)
        IN \A h \in DOMAIN loaded : h \in DOMAIN tree /\ loaded[h] = tree[h]

\* No admitted transaction vanishes without a trace: it is pending, or some
\* branch has spent its nonce, or the rule it was signed under is over.
TxNeverVanishes ==
    \A tx \in seen_tx :
        \/ tx \in ToSet(mempool)
        \/ \E h \in DOMAIN tree : tree[h].after.nonces[tx.from] > tx.nonce
        \/ ~tx.v2 /\ (activated \/ \E h \in DOMAIN tree : tree[h].v2)

\* Whatever write failed, was torn or was cut by a crash, nothing is invented by
\* a restart and nothing the node admitted is lost while it runs.
FaultsAreContained == RestartNeverInvents /\ TxNeverVanishes

\* Once chain.jsonl holds the genesis, a power cut "a mitad de escritura" never
\* keeps the node from starting again: "ahora el arranque se recupera solo"
\* (README.md:444; the test truncated_tail_recovers of store.rs).
StartsAgain ==
    chain_file # None =>
        (chain_file.lines # <<>> /\ Head(chain_file.lines) # JUNK => Loads(chain_file))

\* What a crash can cost, its write torn or not (accept_block, append_block,
\* load_blocks).  A file without a bad line loads and gives back the whole tree,
\* side branches included.  While a torn line is the last one, the file still
\* loads and gives back the tree but for two blocks at most: the one whose
\* newline was missing and the one append_block wrote on the same line after
\* the restart.  (The append after that one makes it an interior line, which
\* load_blocks refuses: the node does not keep StartsAgain.)
CrashCostsOnlyTheTail ==
    running =>
        LET loaded == LoadTree(chain_file)
        IN /\ JUNK \notin ToSet(chain_file.lines) => Loads(chain_file) /\ loaded = tree
           /\ Loads(chain_file) =>
                 /\ \A h \in DOMAIN loaded : h \in DOMAIN tree /\ loaded[h] = tree[h]
                 /\ \E a, b \in DOMAIN tree : DOMAIN tree \ DOMAIN loaded \subseteq {a, b}
==========================================================================
