------------------------------ MODULE MCNode ------------------------------
(***************************************************************************)
(* Small instances of Node: two accounts that want the same house.         *)
(***************************************************************************)
EXTENDS Node

CONSTANTS alice, bob, house

MCTx(from, nonce, buys, v2) == [from |-> from, nonce |-> nonce, buys |-> buys, v2 |-> v2]

AliceBuys == MCTx(alice, 0, house, FALSE)
AlicePays == MCTx(alice, 1, NoItem, FALSE)
BobBuys   == MCTx(bob, 0, house, FALSE)
BobPaysV2 == MCTx(bob, 0, NoItem, TRUE)

MCTxs == {AliceBuys, AlicePays, BobBuys, BobPaysV2}

\* A smaller set for the run with torn writes.
MCOneTx == {BobBuys}

\* Peers mine empty blocks and blocks with one purchase.
MCPeerBodies == {<<>>, <<BobBuys>>}

\* The histories explored when writes can be torn: those whose chain.jsonl
\* holds whole records, and among the others those where the node knows of one
\* transaction at most.
BusyOrTorn ==
    chain_file # None /\ (~chain_file.whole \/ JUNK \in ToSet(chain_file.lines))
        => Cardinality(seen_tx) + Len(mempool_file.lines) <= 1
==========================================================================
