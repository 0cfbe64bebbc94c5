--------------------------- MODULE MCBlockTree ---------------------------
(***************************************************************************)
(* A small instance of BlockTree: two families of histories over one       *)
(* genesis.  Dated blocks carry transactions and straddle the activation   *)
(* dates; Racing blocks are empty and race in work and length.  A run      *)
(* explores every history of either family (OneFamily).                    *)
(***************************************************************************)
EXTENDS BlockTreeRefinement, TLC

CONSTANTS
    alice,
    MaxDated,   \* dated blocks in a history
    MaxHeight   \* of a racing block

GenesisOf(timestamp, tx) ==
    [hash |-> 2, prev |-> ZERO_HASH, height |-> 0, timestamp |-> timestamp,
     bits |-> BitsFromDifficulty(1), tx |-> tx]

\* Targets of four base-4 digits; difficulties 1, 4 and 17 are the ones the
\* retarget reaches from the floor within three blocks.
MCGenesis == GenesisOf(CHOOSE t \in Timestamps : \A u \in Timestamps : t <= u, NoTx)
MCScore == [h \in Hashes |-> h]

\* A transaction signed under each rule, one that needs housing, and one that
\* spends the second nonce.
MCTx(nonce, regla, kind) == [from |-> alice, nonce |-> nonce, regla |-> regla, kind |-> kind]
MCTxs == {MCTx(0, V1, "base"), MCTx(0, V2, "base"), MCTx(0, V2, "vivienda"),
          MCTx(1, V2, "dubai")}

SomeBits == {BitsFromDifficulty(d) : d \in {1, 2, 4, 16}}

\* On any parent (known or not), with right and wrong heights and bits.
Dated ==
    [hash : {1, 3, 4}, prev : 1..4, height : 0..MaxDated, timestamp : 1..4,
     bits : SomeBits, tx : Txs \cup {NoTx}]

\* Solved at once (1), right on the target, or a target later still: a short
\* fast branch outweighs a longer slow one.
RacingTimestamp == (1 :> 1) @@ (3 :> 1) @@ (4 :> 5) @@ (5 :> 5) @@ (6 :> 9)
Racing ==
    {b \in [hash : Hashes \ {2}, prev : Hashes, height : 1..MaxHeight,
            timestamp : Timestamps, bits : SomeBits, tx : {NoTx}] :
        b.timestamp = RacingTimestamp[b.hash]}

MCCandidates == Dated \cup Racing

\* The histories explored: of dated blocks only, or of racing blocks only.
OneFamily ==
    \E family \in {Dated, Racing} :
        \A h \in DOMAIN nodes \ {genesis} : nodes[h].block \in family

\* Block 1 never finds a nonce for the hardest bits.
MCPowOk == (Hashes \X SomeBits) \ {<<1, BitsFromDifficulty(16)>>}
==========================================================================
