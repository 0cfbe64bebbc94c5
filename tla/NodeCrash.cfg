\* The process may die between any two steps, inside accept_block too, and in
\* the middle of a write, which leaves half a line or a line without its newline.
\* While the file is whole everything is explored; once a line is torn, the
\* histories with at most one transaction known are (BusyOrTorn).
SPECIFICATION Spec
CONSTRAINT BusyOrTorn
CONSTANTS
    alice = alice
    bob = bob
    house = house
    NoItem = NoItem
    JUNK = JUNK
    None = None
    Hashes = {1, 2, 3, 4}
    GENESIS = 2
    Accounts = {alice, bob}
    Items = {house}
    Txs <- MCTxs
    PeerBodies <- MCPeerBodies
    MAX_BLOCK_TXS = 3
    MEMPOOL_MAX = 3
    MEMPOOL_MAX_PER_SIGNER = 2
    SEEN_TX_CAP = 3
    Faults = {"crash", "tear"}
    MaxLines = 4
INVARIANTS
    JobIsSound
    CrashCostsOnlyTheTail
CHECK_DEADLOCK FALSE
