\* Writes fail whole or stop half-way, with and without a crash.
SPECIFICATION Spec
CONSTANTS
    alice = alice
    bob = bob
    house = house
    NoItem = NoItem
    JUNK = JUNK
    None = None
    Hashes = {1, 2, 3}
    GENESIS = 2
    Accounts = {alice, bob}
    Items = {house}
    Txs <- MCOneTx
    PeerBodies <- MCPeerBodies
    MAX_BLOCK_TXS = 3
    MEMPOOL_MAX = 3
    MEMPOOL_MAX_PER_SIGNER = 2
    SEEN_TX_CAP = 3
    Faults = {"crash", "fail", "tear"}
    MaxLines = 4
INVARIANT FaultsAreContained
CHECK_DEADLOCK FALSE
