\* One tree under both stresses.  Dated blocks: the housing date comes before
\* Dubai's, so that both orders of the two are met.  Racing blocks: a retarget
\* window of one block, so that a short fast branch outweighs a longer slow one.
SPECIFICATION Spec
CONSTRAINT OneFamily
CONSTANTS
    alice = alice
    NoTx = NoTx
    ByteBase = 4
    TargetBytes = 4
    LWMA_N = 1
    TARGET_SPACING = 4
    Hashes = {1, 2, 3, 4, 5, 6}
    GenesisBlock <- MCGenesis
    Candidates <- MCCandidates
    Timestamps = {1, 2, 3, 4, 5, 9}
    MaxDated = 3
    MaxHeight = 5
    MinDifficulty = 1
    FirmaV2Desde = 2
    DubaiDesde = 4
    ViviendaDesde = 3
    Accounts = {alice}
    Txs <- MCTxs
    PowOk <- MCPowOk
    Converged = {1, 4, 5}
    Score <- MCScore
INVARIANT BranchesReplay HeadIsHeaviest
PROPERTY ImplementsUniverse
CHECK_DEADLOCK FALSE
