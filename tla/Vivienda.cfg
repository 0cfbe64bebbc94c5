\* Two parcels of up to two units and three accounts, of which none may have
\* more than one unit in a parcel of others: a buyer, a seller and a third
\* party with a unit between them.
CONSTANTS
    Accounts = {ana, blas, clara}
    Parcels = {p1, p2}
    Prices = {1, 2}
    Fees = {0, 1}
    PrecioParcela = 1
    MAX_UNIDADES_POR_PARCELA = 2
    MAX_UNIDADES_POR_CUENTA = 1
    InitialBalance <- MCBalance
    Coins = 1
SYMMETRY Interchangeable
SPECIFICATION Spec
INVARIANT CapHolds
PROPERTY NobodyLosesUnpaid
