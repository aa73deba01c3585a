CONSTANTS
    client = client
    p1 = p1
    p2 = p2
    Market = Market
    NoAddress = NoAddress
    NoDigest = NoDigest
    Accounts <- LifecycleAccounts
    Digests <- AliasDigests
    request <- AliasRequests
    Ids <- AliasIds
    Calls <- AliasCalls
    EthMoves <- AliasEthMoves
    TokenMoves <- AliasTokenMoves
    EthSupply = 2
    TokenSupply = 2
    BlockTimes = {1}
    MaxTime = 4
    MaxDepth = 1
    MaxCommits = 1
    Uint24Max = 7
    Uint64Max = 63
    Uint96Max = 15
SPECIFICATION Spec
CHECK_DEADLOCK FALSE
INVARIANTS
    OnePaidIdPerIndex
