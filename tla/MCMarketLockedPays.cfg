CONSTANTS
    client = client
    p1 = p1
    p2 = p2
    Market = Market
    NoAddress = NoAddress
    NoDigest = NoDigest
    Accounts <- LifecycleAccounts
    Digests <- TwoDigests
    request <- TwoRequests
    Ids <- OneId
    Calls <- LifecycleCalls
    EthMoves <- ClientMoves
    TokenMoves <- LockerMoves
    EthSupply = 3
    TokenSupply = 3
    BlockTimes = {1}
    MaxTime = 5
    MaxDepth = 1
    MaxCommits = 1
    Uint24Max = 7
    Uint64Max = 63
    Uint96Max = 15
SPECIFICATION Spec
CHECK_DEADLOCK FALSE
PROPERTIES
    LockedPaysOnlyLocker
