CONSTANTS
    client = client
    p1 = p1
    p2 = p2
    Market = Market
    NoAddress = NoAddress
    NoDigest = NoDigest
    Accounts <- CallbackAccounts
    Digests <- SlashDigests
    request <- SlashRequests
    Ids <- TwoIds
    Calls <- SlashCalls
    EthMoves <- CallbackEthMoves
    TokenMoves <- SlashTokenMoves
    EthSupply = 2
    TokenSupply = 3
    BlockTimes = {1}
    MaxTime = 2
    MaxDepth = 1
    MaxCommits = 1
    Uint24Max = 7
    Uint64Max = 63
    Uint96Max = 15
SPECIFICATION Spec
CHECK_DEADLOCK FALSE
INVARIANTS
    EscrowMatchesLock
    TokensSolvent
