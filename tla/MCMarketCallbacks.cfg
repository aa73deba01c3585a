CONSTANTS
    client = client
    p1 = p1
    p2 = p2
    Market = Market
    NoAddress = NoAddress
    NoDigest = NoDigest
    Accounts <- CallbackAccounts
    Digests <- CallbackDigests
    request <- CallbackRequests
    Ids <- TwoIds
    Calls <- CallbackCalls
    EthMoves <- CallbackEthMoves
    TokenMoves <- CallbackTokenMoves
    EthSupply = 2
    TokenSupply = 1
    BlockTimes = {1}
    MaxTime = 2
    MaxDepth = 2
    MaxCommits = 2
    Uint24Max = 7
    Uint64Max = 63
    Uint96Max = 15
SPECIFICATION Spec
CHECK_DEADLOCK FALSE
INVARIANTS
    BindingsSurviveCallbacks
    OneRevealPerCommitment
    EthSolvent
PROPERTIES
    OpenPathIsCommitted
    PaidAtMostOnce
