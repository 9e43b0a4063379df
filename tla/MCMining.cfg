SPECIFICATION BothSpec
CONSTANTS
    alice = alice
    bob = bob
    Miners = {alice, bob}
    MinerList <- MCMinerList
    Participants <- MCParticipants
    None = None
    First = 0
    Stranger = Stranger
    Malformed = Malformed
    SignersRequired = 2
    Blocks = {1, 2, 3}
    Parent <- ChainParent
    Height <- ChainHeight
    Root = 1
    Outcomes = {"accepted", "refused", "lost"}
    MaxTenures = 2
    Ops <- MCOps
    MaxRestarts = 0
    Txs = {1, 2, 3, 4, 5}
    Accounts = {"a", "b"}
    Estimable = {2}
    MayFail = {4}
    MaxAge = 1
    MaxChaining = 0
    MaxSubmits = 3
    Budget = 100
    MaxSize = 4
    Coinbase = 1
    Heuristic = 20
    MaxBlocks = 3
PROPERTIES
    WinnersSpread
    BlockFinished
    MinableTried
    LeavesForReason
CHECK_DEADLOCK FALSE
