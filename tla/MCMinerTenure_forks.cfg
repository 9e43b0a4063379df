SPECIFICATION MCSpec
CONSTANTS
    alice = alice
    bob = bob
    Miners = {alice, bob}
    MinerList <- MCMinerList
    Participants <- MCParticipants
    None = None
    First = 0
    Stranger = Stranger
    Malformed = Malformed
    SignersRequired = 2
    Blocks = {1, 2, 3, 4}
    Parent <- ForkParent
    Height <- ForkHeight
    Root = 1
    Outcomes = {"accepted"}
    MaxTenures = 2
    Ops <- MCOps
    MaxRestarts = 1
INVARIANTS SignaturesCoverTarget ForksNotMixed MinerAndFollowersAgree DepositsOnceInOrder WinnerKeepsBlock
PROPERTY LiveCommitsKept
SYMMETRY MCSymmetry
CHECK_DEADLOCK FALSE
