SPECIFICATION MCSpec
CONSTANTS
    alice = alice
    bob = bob
    carol = carol
    Stranger = Stranger
    Malformed = Malformed
    sponsor = sponsor
    vault = vault
    n1 = n1
    b1 = b1
    b2 = b2
    Users = {alice, bob}
    Contract = Contract
    None = None
    Nfts = {n1}
    Registrable = {"simple-nft"}
    SubnetBlocks = {b1, b2}
    RootOf <- MCRootOf
    Amounts = {1}
    Endowment <- MCEndowment
    MaxHeight = 2
INVARIANT WithdrawalsDestroyAssets
CHECK_DEADLOCK FALSE
