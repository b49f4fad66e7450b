CONSTANTS
    alice = alice
    bob = bob
    xlm = xlm
    salt = salt
    Contract = contract
    NoAddress = NoAddress
    NoOracle = NoOracle
    NoQuote = NoQuote
    Address <- MCAddress
    Token <- MCToken
    Salt <- MCSalt
    Timeouts <- MCTimeouts
    Councils <- MCCouncils
    Wallets <- MCWallets
    Recipients <- MCRecipients
    MaxAmount = 2
    U64Max = 3
    DefaultDisputeTimeout = 2
    PlaceholderDecodes = TRUE
    MaxEscrows = 1
SPECIFICATION FairSpec
INVARIANTS TypeOK
PROPERTIES Lifecycle TimeLocked OneEscrowPays ImplementsVault DeadlineReleases
CHECK_DEADLOCK FALSE
