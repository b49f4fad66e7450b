CONSTANTS
    alice = alice
    bob = bob
    xlm = xlm
    salt = salt
    Contract = contract
    NoAddress = NoAddress
    NoOracle = NoOracle
    NoQuote = NoQuote
    Address <- MCAddress
    Token <- MCToken
    Salt <- MCSalt
    Timeouts <- MCTimeouts
    Councils <- MCCouncils
    Wallets <- MCWallets
    Recipients <- MCRecipients
    MaxAmount = 1
    U64Max = 2
    DefaultDisputeTimeout = 2
    PlaceholderDecodes = TRUE
    MaxEscrows = 2
SPECIFICATION ClientSpec
INVARIANTS Solvent IndexExact DisputeRecordsExact ReceiptHonoured
CHECK_DEADLOCK FALSE
