SPECIFICATION Spec
CONSTANTS
    alice = alice
    dao = dao
    bob = bob
    xlm = xlm
    code1 = code1
    code2 = code2
    eph1 = eph1
    spend1 = spend1
    spend2 = spend2
    Contract = contract
    NoAddress = NoAddress
    NoOracle = NoOracle
    NoQuote = NoQuote
    Address <- MCAddress
    Token <- MCToken
    PerAssetInputs <- MCPerAsset
    BpsInputs <- MCBps
    OracleInputs <- MCOracles
    Quotes <- MCQuotes
    SaltSizes <- MCSalts
    MaxAmount = 2
    Float = 2
    MaxRotations = 1
    MaxNow = 1
    NoAccount = NoAccount
    NoCode = NoCode
    NoVersion = NoVersion
    DeployedCode = code0
    Account <- MCAccount
    Deployers <- MCAccount
    Callers <- MCAccount
    PauseFlag = {}
    Code <- MCCode
    Versions = {0, 1, 2}
    Windows <- MCWindows
    MaxTime = 3
    Wallets <- MCAccount
    Coins <- MCToken
    StealthAccount = stealth
    EphKeys <- MCEph
    SpendKeys <- MCSpend
    Purse = 3
    MaxClock = 2
    MaxU64 = 3
INVARIANTS FeeCeiling  AdminHoldsRole GateWhole StealthSolvent
PROPERTIES PayoutIsWhole CodeChangesAreGated CompletedUpgradeRuns
CHECK_DEADLOCK FALSE
