CONSTANTS
    alice = alice
    bob = bob
    carol = carol
    code1 = code1
    pauseDeposits = pauseDeposits
    NoAccount = NoAccount
    NoCode = NoCode
    NoVersion = NoVersion
    NoChange = NoChange
    DeployedCode = code0
    Account <- MCAccount
    Deployers <- MCDeployers
    Callers = {}
    PauseFlag = {pauseDeposits}
    Code <- MCCode
    Versions = {0}
    Windows <- MCWindows
    MaxTime = 2
    Charters <- MCCharters
    Actions <- MCActions
    Nonces = {1}
    Deadlines = {1, 2}
    MaxExpiry = 2
    MaxSigners = 2
    PlaceholderDecodes = TRUE
SPECIFICATION GovSpec
INVARIANTS ApprovalsExact NonceOpensOne
PROPERTIES ImplementsCouncil AdminMovesByBallot
CHECK_DEADLOCK FALSE
