SPECIFICATION Spec
CONSTANTS
    a1 = a1
    a2 = a2
    j1 = j1
    j2 = j2
    t1 = t1
    t2 = t2
    k1 = k1
    k2 = k2
    memo = memo
    Links = {l1}
    Ticks = {a1, a2}
    Periods = 2
    Totals = {0, 1}
    Ends = {0, 1}
    ListingWorks = TRUE
    MaxPays = 2
    MaxNow = 1
    Refunds = {r1, r2}
    Entities = {e1}
    Operators = {a1, a2}
    RefundJobs = {j1, j2}
    Fees = {1}
    MaxSends = 2
    Txs = {t1, t2}
    NoTx = NoTx
    NoMemo = NoMemo
    PayLinks = {k1, k2}
    TxTerms <- PaidTerms
    LinkTerms <- AskedTerms
    ReadAlike <- Alike
    Precision = 1
    Matchers = {m1}
    PageSize = 2
    DbFails = TRUE
    Names = {u1}
    Traders = {j1, j2, w3}
    NoTrader = NoTrader
    Requests = {a1, a2}
    MaxListings = 2
    MaxBids = 2
    MaxPerWallet = 1
    Payments = {p1}
    Shows = {s1}
    Silents = {s2}
    Updates = {u1}
SYMMETRY Symmetry
INVARIANTS NeverEarly ConfirmedIsOnLedger AnnouncedIsSettled SoldToOneBid ReadWasSeen
PROPERTY OwnerSells
CHECK_DEADLOCK FALSE
