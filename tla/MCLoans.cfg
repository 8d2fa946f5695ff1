SPECIFICATION LoansSpec
CONSTANTS
    LastMonth = 8
    Start <- MCStart
    RateUnit = 10
    MonthDays = 3
    Rupee = 3
    NoDate = NoDate
    bank = bank
    loanA = loanA
    loanB = loanB
    Accounts = {bank, loanA, loanB}
    FirstDay <- MCFirstDay
    FirstKind <- MCFirstKind
    Opened = {loanA, loanB}
    TxnIds = {1, 2}
    Rows <- MCRows
    Days = {}
    MaxCycles = 4
    Patches = {}
    Imports = {}
    Requests = {r1}
    Together = {}
    FirstToday = 9
    LastToday = 9
    NoDay = NoDay
    NoCycle = NoCycle
    Keep = Keep
    TermsSent <- MCTerms
    Openings <- MCOpenings
    TransferDates <- MCDates
    MaxMoved = 7
    NoLoan = NoLoan
    NoTerms = NoTerms
    NoTransfer = NoTransfer
    NoTxn = NoTxn
SYMMETRY TwoAlike
CHECK_DEADLOCK FALSE
INVARIANTS OwedIsOutstanding
PROPERTIES OneRole TransferConserves TransferReverts
