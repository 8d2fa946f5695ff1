SPECIFICATION LedgerSpec
CONSTANTS
    LastMonth = 5
    Start <- MCStart
    card = card
    bank = bank
    Accounts = {card, bank}
    FirstDay <- MCFirstDay
    FirstKind <- MCFirstKind
    Opened = {card}
    TxnIds = {1, 2}
    Rows <- MCRows
    Days = {2, 3}
    MaxCycles = 2
    Patches <- MCPatches
    Imports <- MCImports
    Requests = {r1, r2}
    Together <- TwoSkips
    FirstToday = 9
    LastToday = 10
    NoDay = NoDay
    NoCycle = NoCycle
    Keep = Keep
SYMMETRY TwoIds
CHECK_DEADLOCK FALSE
INVARIANTS CyclesDisjoint DefaultIsByDate TotalsAreBalances PageComplete
PROPERTIES DetachedStays SkipImportsOnce
