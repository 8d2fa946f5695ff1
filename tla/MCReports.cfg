SPECIFICATION ReportsSpec
CONSTANTS
    Accounts = {1, 2, 3, 4}
    TxnIds = {1, 2, 3, 4, 5, 6, 7, 8}
    Fact <- MCFact
    Texts = {"any"}
    Tags = {}
    Categories = {1, 2}
    Payees = {1, 2}
    RuleIds = {}
    RulesSent = {}
    Batches <- MCBatches
    LinkTypes = {"transfer", "refund"}
    FirstRows <- MCRows
    FirstCategories <- MCCategories
    FirstPayees <- MCPayees
    FirstRules <- MCNoRules
    MaxRequests = 4
    None = None
    Other = Other
    NoRules = NoRules
    Currencies = {1, 2}
    Currency <- MCCurrency
    Filters <- MCFilters
    Limit = 1
    Top = 1
    MonthLength = 2
CHECK_DEADLOCK FALSE
INVARIANTS FlowsAccounted GraphConserves ReportsAgree
