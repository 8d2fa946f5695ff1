SPECIFICATION CatalogSpec
CONSTANTS
    bank = bank
    card = card
    food = food
    transfer = transfer
    shop = shop
    bankPayee = bankPayee
    a = a
    b = b
    Accounts = {bank, card}
    TxnIds = {1, 2, 3}
    Fact <- MCFact
    Texts = {"shop", "pay"}
    Tags = {a, b}
    Categories = {food, transfer}
    Payees = {shop, bankPayee}
    RuleIds = {1, 2}
    RulesSent <- MCRulesSent
    Batches <- MCBatches
    LinkTypes = {"transfer", "refund"}
    FirstRows <- MCRows
    FirstCategories <- MCCategories
    FirstPayees <- MCPayees
    FirstRules <- MCFirstRules
    MaxRequests = 4
    None = None
    NoRules = NoRules
CHECK_DEADLOCK FALSE
INVARIANTS CatalogTypeOK
PROPERTIES FirstRuleWins EditsHaveCause
