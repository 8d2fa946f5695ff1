\* Any two requests in progress together.
SPECIFICATION Spec
CONSTANTS
    Series = {s1}
    Ids = {i1, i2, i3}
    a1 = a1
    a2 = a2
    Accounts = {a1, a2}
    Amounts = {1}
    Horizon = 3
    Today = 1
    Ranges <- MCRanges
    Lists <- MCLists
    Values <- MCValues
    Requests = {r1, r2}
    NoSeries = NoSeries
    NoAccount = NoAccount
    Omitted = Omitted
SYMMETRY Symmetric
INVARIANTS TwoViewsAgree
PROPERTIES NoNewOverlap KeepsARange ChangeFromEff
