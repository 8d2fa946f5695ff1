------------------------------ MODULE MCReports ------------------------------
(* Reports on four accounts in two currencies, a debit and a credit on each.  *)
EXTENDS Reports

Says(ac, ty, n, d) == [account |-> ac, type |-> ty, amount |-> n, day |-> d, text |-> "any"]
MCFact == 1 :> Says(1, "debit", 2, 1) @@ 2 :> Says(1, "credit", 1, 2)
          @@ 3 :> Says(2, "debit", 3, 1) @@ 4 :> Says(2, "credit", 2, 4)
          @@ 5 :> Says(3, "debit", 1, 2) @@ 6 :> Says(3, "credit", 3, 3)
          @@ 7 :> Says(4, "debit", 2, 3) @@ 8 :> Says(4, "credit", 2, 4)
MCCurrency == <<1, 2, 1, 1>>

Row(c, p) == [category |-> c, payee |-> p, tags |-> {}]
MCRows == <<Row(1, 1), Row(1, None), Row(2, 2), Row(None, None),
            Row(2, 1), Row(2, None), Row(None, 2), Row(1, 2)>>

MCCategories == 1 :> "other" @@ 2 :> "Transfer"
MCPayees == 1 :> None @@ 2 :> 2

L(ty, f, t) == [type |-> ty, from |-> f, to |-> t]
MCBatches == {<<L("transfer", 1, 4)>>, <<L("refund", 3, 2)>>, <<L("refund", 3, 6), L("refund", 5, 2)>>,
              <<L("refund", 6, 1), L("refund", 5, 6)>>, <<L("refund", 1, 8), L("refund", 7, 6)>>,
              <<L("refund", 5, 8)>>, <<L("transfer", 7, 4)>>}

MCNoRules == <<>>

Anything == [from |-> None, to |-> None, account |-> None, currency |-> None]
MCFilters == {Anything, [Anything EXCEPT !.from = 2], [Anything EXCEPT !.to = 2, !.account = 1],
              [Anything EXCEPT !.currency = 1], [Anything EXCEPT !.account = 2, !.currency = 1]}
=============================================================================
