------------------------------ MODULE MCCatalog ------------------------------
(* Catalog on two accounts, a debit and a credit of each other's amount and a  *)
(* debit that only rules describe, and two rules that overlap.                 *)
EXTENDS Catalog

CONSTANTS bank, card, food, transfer, shop, bankPayee, a, b

Says(ac, ty, n, d, x) == [account |-> ac, type |-> ty, amount |-> n, day |-> d, text |-> x]
MCFact == 1 :> Says(bank, "debit", 2, 1, "shop") @@ 2 :> Says(card, "credit", 2, 1, "pay")
          @@ 3 :> Says(card, "debit", 1, 2, "shop")

Row(c, p) == [category |-> c, payee |-> p, tags |-> {}]
MCRows == 1 :> Row(food, None) @@ 2 :> Row(None, shop)
MCCategories == food :> "other" @@ transfer :> "Transfer"
MCPayees == shop :> None @@ bankPayee :> bank

Anything == [texts |-> {"shop", "pay"}, category |-> food, payee |-> None, account |-> None,
             filterCategory |-> None, filterPayee |-> None, minAmount |-> None,
             maxAmount |-> None, type |-> None, dateFrom |-> None, dateTo |-> None,
             linked |-> None, tags |-> {}, priority |-> 0]
OnCard == [Anything EXCEPT !.account = card, !.category = transfer, !.payee = shop, !.tags = {a},
                           !.linked = FALSE, !.priority = 1]
MCFirstRules == 1 :> Anything @@ 2 :> OnCard
MCRulesSent == {OnCard}

L(ty, f, t) == [type |-> ty, from |-> f, to |-> t]
MCBatches == {<<L("transfer", 1, 2), L("refund", 1, 3)>>, <<L("refund", 1, 2), L("refund", 1, 2)>>}
=============================================================================
