--------------------------- MODULE ShoppingScreens ---------------------------
(***************************************************************************)
(* The buttons of the shopping screens of the web client.                  *)
(***************************************************************************)
EXTENDS TaskScreens

\* What the row may offer for a status and a way of buying.
getShoppingItemActions(s) ==
    LET open == s.status \in {"wanted", "assigned"}
    IN  [canAssign   |-> open,
         canUnassign |-> s.status = "assigned",
         canOrder    |-> open /\ s.method # "store",
         canPurchase |-> open /\ s.method # "online",
         canArrive   |-> s.status = "ordered",
         canCancel   |-> open \/ s.status = "ordered"]

\* Every command of the row goes under its endpoint and the revision shown:
\* two choices of one select share a key.
stable(endpoint, shown, action, arg) ==
    Attempted(<<endpoint, shown.rev>>, endpoint, Body(action, arg, shown.rev, None))

\* The main button offers an undo, the same entry of the menu does not.
primaryAction(shown) ==
    LET s == shown.state
        can == getShoppingItemActions(s)
        record(endpoint, status) == {[stable(endpoint, shown, None, None) EXCEPT !.undo = status]}
    IN  IF can.canOrder /\ s.method = "online" THEN record("order-shopping-item", "ordered")
        ELSE IF can.canPurchase THEN record("purchase-shopping-item", "purchased")
        ELSE IF can.canArrive THEN record("arrive-shopping-item", "arrived")
        ELSE {}

ownership(shown, me) ==
    LET s == shown.state
        can == getShoppingItemActions(s)
        assign(to) == stable("assign-shopping-item", shown, "assign", to)
    IN  When(can.canAssign, {assign(User), assign(Partner)})
        \union When(can.canUnassign, {assign("unassigned")})
        \union When(can.canAssign /\ s.assignment # "anyone", {assign("anyone")})
        \union When(s.assignment = "anyone" /\ s.status = "wanted",
                    {stable("claim-shopping-item", shown,
                            CASE s.claim = Nobody -> "claim"
                              [] s.claim = me -> "release"
                              [] OTHER -> "takeover", None)})

menu(shown) ==
    LET can == getShoppingItemActions(shown.state)
        plain(endpoint) == stable(endpoint, shown, None, None)
    IN  When(can.canOrder, {plain("order-shopping-item")})
        \union When(can.canPurchase, {plain("purchase-shopping-item")})
        \union When(can.canCancel, {plain("cancel-shopping-item")})
        \union When(shown.state.status \in {"ordered", "purchased", "arrived"},
                    {plain("reopen-shopping-item")})

\* Ticked items are bought one by one under keys of their own.
purchaseSelected(shown) ==
    When(getShoppingItemActions(shown.state).canPurchase,
         {[Attempted(<<"batch-purchase", shown.rev>>, "purchase-shopping-item",
                     Body(None, None, shown.rev, None)) EXCEPT !.undo = "purchased"]})

\* The page of the anyone items lists them whatever their status.
changeOwner(shown, me) ==
    LET action == CASE shown.state.claim = Nobody -> "claim"
                    [] shown.state.claim = me -> "release"
                    [] OTHER -> "takeover"
    IN  When(shown.state.assignment = "anyone" /\ shown.state.status \in {"wanted", "ordered"},
             {Attempted(<<"claim", action, shown.rev>>, "claim-shopping-item",
                        Body(action, None, shown.rev, None))})

\* The quick line keys an addition by its title, the form keys all of them alike.
QuickAddShopping ==
    {Attempted(<<"shopping:quick-add", x>>, "add-shopping-item", Body("add", None, 0, x)) : x \in Text}

AddShoppingItemForm ==
    {Attempted(<<"shopping:add">>, "add-shopping-item", Body("add", None, 0, x)) : x \in Text}

\* The undo reads the list again and reopens the item at the revision it finds,
\* if the item still has the status this tap gave it.
useShoppingUndo(item, recorded) ==
    When(item.state.status = recorded,
         {Attempted(<<"undo", recorded, item.rev>>, "reopen-shopping-item",
                    Body(None, None, item.rev, "undo"))})

=============================================================================
