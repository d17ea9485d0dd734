------------------------------ MODULE MCSimVenue ------------------------------
(***************************************************************************)
(* Small instances of SimVenue.                                            *)
(***************************************************************************)
EXTENDS SimVenue

Bid(price, qty) == [side |-> "Buy", price |-> price, qty |-> qty]
Ask(price, qty) == [side |-> "Sell", price |-> price, qty |-> qty]
Quote(t)        == [side |-> t.side, price |-> t.price, qty |-> t.qty, isPostOnly |-> TRUE]

Quotes  == {Quote(Bid(1, 2)), Quote(Bid(2, 2)), Quote(Ask(2, 2))}
Levels  == {Bid(1, 1), Bid(1, 2), Bid(2, 1)}
Wide    == {Bid(2, 1)}
Trades  == {Ask(1, 2), Ask(2, 1), Bid(2, 2)}
Wealth  == [base |-> 3, quote |-> 4]
=============================================================================
