------------------------------ MODULE MCOrders -------------------------------
(* The three stories of MCBilling, one to a behaviour.  In the first two the *)
(* buyer pays the price, at most once; in the third any amounts, up to twice *)
(* the price in all.                                                         *)
EXTENDS MCBilling

VARIABLE story

OrdersInit == Init /\ story \in {"checkout", "payment", "transfers"}
PaysThePrice == \A o \in Orders : links'[o].count <= 1 /\ links'[o].received \in {0, Price}
PaysAtMostTwice == \A o \in Orders : links'[o].received <= 2 * Price
OrdersNext ==
  /\ UNCHANGED story
  /\ \/ story = "checkout" /\ CheckoutNext /\ PaysThePrice
     \/ story = "payment" /\ PaymentNext /\ PaysThePrice
     \/ story = "transfers" /\ TransferNext /\ PaysAtMostTwice

OrdersSpec == OrdersInit /\ [][OrdersNext]_<<billingVars, story>>
=============================================================================
