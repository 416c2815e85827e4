--------------------------- MODULE MCTradeEngine ---------------------------
(* Model-checking values for TradeEngine. *)
EXTENDS TradeEngine

Order(id, side, price, quantity) ==
  [order_id |-> id, trader_id |-> 1, order_type |-> side, req_type |-> "c",
   price |-> price, quantity |-> quantity]

(* A sell, a buy that trades with it and leaves something, and a sell that *)
(* takes the rest: its id and its quantity are those of a word, and one.   *)
CrossingOrders == <<Order(1, "s", 1, 2), Order(2, "b", 2, 3), Order(8, "s", 1, 9)>>

SamePriceIndex == [p \in Prices |-> p]

=============================================================================
