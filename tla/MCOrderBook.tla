----------------------------- MODULE MCOrderBook -----------------------------
(* Model-checking values for OrderBook.  Prices are counted in half ticks, *)
(* so that two prices fall into one level, the way price * 10 is truncated.*)
EXTENDS OrderBook

MCPriceIndex == [p \in Prices |-> p \div 2]

=============================================================================
