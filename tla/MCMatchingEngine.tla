-------------------------- MODULE MCMatchingEngine --------------------------
(* Model-checking values for MatchingEngine.  Prices are counted in half   *)
(* ticks, so that two prices fall into one level.                          *)
EXTENDS MatchingEngine

MCPriceIndex == [p \in Prices |-> p \div 2]

(* Everything the type allows.  The price and quantity of a deletion are   *)
(* only copied into messages: one of each is enough.                       *)
MixedTraffic ==
  {r \in Request : r.req_type = "d" =>
     /\ \A p \in Prices : r.price <= p
     /\ \A q \in Quantities : r.quantity <= q}

(* What the program's own client sends: creations only. *)
CreatesOnly == {r \in Request : r.req_type = "c" /\ r.quantity > 0}

(* order_gateway_struct.h line 127: the market data has a message for a    *)
(* trade, so that its reader knows what is left of every order.            *)
FeedShowsBook ==
  pc = "idle" => \A id \in Ids : InBook(id) = Announced(id)

=============================================================================
