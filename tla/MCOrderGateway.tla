--------------------------- MODULE MCOrderGateway ---------------------------
(* Model-checking values for OrderGateway: orders of the client and of the *)
(* market makers.                                                          *)
EXTENDS OrderGateway

Order(id, type, quantity) ==
  [order_id |-> id, trader_id |-> 1, order_type |-> "b", req_type |-> type,
   price |-> 1, quantity |-> quantity]

(* An id and a quantity beyond the word of an acknowledgement, a quantity  *)
(* that is nothing but such a word, and a request that names an order again.*)
WithAmendment == <<Order(5, "c", 6), Order(2, "c", 1), Order(5, "u", 4)>>

OneMakerOrder == <<[Order(2, "c", 1) EXCEPT !.trader_id = 2, !.order_type = "s"]>>

NoMakers == <<>>

(* order_gateway_struct.h line 55: every order has its one system id, so   *)
(* that an update or a deletion finds what the creation placed.            *)
OneSystemIdPerOrder ==
  \A m, n \in DOMAIN lob.sent :
    LET p == lob.sent[m].from
        q == lob.sent[n].from
    IN  p[1] = q[1] /\ Store[p[1]][p[2]].order_id = Store[q[1]][q[2]].order_id
          => lob.sent[m].system_id = lob.sent[n].system_id

=============================================================================
