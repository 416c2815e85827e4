-------------------------- MODULE PriceTimeMatching --------------------------
(***************************************************************************)
(* What the matching engine promises, without its data structures: a set   *)
(* of resting orders and at most one incoming order.  The incoming order   *)
(* trades with the best-priced resting order it crosses and, at one price, *)
(* with the one of lowest rank; what is left of it rests once it crosses   *)
(* nothing.  Prices are ticks; a rank is a place in the queue of a price.  *)
(***************************************************************************)
EXTENDS Integers

CONSTANTS
  Ids,    \* the orders
  Ticks,  \* the price levels
  Sizes,  \* the quantities of incoming orders and amendments
  Ranks,  \* the places in the queue of a level
  None    \* no incoming order

Sides == {"b", "s"}

VARIABLES
  resting,  \* the orders of the book
  incoming  \* the order being matched, or None

abstractVars == <<resting, incoming>>

RestingOrder ==
  [system_id : Ids, side : Sides, tick : Ticks, quantity : Nat \ {0}, rank : Ranks]
IncomingOrder == [system_id : Ids, side : Sides, tick : Ticks, quantity : Nat]

AbstractTypeOK ==
  /\ resting \subseteq RestingOrder
  /\ incoming \in IncomingOrder \cup {None}

AbstractInit == resting = {} /\ incoming = None

-----------------------------------------------------------------------------

Crossed(o) ==
  {r \in resting : /\ r.side # o.side
                   /\ IF o.side = "b" THEN o.tick >= r.tick ELSE o.tick <= r.tick}

(* r trades before s: a better price, or the same price and an earlier rank. *)
Precedes(r, s) ==
  \/ IF r.side = "s" THEN r.tick < s.tick ELSE r.tick > s.tick
  \/ r.tick = s.tick /\ r.rank <= s.rank

Queue(side, tick) == {r \in resting : r.side = side /\ r.tick = tick}

Behind(rank, queue) == \A r \in queue : rank > r.rank

Without(id) == {r \in resting : r.system_id # id}

-----------------------------------------------------------------------------

(* An id that does not rest comes in; nothing else is being matched. *)
Arrive ==
  /\ incoming = None
  /\ \E id \in Ids, s \in Sides, t \in Ticks, n \in Sizes :
       /\ \A r \in resting : r.system_id # id
       /\ incoming' = [system_id |-> id, side |-> s, tick |-> t, quantity |-> n]
  /\ UNCHANGED resting

Trade ==
  /\ incoming # None
  /\ incoming.quantity > 0
  /\ \E r \in Crossed(incoming) :
       /\ \A s \in Crossed(incoming) : Precedes(r, s)
       /\ LET n == IF r.quantity < incoming.quantity THEN r.quantity ELSE incoming.quantity
          IN  /\ incoming' = [incoming EXCEPT !.quantity = @ - n]
              /\ resting' = Without(r.system_id) \cup
                   IF n = r.quantity THEN {} ELSE {[r EXCEPT !.quantity = @ - n]}

(* An incoming order that was filled, or that came in with nothing to buy. *)
Done ==
  /\ incoming # None
  /\ incoming.quantity = 0
  /\ incoming' = None
  /\ UNCHANGED resting

Rest ==
  /\ incoming # None
  /\ incoming.quantity > 0
  /\ Crossed(incoming) = {}
  /\ \E k \in Ranks :
       /\ Behind(k, Queue(incoming.side, incoming.tick))
       /\ resting' = resting \cup
            {[system_id |-> incoming.system_id, side |-> incoming.side,
              tick |-> incoming.tick, quantity |-> incoming.quantity, rank |-> k]}
  /\ incoming' = None

(* A smaller quantity keeps the rank. *)
AmendDown(r) ==
  /\ incoming = None
  /\ \E n \in Sizes \ {0} :
       /\ n < r.quantity
       /\ resting' = Without(r.system_id) \cup {[r EXCEPT !.quantity = n]}
  /\ UNCHANGED incoming

(* A larger quantity gives it up for one behind the orders of its price. *)
AmendUp(r) ==
  /\ incoming = None
  /\ \E n \in Sizes, k \in Ranks :
       /\ n > r.quantity
       /\ Behind(k, Queue(r.side, r.tick))
       /\ resting' = Without(r.system_id) \cup {[r EXCEPT !.quantity = n, !.rank = k]}
  /\ UNCHANGED incoming

Cancel(r) ==
  /\ incoming = None
  /\ resting' = Without(r.system_id)
  /\ UNCHANGED incoming

AbstractNext ==
  \/ Arrive \/ Trade \/ Done \/ Rest
  \/ \E r \in resting : AmendDown(r) \/ AmendUp(r) \/ Cancel(r)

AbstractSpec == AbstractInit /\ [][AbstractNext]_abstractVars

-----------------------------------------------------------------------------

(* No resting buy order meets or exceeds the price of a resting sell order,*)
(* not even while an incoming order is being matched.                      *)
NotCrossed ==
  \A b, s \in resting : b.side = "b" /\ s.side = "s" => b.tick < s.tick

=============================================================================
