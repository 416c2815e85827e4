--------------------------- MODULE PriceTimeProofs ---------------------------
(***************************************************************************)
(* Theorems about the abstract matching: it is well typed, and no two of   *)
(* its resting orders cross.  The engine is checked to implement it.       *)
(***************************************************************************)
EXTENDS PriceTimeMatching, TLAPS

(* A step of the abstract matching keeps the types of both variables.      *)
LEMMA AbstractTypeStep ==
  ASSUME Ticks \subseteq Nat, Sizes \subseteq Nat,
         AbstractTypeOK, [AbstractNext]_abstractVars
  PROVE  AbstractTypeOK'
<1> USE DEF AbstractTypeOK, RestingOrder, IncomingOrder, Sides
<1>1. CASE Arrive
  <2>1. PICK id \in Ids, s \in Sides, t \in Ticks, n \in Sizes :
          incoming' = [system_id |-> id, side |-> s, tick |-> t, quantity |-> n]
    BY <1>1 DEF Arrive
  <2> QED BY <1>1, <2>1 DEF Arrive
<1>2. CASE Trade
  <2>1. PICK r \in Crossed(incoming) :
          LET n == IF r.quantity < incoming.quantity THEN r.quantity ELSE incoming.quantity
          IN  /\ incoming' = [incoming EXCEPT !.quantity = @ - n]
              /\ resting' = Without(r.system_id) \cup
                   IF n = r.quantity THEN {} ELSE {[r EXCEPT !.quantity = @ - n]}
    BY <1>2 DEF Trade
  <2>2. r \in RestingOrder /\ incoming \in IncomingOrder
    BY <1>2 DEF Trade, Crossed
  <2>3. incoming' \in IncomingOrder
    BY <2>1, <2>2
  <2>4. resting' \subseteq RestingOrder
    BY <1>2, <2>1, <2>2 DEF Without, Trade
  <2> QED BY <2>3, <2>4
<1>3. CASE Done
  BY <1>3 DEF Done
<1>4. CASE Rest
  <2>1. PICK k \in Ranks : resting' = resting \cup
          {[system_id |-> incoming.system_id, side |-> incoming.side,
            tick |-> incoming.tick, quantity |-> incoming.quantity, rank |-> k]}
    BY <1>4 DEF Rest
  <2>2. incoming \in IncomingOrder /\ incoming.quantity \in Nat \ {0}
    BY <1>4 DEF Rest
  <2>3. [system_id |-> incoming.system_id, side |-> incoming.side, tick |-> incoming.tick,
         quantity |-> incoming.quantity, rank |-> k] \in RestingOrder
    BY <2>2
  <2> QED BY <1>4, <2>1, <2>3 DEF Rest
<1>5. ASSUME NEW r \in resting, AmendDown(r)
      PROVE  AbstractTypeOK'
  <2>1. PICK n \in Sizes \ {0} :
          resting' = Without(r.system_id) \cup {[r EXCEPT !.quantity = n]}
    BY <1>5 DEF AmendDown
  <2> QED BY <1>5, <2>1 DEF AmendDown, Without
<1>6. ASSUME NEW r \in resting, AmendUp(r)
      PROVE  AbstractTypeOK'
  <2>1. PICK n \in Sizes, k \in Ranks :
          /\ n > r.quantity
          /\ resting' = Without(r.system_id) \cup {[r EXCEPT !.quantity = n, !.rank = k]}
    BY <1>6 DEF AmendUp
  <2>2. r \in RestingOrder /\ n \in Nat \ {0}
    BY <2>1
  <2>3. [r EXCEPT !.quantity = n, !.rank = k] \in RestingOrder
    BY <2>2
  <2> QED BY <1>6, <2>1, <2>3 DEF AmendUp, Without
<1>7. ASSUME NEW r \in resting, Cancel(r)
      PROVE  AbstractTypeOK'
  BY <1>7 DEF Cancel, Without
<1>8. CASE UNCHANGED abstractVars
  BY <1>8 DEF abstractVars
<1> QED BY <1>1, <1>2, <1>3, <1>4, <1>5, <1>6, <1>7, <1>8 DEF AbstractNext

(* NotCrossed is kept when every order of the new book has the side and    *)
(* the price of one of the old book: so trades, amendments and deletions.  *)
LEMMA SamePricesNotCrossed ==
  ASSUME NotCrossed,
         \A r \in resting' : \E s \in resting : s.side = r.side /\ s.tick = r.tick
  PROVE  NotCrossed'
BY DEF NotCrossed

(* A step of the abstract matching keeps the resting orders uncrossed: the *)
(* only new price is that of an incoming order that crosses nothing.       *)
LEMMA NotCrossedStep ==
  ASSUME Ticks \subseteq Nat, AbstractTypeOK, NotCrossed, [AbstractNext]_abstractVars
  PROVE  NotCrossed'
<1> USE DEF AbstractTypeOK, RestingOrder, IncomingOrder, Sides
<1>1. CASE Arrive \/ Done \/ UNCHANGED abstractVars
  BY <1>1 DEF Arrive, Done, abstractVars, NotCrossed
<1>2. CASE Trade
  <2>1. PICK r \in Crossed(incoming) :
          \E n : resting' = Without(r.system_id) \cup
                   IF n = r.quantity THEN {} ELSE {[r EXCEPT !.quantity = @ - n]}
    BY <1>2 DEF Trade
  <2>2. r \in resting
    BY DEF Crossed
  <2> QED BY <2>1, <2>2, SamePricesNotCrossed DEF Without
<1>3. CASE Rest
  <2>1. PICK k \in Ranks : resting' = resting \cup
          {[system_id |-> incoming.system_id, side |-> incoming.side,
            tick |-> incoming.tick, quantity |-> incoming.quantity, rank |-> k]}
    BY <1>3 DEF Rest
  <2>2. incoming \in IncomingOrder /\ Crossed(incoming) = {}
    BY <1>3 DEF Rest
  <2>3. ASSUME NEW r \in resting, r.side # incoming.side
        PROVE  IF incoming.side = "b" THEN incoming.tick < r.tick
                                      ELSE incoming.tick > r.tick
    <3>1. r \notin Crossed(incoming) /\ r.tick \in Nat /\ incoming.tick \in Nat
      BY <2>2
    <3> QED BY <2>3, <3>1 DEF Crossed
  <2> QED BY <2>1, <2>2, <2>3 DEF NotCrossed
<1>4. ASSUME NEW r \in resting, AmendDown(r) \/ AmendUp(r) \/ Cancel(r)
      PROVE  NotCrossed'
  BY <1>4, SamePricesNotCrossed DEF AmendDown, AmendUp, Cancel, Without
<1> QED BY <1>1, <1>2, <1>3, <1>4 DEF AbstractNext

(* The abstract matching never holds two resting orders that cross, in any *)
(* state, whatever the orders, prices and quantities.                      *)
THEOREM AbstractNotCrossed ==
  ASSUME Ticks \subseteq Nat, Sizes \subseteq Nat
  PROVE  AbstractSpec => [](AbstractTypeOK /\ NotCrossed)
<1>1. AbstractInit => AbstractTypeOK /\ NotCrossed
  BY DEF AbstractInit, AbstractTypeOK, NotCrossed
<1>2. AbstractTypeOK /\ NotCrossed /\ [AbstractNext]_abstractVars
        => AbstractTypeOK' /\ NotCrossed'
  BY AbstractTypeStep, NotCrossedStep
<1> QED BY <1>1, <1>2, PTL DEF AbstractSpec

=============================================================================
