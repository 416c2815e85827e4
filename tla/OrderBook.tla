------------------------------ MODULE OrderBook ------------------------------
(***************************************************************************)
(* One side of the limit order book: header/lob_struct.h,                  *)
(* limitedOrderBook<isBuy>.  The four data members that change are the     *)
(* variables; each public member function that changes them is an action.  *)
(*                                                                         *)
(* A column of a price level is numbered from 1 here and from 0 in the     *)
(* code.  A price is a member of Prices, and PriceIndex is the conversion  *)
(* static_cast<size_t>(price * 10): several prices may share an index.     *)
(* An action is enabled only when the code indexes within its vectors; the *)
(* module that calls it says what happens when it does not.                *)
(***************************************************************************)
EXTENDS Integers, Sequences, FiniteSets

CONSTANTS
  isBuy,       \* the template parameter
  MaxPrice,    \* max_price_possible, the number of price levels
  Ids,         \* the system ids, which index LUT
  Prices,      \* the prices an order may carry
  PriceIndex,  \* Prices -> Nat: the level of a price
  Quantities,  \* the quantities an order may carry
  Traders,     \* the trade_ids an order may carry
  MaxEntries   \* bound of the model: entries of one level

ASSUME OrderBookAssumption ==
  /\ isBuy \in BOOLEAN
  /\ MaxPrice \in Nat \ {0}
  /\ IsFiniteSet(Ids)
  /\ PriceIndex \in [Prices -> Nat]
  /\ Quantities \subseteq Nat

VARIABLES
  best_price,    \* level of the best price, or the sentinel of an empty side
  book,          \* level -> sequence of entries, in order of arrival
  LUT,           \* system id -> <<level, column>> of its entry, or NoSlot
  active_counts  \* level -> number of live orders

bookVars == <<best_price, book, LUT, active_counts>>

Levels == 0 .. MaxPrice - 1
NoSlot == <<-1, -1>>
Sentinel == IF isBuy THEN 0 ELSE MaxPrice

Entry == [system_id : Ids, price : Prices, quantity : Nat, trade_id : Traders]

(* Price p is more aggressive than price q on this side. *)
Better(p, q) == IF isBuy THEN p > q ELSE p < q

BookInit ==
  /\ best_price = Sentinel
  /\ book = [p \in Levels |-> <<>>]
  /\ LUT = [id \in Ids |-> NoSlot]
  /\ active_counts = [p \in Levels |-> 0]

-----------------------------------------------------------------------------
(* Lookups. *)

Resting(id) == LUT[id] # NoSlot

EntryAt(slot) == book[slot[1]][slot[2]]

(* The entry peekOrder returns a pointer to, when it is not null. *)
PeekOrder(id) == EntryAt(LUT[id])

(* The columns of level p whose entry the aggressor does not skip. *)
LiveColumns(p) == {c \in DOMAIN book[p] : book[p][c].quantity # 0}

(* The quantity the book holds for an order, zero when it does not rest. *)
RestingQuantity(id) == IF Resting(id) THEN PeekOrder(id).quantity ELSE 0

-----------------------------------------------------------------------------
(* Operations. *)

CreateOrderBestWins(o) ==        \* mutant: every new order becomes the best
  LET p == PriceIndex[o.price] IN
  /\ p \in Levels
  /\ best_price' = p
  /\ book' = [book EXCEPT ![p] = Append(@, o)]
  /\ LUT' = [LUT EXCEPT ![o.system_id] = <<p, Len(book[p]) + 1>>]
  /\ active_counts' = [active_counts EXCEPT ![p] = @ + 1]

CreateOrderColumnBefore(o) ==    \* mutant: the LUT is given the column before
  LET p == PriceIndex[o.price] IN
  /\ p \in Levels
  /\ best_price' = IF Better(p, best_price) THEN p ELSE best_price
  /\ book' = [book EXCEPT ![p] = Append(@, o)]
  /\ LUT' = [LUT EXCEPT ![o.system_id] = <<p, Len(book[p])>>]
  /\ active_counts' = [active_counts EXCEPT ![p] = @ + 1]

CreateOrder(o) ==
  LET p == PriceIndex[o.price] IN
  /\ p \in Levels
  /\ best_price' = IF Better(p, best_price) THEN p ELSE best_price
  /\ book' = [book EXCEPT ![p] = Append(@, o)]
  /\ LUT' = [LUT EXCEPT ![o.system_id] = <<p, Len(book[p]) + 1>>]
  /\ active_counts' = [active_counts EXCEPT ![p] = @ + 1]

ReduceToBack(slot, o) ==         \* mutant: a reduction also goes to the back
  /\ book' = [book EXCEPT ![slot[1]] =
                Append([@ EXCEPT ![slot[2]].quantity = 0], o)]
  /\ LUT' = [LUT EXCEPT ![o.system_id] = <<slot[1], Len(book[slot[1]]) + 1>>]

(* A smaller quantity is written in place: the order keeps its column. *)
Reduce(slot, o) ==
  /\ book' = [book EXCEPT ![slot[1]][slot[2]].quantity = o.quantity]
  /\ UNCHANGED LUT

EnlargeStaleLUT(slot, o) ==      \* mutant: the LUT keeps the old column
  /\ book' = [book EXCEPT ![slot[1]] =
                Append([@ EXCEPT ![slot[2]].quantity = 0], o)]
  /\ UNCHANGED LUT

(* A larger quantity empties the entry and queues a new one at the back.   *)
Enlarge(slot, o) ==
  /\ book' = [book EXCEPT ![slot[1]] =
                Append([@ EXCEPT ![slot[2]].quantity = 0], o)]
  /\ LUT' = [LUT EXCEPT ![o.system_id] = <<slot[1], Len(book[slot[1]]) + 1>>]

UpdateOrderQuantity(o) ==
  LET slot == LUT[o.system_id] IN
  /\ \/ /\ slot = NoSlot
        /\ UNCHANGED <<book, LUT>>
     \/ /\ slot # NoSlot
        /\ o.quantity = EntryAt(slot).quantity
        /\ UNCHANGED <<book, LUT>>
     \/ /\ slot # NoSlot
        /\ o.quantity < EntryAt(slot).quantity
        /\ Reduce(slot, o)
     \/ /\ slot # NoSlot
        /\ o.quantity > EntryAt(slot).quantity
        /\ Enlarge(slot, o)
  /\ UNCHANGED <<best_price, active_counts>>

GlidesOneLevel(counts, q) ==     \* mutant: an if in place of the while
  IF isBuy THEN q = IF best_price > 0 THEN best_price - 1 ELSE 0
           ELSE q = IF best_price < MaxPrice THEN best_price + 1 ELSE MaxPrice

(* The loop of glide_best_prize stops at q.  The sell side reads           *)
(* active_counts only below max_price_possible, the buy side never below 0.*)
Glides(counts, q) ==
  IF isBuy
  THEN /\ q <= best_price
       /\ q > 0 => counts[q] # 0
       /\ \A x \in q + 1 .. best_price : counts[x] = 0
  ELSE /\ q >= best_price
       /\ q < MaxPrice => counts[q] # 0
       /\ \A x \in best_price .. q - 1 : counts[x] = 0

DeleteOrderKeepsCount(id) ==     \* mutant: active_counts is not decremented
  /\ Resting(id)
  /\ book' = [book EXCEPT ![LUT[id][1]][LUT[id][2]].quantity = 0]
  /\ LUT' = [LUT EXCEPT ![id] = NoSlot]
  /\ UNCHANGED <<best_price, active_counts>>

(* The entry stays in its level with quantity zero; only the LUT and the   *)
(* count forget it.                                                        *)
DeleteOrder(id) ==
  LET p == LUT[id][1] IN
  /\ Resting(id)
  /\ book' = [book EXCEPT ![p][LUT[id][2]].quantity = 0]
  /\ LUT' = [LUT EXCEPT ![id] = NoSlot]
  /\ active_counts' = [active_counts EXCEPT ![p] = @ - 1]
  /\ IF active_counts'[p] = 0 /\ p = best_price
     THEN \E q \in 0 .. MaxPrice : Glides(active_counts', q) /\ best_price' = q
     ELSE UNCHANGED best_price

(* What the matching loop does to an entry through the level pointer:      *)
(* ord.quantity -= trade.                                                  *)
TakeQuantity(slot, trade) ==
  /\ book' = [book EXCEPT ![slot[1]][slot[2]].quantity = @ - trade]
  /\ UNCHANGED <<best_price, LUT, active_counts>>

-----------------------------------------------------------------------------
(* The book on its own, used the way the matching engine uses it: an id is *)
(* created only while it does not rest, an update carries the price of the *)
(* entry, a partial fill leaves something, a deletion is of a resting id.  *)

NewOrder(o) ==
  /\ ~ Resting(o.system_id)
  /\ o.quantity > 0
  /\ PriceIndex[o.price] \in Levels => Len(book[PriceIndex[o.price]]) < MaxEntries
  /\ CreateOrder(o)

Amend(o) ==
  /\ Resting(o.system_id)
  /\ o.price = PeekOrder(o.system_id).price
  /\ Len(book[PriceIndex[o.price]]) < MaxEntries
  /\ UpdateOrderQuantity(o)

PartialFill(id, trade) ==
  /\ Resting(id)
  /\ trade < PeekOrder(id).quantity
  /\ TakeQuantity(LUT[id], trade)

BookNext ==
  \/ \E id \in Ids, p \in Prices, n \in Quantities, t \in Traders :
       LET o == [system_id |-> id, price |-> p, quantity |-> n, trade_id |-> t]
       IN  NewOrder(o) \/ Amend(o)
  \/ \E id \in Ids, n \in Quantities \ {0} : PartialFill(id, n)
  \/ \E id \in Ids : DeleteOrder(id)

BookSpec == BookInit /\ [][BookNext]_bookVars

-----------------------------------------------------------------------------
(* Properties. *)

(* Every variable has its type; the signed counts are never negative. *)
BookTypeOK ==
  /\ best_price \in 0 .. MaxPrice
  /\ book \in [Levels -> Seq(Entry)]
  /\ LUT \in [Ids -> (Levels \X (Nat \ {0})) \cup {NoSlot}]
  /\ active_counts \in [Levels -> Nat]

(* The look-up table and the levels describe the same orders: a slot leads *)
(* to an entry of its own id in the level of its price, and an entry that  *)
(* still has quantity is the one its id's slot leads to.                   *)
SlotsLeadHome ==
  \A id \in Ids : Resting(id) =>
    /\ LUT[id][2] \in DOMAIN book[LUT[id][1]]
    /\ PeekOrder(id).system_id = id

EntriesInTheirLevel ==
  \A p \in Levels : \A c \in DOMAIN book[p] : PriceIndex[book[p][c].price] = p

LiveEntriesIndexed ==
  \A p \in Levels : \A c \in LiveColumns(p) : LUT[book[p][c].system_id] = <<p, c>>

IndexConsistent == SlotsLeadHome /\ EntriesInTheirLevel /\ LiveEntriesIndexed

(* active_counts[p] is the number of ids whose slot is in level p. *)
CountsMatchLUT ==
  \A p \in Levels : active_counts[p] = Cardinality({id \in Ids : LUT[id][1] = p})

(* What active_counts is for: the number of live orders of each level, the *)
(* entries a matching loop can trade with (lob_struct.h line 25).          *)
ActiveCountsLive ==
  \A p \in Levels : active_counts[p] = Cardinality(LiveColumns(p))

(* best_price is the most aggressive level with a live order, and the      *)
(* sentinel when no level has one.                                         *)
NoneBetter == \A p \in Levels : Better(p, best_price) => active_counts[p] = 0

BestIsActive ==
  best_price # Sentinel => best_price \in Levels /\ active_counts[best_price] > 0

BestPriceExact ==
  /\ \A p \in Levels : Better(p, best_price) => LiveColumns(p) = {}
  /\ best_price # Sentinel => LiveColumns(best_price) # {}

(* Queue position: no operation lets an order overtake another of its      *)
(* level, except that an order whose quantity grew goes behind the others. *)
Ahead(a, b) == LUT[a][1] = LUT[b][1] /\ LUT[a][2] < LUT[b][2]

TimePriorityKept ==
  [][\A a, b \in Ids :
       /\ Resting(a) /\ Resting(b) /\ Ahead(a, b)
       /\ Resting(a)' /\ Resting(b)'
       /\ PeekOrder(a)'.quantity <= PeekOrder(a).quantity
       => Ahead(a, b)']_bookVars

=============================================================================
