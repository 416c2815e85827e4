--------------------------- MODULE MatchingEngine ---------------------------
(***************************************************************************)
(* The matching engine thread: matching/matching.cpp, class MatchingEngine,*)
(* on the two books of header/lob_struct.h.                                *)
(*                                                                         *)
(* One request is handled at a time.  pc says where in the handler the     *)
(* thread is; the steps between two touches of shared queues, or between   *)
(* two iterations of a loop, are actions of their own.  The queue to the   *)
(* gateway and the broadcast queue are kept with their history, because    *)
(* the properties are about what their readers can reconstruct.            *)
(***************************************************************************)
EXTENDS Integers, Sequences, FiniteSets

CONSTANTS
  MaxPrice,     \* max_price_ticks: levels of each book
  MaxOrders,    \* ids the look-up tables can index (LUT_SIZE)
  Prices,       \* prices a request may carry
  PriceIndex,   \* Prices -> Nat: static_cast<size_t>(price * 10)
  Quantities,   \* quantities a request may carry
  Traders,      \* trade_ids a request may carry; 1 is the sniper
  Requests,     \* the requests that arrive, without their system id
  MaxRequests,  \* bound of the model: requests read
  MaxGap,       \* bound of the model: ids the gateway gave to requests that found no
                \* room, between two that did
  AckSlots,     \* messages the lobAck queue holds: its size less one
  FeedSlots,    \* messages the broadcast queue holds: its size less one
  None          \* no request in hand

Ids == 0 .. MaxOrders - 1
Levels == 0 .. MaxPrice - 1

Request ==
  [price : Prices, quantity : Quantities, trade_id : Traders,
   order_type : {"b", "s"}, req_type : {"c", "u", "d"}]

LOBOrder ==
  [system_id : Ids, price : Prices, quantity : Nat, trade_id : Traders,
   order_type : {"b", "s"}, req_type : {"c", "u", "d"}]

(* An order as a book keeps it, and a change of it that is announced. *)
Entry == [system_id : Ids, price : Prices, quantity : Nat, trade_id : Traders]

Kinds == {"N", "U", "D", "T"}    \* new, updated, deleted, traded

Change == [type : Kinds, entry : Entry]

ASSUME MatchingEngineAssumption ==
  /\ MaxPrice \in Nat \ {0}
  /\ MaxOrders \in Nat
  /\ PriceIndex \in [Prices -> Nat]
  /\ Quantities \subseteq Nat
  /\ Requests \subseteq Request
  /\ AckSlots \in Nat /\ FeedSlots \in Nat /\ MaxRequests \in Nat /\ MaxGap \in Nat
  /\ None \notin LOBOrder \cup Change

VARIABLES
  buy_best_price, buy_book, buy_LUT, buy_active_counts,      \* BuyOrderBook
  sell_best_price, sell_book, sell_LUT, sell_active_counts,  \* SellOrderBook
  pc,         \* where the thread is in readOrder; "undefined" after an access
              \* outside a vector
  order,      \* the request in the slot of LobOrderQueue, changed in place
  cursor,     \* <<level, column>> of the for loop of aggresiveMatch
  pending,    \* the change that waits for room in the broadcast queue
  acks,       \* lobAck: sent so far, number read, and ids with a lost ack
  feed,       \* the broadcast queue: what was published
  nextId,     \* the id after the youngest that was read
  reads       \* requests read so far

buyVars  == <<buy_best_price, buy_book, buy_LUT, buy_active_counts>>
sellVars == <<sell_best_price, sell_book, sell_LUT, sell_active_counts>>
books    == <<buyVars, sellVars>>
outVars  == <<acks, feed>>
envVars  == <<nextId, reads>>
vars     == <<books, pc, order, cursor, pending, outVars, envVars>>

Buy == INSTANCE OrderBook WITH
  isBuy <- TRUE, MaxEntries <- MaxRequests,
  best_price <- buy_best_price, book <- buy_book,
  LUT <- buy_LUT, active_counts <- buy_active_counts

Sell == INSTANCE OrderBook WITH
  isBuy <- FALSE, MaxEntries <- MaxRequests,
  best_price <- sell_best_price, book <- sell_book,
  LUT <- sell_LUT, active_counts <- sell_active_counts

NoSlot == Buy!NoSlot

Init ==
  /\ Buy!BookInit /\ Sell!BookInit
  /\ pc = "idle" /\ order = None /\ cursor = NoSlot /\ pending = None
  /\ acks = [sent |-> <<>>, read |-> 0, lost |-> {}]
  /\ feed = <<>>
  /\ nextId = 0 /\ reads = 0

-----------------------------------------------------------------------------
(* The books as the request in hand sees them. *)

IsBuy(o) == o.order_type = "b"

(* An operation on one book leaves the other alone. *)
OnBook(onBuy, buyOp, sellOp) ==
  \/ onBuy /\ buyOp /\ UNCHANGED sellVars
  \/ ~ onBuy /\ sellOp /\ UNCHANGED buyVars

RestsInOwnBook(o) ==
  IF IsBuy(o) THEN Buy!Resting(o.system_id) ELSE Sell!Resting(o.system_id)

OwnEntry(o) ==
  IF IsBuy(o) THEN Buy!PeekOrder(o.system_id) ELSE Sell!PeekOrder(o.system_id)

OppositeBest(o) == IF IsBuy(o) THEN sell_best_price ELSE buy_best_price

OppositeLevel(o, p) == IF IsBuy(o) THEN sell_book[p] ELSE buy_book[p]

EntryOf(o) ==
  [system_id |-> o.system_id, price |-> o.price,
   quantity |-> o.quantity, trade_id |-> o.trade_id]

-----------------------------------------------------------------------------
(* Messages out. *)

(* Only the sniper's orders are acknowledged.  When the queue is full the  *)
(* thread yields once and tries again; then the acknowledgement is dropped.*)
Ack(q, e, price, status, n) ==
  IF e.trade_id # 1 THEN q
  ELSE IF Len(q.sent) - q.read < AckSlots
  THEN [q EXCEPT !.sent = Append(@, [system_id |-> e.system_id, price |-> price,
                                     quantity |-> n, status |-> status])]
  ELSE [q EXCEPT !.lost = @ \cup {e.system_id}]

(* changeInQuantity waits until the broadcast queue has room. *)
Announce(kind, e) == pending' = [type |-> kind, entry |-> e] /\ pc' = "publish"

Publish ==
  /\ pc = "publish"
  /\ Len(feed) < FeedSlots
  /\ LET e == pending.entry IN
       /\ feed' = Append(feed, [system_id |-> e.system_id, price |-> e.price,
                                quantity |-> e.quantity, type |-> pending.type])
       /\ acks' = Ack(acks, e, PriceIndex[e.price], pending.type, e.quantity)
  /\ pending' = None
  /\ pc' = IF pending.type = "D" /\ order.req_type = "u" THEN "match" ELSE "finish"
  /\ UNCHANGED <<books, order, cursor, envVars>>

-----------------------------------------------------------------------------
(* readOrder: take the request at the head of the queue, dispatch on its   *)
(* type, and release the slot when the handler returns.  A request of any  *)
(* other type would only be released; no client sends one.                 *)

Handler == [c |-> "match", u |-> "update", d |-> "delete"]

ReadOrder(req) ==
  /\ pc = "idle"
  /\ order' = req
  /\ pc' = Handler[req.req_type]
  /\ UNCHANGED <<books, cursor, pending, outVars>>

(* The queue is empty: readOrder returns at once. *)
PollEmpty == pc = "idle" /\ UNCHANGED vars

Finish ==
  /\ pc = "finish"
  /\ order' = None
  /\ pc' = "idle"
  /\ UNCHANGED <<books, cursor, pending, outVars, envVars>>

-----------------------------------------------------------------------------
(* aggresiveMatch. *)

CrossesStrictly(o) ==            \* mutant: an equal price does not trade
  IF IsBuy(o) THEN PriceIndex[o.price] > sell_best_price
              ELSE PriceIndex[o.price] < buy_best_price

Crosses(o) ==
  IF IsBuy(o) THEN PriceIndex[o.price] >= sell_best_price
              ELSE PriceIndex[o.price] <= buy_best_price

NoLevel(o) == OppositeBest(o) >= MaxPrice \/ OppositeLevel(o, OppositeBest(o)) = <<>>

MayTrade(o) == o.quantity > 0 /\ Crosses(o) /\ ~ NoLevel(o)

StopMatching ==
  /\ pc = "match"
  /\ ~ MayTrade(order)
  /\ pc' = IF order.quantity > 0 THEN "rest" ELSE "finish"
  /\ UNCHANGED <<books, order, cursor, pending, outVars, envVars>>

EnterLevel ==
  /\ pc = "match"
  /\ MayTrade(order)
  /\ cursor' = <<OppositeBest(order), 1>>
  /\ pc' = "scan"
  /\ UNCHANGED <<books, order, pending, outVars, envVars>>

LevelInHand == OppositeLevel(order, cursor[1])

LiveAhead == {c \in cursor[2] .. Len(LevelInHand) : LevelInHand[c].quantity # 0}

(* mutant: the loop trades with any entry it has not passed *)
NextLiveAny(c) == c \in LiveAhead

NextLive(c) == c \in LiveAhead /\ \A d \in LiveAhead : c <= d

(* The first entry that is not empty trades.  The incoming order's owner   *)
(* is told first; the price told is the level the loop entered with.       *)
TradeNext ==
  /\ pc = "scan"
  /\ \E c \in LiveAhead :
       /\ NextLive(c)
       /\ LET ord  == LevelInHand[c]
              trade == IF ord.quantity < order.quantity THEN ord.quantity ELSE order.quantity
              slot == <<cursor[1], c>>
          IN  /\ order' = [order EXCEPT !.quantity = @ - trade]
              /\ OnBook(~ IsBuy(order), Buy!TakeQuantity(slot, trade),
                                        Sell!TakeQuantity(slot, trade))
              /\ acks' = Ack(acks, order, cursor[1], "T", trade)
              /\ pending' = [type |-> "T", entry |-> [ord EXCEPT !.quantity = trade]]
              /\ cursor' = slot
  /\ pc' = "told"
  /\ UNCHANGED <<feed, envVars>>

TellRestingBalance ==            \* mutant: told what is left, not what traded
  /\ pc = "told"
  /\ acks' = Ack(acks, pending.entry, cursor[1], "T",
                 OppositeLevel(order, cursor[1])[cursor[2]].quantity)
  /\ pending' = None
  /\ pc' = "settle"
  /\ UNCHANGED <<books, order, cursor, feed, envVars>>

(* Then the owner of the entry; the gateway may have read in between. *)
TellResting ==
  /\ pc = "told"
  /\ acks' = Ack(acks, pending.entry, cursor[1], "T", pending.entry.quantity)
  /\ pending' = None
  /\ pc' = "settle"
  /\ UNCHANGED <<books, order, cursor, feed, envVars>>

LeaveLevel ==
  /\ pc = "scan"
  /\ LiveAhead = {}
  /\ cursor' = NoSlot
  /\ pc' = "match"
  /\ UNCHANGED <<books, order, pending, outVars, envVars>>

Filled == LevelInHand[cursor[2]]

(* A filled entry leaves the book; a filled order leaves both loops. *)
Settle ==
  /\ pc = "settle"
  /\ \/ /\ Filled.quantity = 0
        /\ OnBook(~ IsBuy(order), Buy!DeleteOrder(Filled.system_id),
                                  Sell!DeleteOrder(Filled.system_id))
     \/ /\ Filled.quantity # 0
        /\ UNCHANGED books
  /\ \/ /\ order.quantity = 0
        /\ pc' = "match" /\ cursor' = NoSlot
     \/ /\ order.quantity # 0
        /\ pc' = "scan" /\ cursor' = <<cursor[1], cursor[2] + 1>>
  /\ UNCHANGED <<order, pending, outVars, envVars>>

(* create_order, after the matching: what is left rests and is announced.  *)
RestOrder ==
  /\ pc = "rest"
  /\ OnBook(IsBuy(order), Buy!CreateOrder(EntryOf(order)), Sell!CreateOrder(EntryOf(order)))
  /\ Announce("N", EntryOf(order))
  /\ UNCHANGED <<order, cursor, outVars, envVars>>

-----------------------------------------------------------------------------
(* updateOrder. *)

UpdateIgnored ==
  /\ pc = "update"
  /\ \/ ~ RestsInOwnBook(order)
     \/ /\ RestsInOwnBook(order)
        /\ OwnEntry(order).price = order.price
        /\ OwnEntry(order).quantity = order.quantity
  /\ pc' = "finish"
  /\ UNCHANGED <<books, order, cursor, pending, outVars, envVars>>

(* A new price is a deletion followed by a creation.  deleteOrder is given *)
(* the entry itself, which the book has already emptied.                   *)
UpdatePrice ==
  /\ pc = "update"
  /\ RestsInOwnBook(order)
  /\ OwnEntry(order).price # order.price
  /\ OnBook(IsBuy(order), Buy!DeleteOrder(order.system_id), Sell!DeleteOrder(order.system_id))
  /\ Announce("D", [OwnEntry(order) EXCEPT !.quantity = 0])
  /\ UNCHANGED <<order, cursor, outVars, envVars>>

UpdateQuantityTellsOld ==        \* mutant: the quantity before the update is told
  /\ pc = "update"
  /\ RestsInOwnBook(order)
  /\ OwnEntry(order).price = order.price
  /\ OwnEntry(order).quantity # order.quantity
  /\ OnBook(IsBuy(order), Buy!UpdateOrderQuantity(EntryOf(order)),
                          Sell!UpdateOrderQuantity(EntryOf(order)))
  /\ Announce("U", OwnEntry(order))
  /\ UNCHANGED <<order, cursor, outVars, envVars>>

UpdateQuantity ==
  /\ pc = "update"
  /\ RestsInOwnBook(order)
  /\ OwnEntry(order).price = order.price
  /\ OwnEntry(order).quantity # order.quantity
  /\ OnBook(IsBuy(order), Buy!UpdateOrderQuantity(EntryOf(order)),
                          Sell!UpdateOrderQuantity(EntryOf(order)))
  /\ Announce("U", EntryOf(order))
  /\ UNCHANGED <<order, cursor, outVars, envVars>>

(* deleteOrder of a request: what is announced is the request's own price  *)
(* and quantity.                                                           *)
DeleteResting ==
  /\ pc = "delete"
  /\ RestsInOwnBook(order)
  /\ OnBook(IsBuy(order), Buy!DeleteOrder(order.system_id), Sell!DeleteOrder(order.system_id))
  /\ Announce("D", EntryOf(order))
  /\ UNCHANGED <<order, cursor, outVars, envVars>>

(* The accesses that no check guards: book[-1][-1] when the order to be    *)
(* deleted does not rest, and book[price_index] above the last level.      *)
OutOfBounds ==
  \/ pc = "delete" /\ ~ RestsInOwnBook(order)
  \/ pc = "rest" /\ PriceIndex[order.price] \notin Levels

Undefined ==
  /\ OutOfBounds
  /\ pc' = "undefined"
  /\ UNCHANGED <<books, order, cursor, pending, outVars, envVars>>

-----------------------------------------------------------------------------
(* The thread, and what surrounds it. *)

Engine ==
  \/ StopMatching \/ EnterLevel \/ TradeNext \/ TellResting \/ LeaveLevel \/ Settle \/ RestOrder
  \/ UpdateIgnored \/ UpdatePrice \/ UpdateQuantity \/ DeleteResting
  \/ Publish \/ Finish \/ Undefined

(* The gateway hands over a request.  A creation has a new system id, the  *)
(* next one unless the gateway has dropped requests in between; an update  *)
(* or a deletion may name any id handed out, or a new one, which is what   *)
(* the gateway's AssignSystemId gives every request.  A participant names  *)
(* only its own orders.                                                    *)
Arrival ==
  /\ reads < MaxRequests
  /\ \E r \in Requests, id \in Ids :
       LET req == [system_id |-> id, price |-> r.price, quantity |-> r.quantity,
                   trade_id |-> r.trade_id, order_type |-> r.order_type,
                   req_type |-> r.req_type]
       IN  /\ id <= nextId + MaxGap
           /\ r.req_type = "c" => id >= nextId
           /\ RestsInOwnBook(req) => OwnEntry(req).trade_id = r.trade_id
           /\ ReadOrder(req)
           /\ nextId' = IF id >= nextId THEN id + 1 ELSE nextId
  /\ reads' = reads + 1

(* The gateway takes the acknowledgement at the head of its queue. *)
TakeAck ==
  /\ acks.read < Len(acks.sent)
  /\ acks' = [acks EXCEPT !.read = @ + 1]
  /\ UNCHANGED <<books, pc, order, cursor, pending, feed, envVars>>

(* After an undefined access the model promises nothing and stops. *)
Stopped == pc = "undefined" /\ UNCHANGED vars

Next == Engine \/ Arrival \/ TakeAck \/ PollEmpty \/ Stopped

Spec == Init /\ [][Next]_vars

FairSpec == Spec /\ WF_vars(Engine)

-----------------------------------------------------------------------------
(* What the engine implements. *)

LiveOrders ==
  {[system_id |-> id, side |-> "b", tick |-> buy_LUT[id][1],
    quantity |-> Buy!RestingQuantity(id), rank |-> buy_LUT[id][2]] :
      id \in {i \in Ids : Buy!RestingQuantity(i) > 0}}
  \cup
  {[system_id |-> id, side |-> "s", tick |-> sell_LUT[id][1],
    quantity |-> Sell!RestingQuantity(id), rank |-> sell_LUT[id][2]] :
      id \in {i \in Ids : Sell!RestingQuantity(i) > 0}}

(* An order that cannot be stored, its price being above the last level,   *)
(* stays incoming for ever.                                                *)
BeingMatched ==
  IF \/ pc \in {"match", "scan", "told", "settle", "rest"}
     \/ pc = "undefined" /\ order.req_type # "d"
  THEN [system_id |-> order.system_id, side |-> order.order_type,
        tick |-> PriceIndex[order.price], quantity |-> order.quantity]
  ELSE None

PriceTime == INSTANCE PriceTimeMatching WITH
  Ticks <- {PriceIndex[p] : p \in Prices}, Sizes <- Quantities,
  Ranks <- 1 .. 2 * MaxRequests,
  resting <- LiveOrders, incoming <- BeingMatched

-----------------------------------------------------------------------------
(* Properties. *)

(* The handler: the thread has a request, a change to publish and a place  *)
(* in a level exactly where its code has them.                             *)
HandlerTypeOK ==
  /\ pc \in {"idle", "match", "scan", "told", "settle", "rest", "update", "delete",
            "publish", "finish", "undefined"}
  /\ order \in LOBOrder \cup {None}
  /\ (order = None) = (pc = "idle")
  /\ pending \in Change \cup {None}
  /\ (pending # None) = (pc \in {"told", "publish"})
  /\ cursor \in (Levels \X (Nat \ {0})) \cup {NoSlot}
  /\ (cursor # NoSlot) = (pc \in {"scan", "told", "settle"})

(* The queues out, which never hold more than they have room for.          *)
QueuesTypeOK ==
  /\ acks \in [sent : Seq([system_id : Ids, price : Nat, quantity : Nat, status : Kinds]),
               read : Nat, lost : SUBSET Ids]
  /\ Len(acks.sent) - acks.read \in 0 .. AckSlots
  /\ feed \in Seq([system_id : Ids, price : Prices, quantity : Nat, type : Kinds])
  /\ Len(feed) <= FeedSlots
  /\ nextId \in 0 .. MaxOrders /\ reads \in 0 .. MaxRequests

(* Every variable has its type. *)
EngineTypeOK == Buy!BookTypeOK /\ Sell!BookTypeOK /\ HandlerTypeOK /\ QueuesTypeOK

(* Both books stay consistent through every interleaving of matching,      *)
(* amendment and deletion: each slot leads to its own order and each count *)
(* is the number of orders the table places in the level.                  *)
BooksConsistent ==
  /\ Buy!IndexConsistent /\ Buy!CountsMatchLUT
  /\ Sell!IndexConsistent /\ Sell!CountsMatchLUT

(* Between the moment an entry is filled and its deletion the best price   *)
(* may be stale; at every other point of the handler it is exact.          *)
BestPricesExact ==
  pc \notin {"told", "settle"} => Buy!BestPriceExact /\ Sell!BestPriceExact

(* The best bid stays below the best ask: an order rests only once it has  *)
(* taken everything it crosses.                                            *)
NotCrossed == PriceTime!NotCrossed

(* The quantity the sniper computes for an order from its acknowledgements:*)
(* N and U give the balance, T subtracts from an open balance, D closes.   *)
OpenByAcks(id) ==
  LET balance[n \in 0 .. Len(acks.sent)] ==
        IF n = 0 THEN 0
        ELSE LET m == acks.sent[n] IN
             IF m.system_id # id THEN balance[n - 1]
             ELSE CASE m.status \in {"N", "U"} -> m.quantity
                    [] m.status = "D" -> 0
                    [] m.status = "T" -> IF balance[n - 1] > 0
                                         THEN balance[n - 1] - m.quantity ELSE 0
  IN balance[Len(acks.sent)]

InBook(id) == Buy!RestingQuantity(id) + Sell!RestingQuantity(id)

OwnedBySniper(id) ==
  \/ Buy!Resting(id) /\ Buy!PeekOrder(id).trade_id = 1
  \/ Sell!Resting(id) /\ Sell!PeekOrder(id).trade_id = 1

(* Whenever the engine is idle, the acknowledgements of an order, none of  *)
(* which was dropped, add up to what rests in the book.                    *)
ClientView ==
  pc = "idle" =>
    \A id \in Ids \ acks.lost :
      IF OwnedBySniper(id) THEN OpenByAcks(id) = InBook(id) ELSE OpenByAcks(id) = 0

(* The quantity the market data gives for an order: that of the last       *)
(* message about it, if there is one and it is not a deletion.             *)
IsLastMessage(n, id) ==
  /\ feed[n].system_id = id
  /\ \A m \in DOMAIN feed : feed[m].system_id = id => m <= n

Announced(id) ==
  IF \E n \in DOMAIN feed : IsLastMessage(n, id) /\ feed[n].type # "D"
  THEN feed[CHOOSE n \in DOMAIN feed : IsLastMessage(n, id)].quantity
  ELSE 0

(* Whenever the engine is idle, the market data shows at least what rests: *)
(* no order of the book is missing from it or shown too small.             *)
FeedNeverUnderstates ==
  pc = "idle" => \A id \in Ids : InBook(id) <= Announced(id)

(* Price-time priority: the engine implements the abstract matching.       *)
PriceTimePriority == PriceTime!AbstractSpec

(* Every request is handled to its end, unless the memory access of an     *)
(* unchecked request ends the program.                                     *)
RequestsComplete == pc # "idle" ~> pc \in {"idle", "undefined"}

=============================================================================
