------------------------ MODULE MatchingEngineProofs ------------------------
(***************************************************************************)
(* Theorems about the matching engine, for every number of levels, ids,    *)
(* prices, quantities, requests and places in its queues.                  *)
(*                                                                         *)
(* What is known of one book comes from OrderBookProofs, instantiated for  *)
(* each side.  The first section restates it for a side s, "b" or "s" as   *)
(* in a request, so that what follows needs no copy for buys and for sells.*)
(***************************************************************************)
EXTENDS MatchingEngine, FiniteSetTheorems, TLAPS

BuyBook == INSTANCE OrderBookProofs WITH
  isBuy <- TRUE, MaxEntries <- MaxRequests,
  best_price <- buy_best_price, book <- buy_book,
  LUT <- buy_LUT, active_counts <- buy_active_counts

SellBook == INSTANCE OrderBookProofs WITH
  isBuy <- FALSE, MaxEntries <- MaxRequests,
  best_price <- sell_best_price, book <- sell_book,
  LUT <- sell_LUT, active_counts <- sell_active_counts

Sides == {"b", "s"}
Other(s) == IF s = "b" THEN "s" ELSE "b"

Slot(s, i) == IF s = "b" THEN buy_LUT[i] ELSE sell_LUT[i]
Level(s, p) == IF s = "b" THEN buy_book[p] ELSE sell_book[p]
Best(s) == IF s = "b" THEN buy_best_price ELSE sell_best_price
Rests(s, i) == Slot(s, i) # NoSlot
Peek(s, i) == Level(s, Slot(s, i)[1])[Slot(s, i)[2]]
BookOK(s) == IF s = "b" THEN BuyBook!BookInv ELSE SellBook!BookInv

SameBook(s) == IF s = "b" THEN UNCHANGED buyVars ELSE UNCHANGED sellVars
SameSlot(s, i) == Slot(s, i)' = Slot(s, i) /\ (Rests(s, i) => Peek(s, i)' = Peek(s, i))

(* The constants of both books are as OrderBook assumes.                   *)
LEMMA BookConstants ==
  /\ TRUE \in BOOLEAN /\ FALSE \in BOOLEAN
  /\ MaxPrice \in Nat \ {0}
  /\ IsFiniteSet(Ids)
  /\ PriceIndex \in [Prices -> Nat]
  /\ Quantities \subseteq Nat
BY MatchingEngineAssumption, FS_Interval DEF Ids

(* Where the slot of an order that rests on side s leads.                  *)
LEMMA SlotLeads ==
  ASSUME NEW s \in Sides, BookOK(s), NEW i \in Ids, Rests(s, i)
  PROVE  /\ Slot(s, i) = <<Slot(s, i)[1], Slot(s, i)[2]>>
         /\ Slot(s, i)[1] \in Levels /\ Slot(s, i)[2] \in Nat \ {0}
         /\ Slot(s, i)[2] \in DOMAIN Level(s, Slot(s, i)[1])
         /\ Slot(s, i)[2] <= Len(Level(s, Slot(s, i)[1]))
         /\ Peek(s, i) \in Entry
         /\ Peek(s, i).system_id = i
         /\ PriceIndex[Peek(s, i).price] = Slot(s, i)[1]
<1>1. CASE s = "b"
  <2>1. BuyBook!OrderBookAssumption
    BY Zenon, BookConstants DEF BuyBook!OrderBookAssumption, BuyBook!IsFiniteSet, IsFiniteSet
  <2>2. BuyBook!BookShape /\ BuyBook!IndexConsistent /\ BuyBook!Resting(i)
    BY Zenon, <1>1 DEF BookOK, BuyBook!BookInv, Rests, Slot, NoSlot, Buy!NoSlot,
      BuyBook!Resting, BuyBook!NoSlot
  <2>3. /\ buy_LUT[i] = <<buy_LUT[i][1], buy_LUT[i][2]>>
        /\ buy_LUT[i][1] \in BuyBook!Levels /\ buy_LUT[i][2] \in Nat \ {0}
        /\ buy_LUT[i][2] \in DOMAIN buy_book[buy_LUT[i][1]]
        /\ buy_LUT[i][2] <= Len(buy_book[buy_LUT[i][1]])
        /\ BuyBook!PeekOrder(i) = buy_book[buy_LUT[i][1]][buy_LUT[i][2]]
        /\ BuyBook!PeekOrder(i) \in BuyBook!Entry
        /\ BuyBook!PeekOrder(i).system_id = i
        /\ PriceIndex[BuyBook!PeekOrder(i).price] = buy_LUT[i][1]
    BY Zenon, <2>1, <2>2, BuyBook!SlotOfResting
  <2>4. /\ Slot(s, i) = buy_LUT[i]
        /\ Level(s, buy_LUT[i][1]) = buy_book[buy_LUT[i][1]]
        /\ Peek(s, i) = BuyBook!PeekOrder(i)
    BY Zenon, <1>1, <2>3 DEF Slot, Level, Peek
  <2> QED BY ONLY Zenon, <2>3, <2>4 DEF BuyBook!Levels, Levels, BuyBook!Entry, Entry
<1>2. CASE s = "s"
  <2>1. SellBook!OrderBookAssumption
    BY Zenon, BookConstants DEF SellBook!OrderBookAssumption, SellBook!IsFiniteSet, IsFiniteSet
  <2>2. SellBook!BookShape /\ SellBook!IndexConsistent /\ SellBook!Resting(i)
    BY Zenon, <1>2 DEF BookOK, SellBook!BookInv, Rests, Slot, NoSlot, Buy!NoSlot,
      SellBook!Resting, SellBook!NoSlot
  <2>3. /\ sell_LUT[i] = <<sell_LUT[i][1], sell_LUT[i][2]>>
        /\ sell_LUT[i][1] \in SellBook!Levels /\ sell_LUT[i][2] \in Nat \ {0}
        /\ sell_LUT[i][2] \in DOMAIN sell_book[sell_LUT[i][1]]
        /\ sell_LUT[i][2] <= Len(sell_book[sell_LUT[i][1]])
        /\ SellBook!PeekOrder(i) = sell_book[sell_LUT[i][1]][sell_LUT[i][2]]
        /\ SellBook!PeekOrder(i) \in SellBook!Entry
        /\ SellBook!PeekOrder(i).system_id = i
        /\ PriceIndex[SellBook!PeekOrder(i).price] = sell_LUT[i][1]
    BY Zenon, <2>1, <2>2, SellBook!SlotOfResting
  <2>4. /\ Slot(s, i) = sell_LUT[i]
        /\ Level(s, sell_LUT[i][1]) = sell_book[sell_LUT[i][1]]
        /\ Peek(s, i) = SellBook!PeekOrder(i)
    BY Zenon, <1>2, <2>3 DEF Slot, Level, Peek
  <2> QED BY ONLY Zenon, <2>3, <2>4 DEF SellBook!Levels, Levels, SellBook!Entry, Entry
<1> QED BY <1>1, <1>2 DEF Sides

(* An entry with quantity left is the one its order's slot leads to.       *)
LEMMA LiveEntryIndexed ==
  ASSUME NEW s \in Sides, BookOK(s), NEW p \in Levels,
         NEW c \in DOMAIN Level(s, p), Level(s, p)[c].quantity # 0
  PROVE  /\ Level(s, p)[c].system_id \in Ids
         /\ Slot(s, Level(s, p)[c].system_id) = <<p, c>>
         /\ Rests(s, Level(s, p)[c].system_id)
         /\ Peek(s, Level(s, p)[c].system_id) = Level(s, p)[c]
<1>1. CASE s = "b"
  <2>1. c \in BuyBook!LiveColumns(p) /\ p \in BuyBook!Levels
    BY <1>1 DEF BuyBook!LiveColumns, BuyBook!Levels, Level, Levels
  <2>2. buy_book[p][c].system_id \in Ids /\ buy_LUT[buy_book[p][c].system_id] = <<p, c>>
    BY <1>1, <2>1, BookConstants, BuyBook!LiveColumnsPlaced
    DEF BuyBook!OrderBookAssumption, BuyBook!IsFiniteSet, IsFiniteSet, BookOK,
      BuyBook!BookInv, BuyBook!Placed
  <2> QED BY <1>1, <2>2 DEF Slot, Rests, Peek, Level, NoSlot, Buy!NoSlot, Levels
<1>2. CASE s = "s"
  <2>1. c \in SellBook!LiveColumns(p) /\ p \in SellBook!Levels
    BY <1>2 DEF SellBook!LiveColumns, SellBook!Levels, Level, Levels
  <2>2. sell_book[p][c].system_id \in Ids /\ sell_LUT[sell_book[p][c].system_id] = <<p, c>>
    BY <1>2, <2>1, BookConstants, SellBook!LiveColumnsPlaced
    DEF SellBook!OrderBookAssumption, SellBook!IsFiniteSet, IsFiniteSet, BookOK,
      SellBook!BookInv, SellBook!Placed
  <2> QED BY <1>2, <2>2 DEF Slot, Rests, Peek, Level, NoSlot, Buy!NoSlot, Levels
<1> QED BY <1>1, <1>2 DEF Sides

(* The types of a side: its best price, its levels, its slots.             *)
LEMMA BookTypes ==
  ASSUME NEW s \in Sides, BookOK(s)
  PROVE  /\ Best(s) \in 0 .. MaxPrice
         /\ \A p \in Levels : Level(s, p) \in Seq(Entry) /\ Len(Level(s, p)) \in Nat
         /\ \A i \in Ids : Slot(s, i) \in (Levels \X (Nat \ {0})) \cup {NoSlot}
<1>1. CASE s = "b"
  <2>1. /\ Best(s) \in 0 .. MaxPrice
        /\ \A p \in Levels : Level(s, p) \in Seq(Entry)
        /\ \A i \in Ids : Slot(s, i) \in (Levels \X (Nat \ {0})) \cup {NoSlot}
    BY <1>1 DEF BookOK, BuyBook!BookInv, BuyBook!BookShape, BuyBook!Levels, Levels,
      BuyBook!Entry, Entry, BuyBook!NoSlot, NoSlot, Buy!NoSlot, Best, Level, Slot
  <2> QED BY <2>1
<1>2. CASE s = "s"
  <2>1. /\ Best(s) \in 0 .. MaxPrice
        /\ \A p \in Levels : Level(s, p) \in Seq(Entry)
        /\ \A i \in Ids : Slot(s, i) \in (Levels \X (Nat \ {0})) \cup {NoSlot}
    BY <1>2 DEF BookOK, SellBook!BookInv, SellBook!BookShape, SellBook!Levels, Levels,
      SellBook!Entry, Entry, SellBook!NoSlot, NoSlot, Buy!NoSlot, Best, Level, Slot
  <2> QED BY <2>1
<1> QED BY <1>1, <1>2 DEF Sides

(* No order of a side is in a better level than the side's best price.     *)
LEMMA BestBounds ==
  ASSUME NEW s \in Sides, BookOK(s), NEW i \in Ids, Rests(s, i)
  PROVE  IF s = "b" THEN Slot(s, i)[1] <= Best(s) ELSE Slot(s, i)[1] >= Best(s)
<1>0. Best(s) \in 0 .. MaxPrice /\ Slot(s, i)[1] \in Levels /\ MaxPrice \in Nat \ {0}
  BY BookTypes, SlotLeads, BookConstants
<1>1. CASE s = "b"
  <2>1. ~ BuyBook!Better(buy_LUT[i][1], buy_best_price)
    BY <1>1, BookConstants, BuyBook!NoOrderBetter
    DEF BuyBook!OrderBookAssumption, BuyBook!IsFiniteSet, IsFiniteSet, BookOK,
      Rests, Slot, NoSlot, Buy!NoSlot, BuyBook!Resting, BuyBook!NoSlot
  <2> QED BY <1>0, <1>1, <2>1 DEF BuyBook!Better, Slot, Best, Levels
<1>2. CASE s = "s"
  <2>1. ~ SellBook!Better(sell_LUT[i][1], sell_best_price)
    BY <1>2, BookConstants, SellBook!NoOrderBetter
    DEF SellBook!OrderBookAssumption, SellBook!IsFiniteSet, IsFiniteSet, BookOK,
      Rests, Slot, NoSlot, Buy!NoSlot, SellBook!Resting, SellBook!NoSlot
  <2> QED BY <1>0, <1>2, <2>1 DEF SellBook!Better, Slot, Best, Levels
<1> QED BY <1>1, <1>2 DEF Sides

(* What the matching loop takes for the end of a side: nothing rests there.*)
LEMMA NoLevelMeansEmpty ==
  ASSUME NEW s \in Sides, BookOK(s), Best(s) >= MaxPrice \/ Level(s, Best(s)) = <<>>,
         NEW i \in Ids
  PROVE  ~ Rests(s, i)
<1>1. CASE s = "b"
  <2>1. buy_best_price >= MaxPrice \/ buy_book[buy_best_price] = <<>>
    BY <1>1 DEF Best, Level
  <2>2. ~ BuyBook!Resting(i)
    BY <1>1, <2>1, BookConstants, BuyBook!EmptySide
    DEF BuyBook!OrderBookAssumption, BuyBook!IsFiniteSet, IsFiniteSet, BookOK
  <2> QED BY <1>1, <2>2 DEF Rests, Slot, NoSlot, Buy!NoSlot, BuyBook!Resting, BuyBook!NoSlot
<1>2. CASE s = "s"
  <2>1. sell_best_price >= MaxPrice \/ sell_book[sell_best_price] = <<>>
    BY <1>2 DEF Best, Level
  <2>2. ~ SellBook!Resting(i)
    BY <1>2, <2>1, BookConstants, SellBook!EmptySide
    DEF SellBook!OrderBookAssumption, SellBook!IsFiniteSet, IsFiniteSet, BookOK
  <2> QED BY <1>2, <2>2
      DEF Rests, Slot, NoSlot, Buy!NoSlot, SellBook!Resting, SellBook!NoSlot
<1> QED BY <1>1, <1>2 DEF Sides

-----------------------------------------------------------------------------
(* What the operations of the book do on side s: the book stays sound, the *)
(* other side stays as it was, and so does every order but the one named.  *)

LEMMA CreateOnBook ==
  ASSUME NEW s \in Sides, BookOK(s), NEW o \in Entry, ~ Rests(s, o.system_id),
         OnBook(s = "b", Buy!CreateOrder(o), Sell!CreateOrder(o))
  PROVE  /\ BookOK(s)' /\ SameBook(Other(s))
         /\ PriceIndex[o.price] \in Levels
         /\ Slot(s, o.system_id)' =
              <<PriceIndex[o.price], Len(Level(s, PriceIndex[o.price])) + 1>>
         /\ Peek(s, o.system_id)' = o
         /\ \A i \in Ids \ {o.system_id} : SameSlot(s, i)
         /\ \A q \in Levels : Len(Level(s, q))' <= Len(Level(s, q)) + 1
<1>1. CASE s = "b"
  <2>1. BuyBook!CreateOrder(o) /\ UNCHANGED sellVars
    BY <1>1 DEF OnBook, Sides, BuyBook!CreateOrder, Buy!CreateOrder, BuyBook!Better, Buy!Better, BuyBook!Levels, Buy!Levels
  <2>2. BuyBook!BookInv /\ o \in BuyBook!Entry /\ ~ BuyBook!Resting(o.system_id)
    BY <1>1 DEF BookOK, BuyBook!BookInv, Entry, BuyBook!Entry, Rests, Slot, NoSlot, Buy!NoSlot,
      BuyBook!Resting, BuyBook!NoSlot, Peek, Level, BuyBook!PeekOrder, BuyBook!EntryAt
  <2>3. BuyBook!BookInv'
    BY <2>1, <2>2, BookConstants, BuyBook!CreateOrderKeepsInv
    DEF BuyBook!OrderBookAssumption, BuyBook!IsFiniteSet, IsFiniteSet
  <2>4. /\ buy_LUT'[o.system_id] =
             <<PriceIndex[o.price], Len(buy_book[PriceIndex[o.price]]) + 1>>
        /\ BuyBook!PeekOrder(o.system_id)' = o
        /\ \A i \in Ids \ {o.system_id} : BuyBook!SameOrder(i)
        /\ \A q \in BuyBook!Levels : Len(buy_book'[q]) <= Len(buy_book[q]) + 1
    BY <2>1, <2>2, BookConstants, BuyBook!CreateOrderEffect
    DEF BuyBook!OrderBookAssumption, BuyBook!IsFiniteSet, IsFiniteSet, BuyBook!BookInv
  <2> QED BY ONLY Zenon, <1>1, <2>1, <2>2, <2>3, <2>4
      DEF BookOK, SameBook, Other, SameSlot, Rests, Slot, NoSlot, Buy!NoSlot, Peek, Level, Levels,
        BuyBook!SameOrder, BuyBook!Resting, BuyBook!NoSlot, BuyBook!PeekOrder,
        BuyBook!EntryAt, BuyBook!Levels, BuyBook!CreateOrder
<1>2. CASE s = "s"
  <2>1. SellBook!CreateOrder(o) /\ UNCHANGED buyVars
    BY <1>2 DEF OnBook, Sides, SellBook!CreateOrder, Sell!CreateOrder, SellBook!Better, Sell!Better, SellBook!Levels, Sell!Levels
  <2>2. SellBook!BookInv /\ o \in SellBook!Entry /\ ~ SellBook!Resting(o.system_id)
    BY <1>2 DEF BookOK, SellBook!BookInv, Entry, SellBook!Entry, Rests, Slot, NoSlot, Buy!NoSlot,
      SellBook!Resting, SellBook!NoSlot, Peek, Level, SellBook!PeekOrder, SellBook!EntryAt
  <2>3. SellBook!BookInv'
    BY <2>1, <2>2, BookConstants, SellBook!CreateOrderKeepsInv
    DEF SellBook!OrderBookAssumption, SellBook!IsFiniteSet, IsFiniteSet
  <2>4. /\ sell_LUT'[o.system_id] =
             <<PriceIndex[o.price], Len(sell_book[PriceIndex[o.price]]) + 1>>
        /\ SellBook!PeekOrder(o.system_id)' = o
        /\ \A i \in Ids \ {o.system_id} : SellBook!SameOrder(i)
        /\ \A q \in SellBook!Levels : Len(sell_book'[q]) <= Len(sell_book[q]) + 1
    BY <2>1, <2>2, BookConstants, SellBook!CreateOrderEffect
    DEF SellBook!OrderBookAssumption, SellBook!IsFiniteSet, IsFiniteSet, SellBook!BookInv
  <2> QED BY ONLY Zenon, <1>2, <2>1, <2>2, <2>3, <2>4
      DEF BookOK, SameBook, Other, SameSlot, Rests, Slot, NoSlot, Buy!NoSlot, Peek, Level, Levels,
        SellBook!SameOrder, SellBook!Resting, SellBook!NoSlot, SellBook!PeekOrder,
        SellBook!EntryAt, SellBook!Levels, SellBook!CreateOrder
<1> QED BY <1>1, <1>2 DEF Sides

LEMMA DeleteOnBook ==
  ASSUME NEW s \in Sides, BookOK(s), NEW id \in Ids,
         OnBook(s = "b", Buy!DeleteOrder(id), Sell!DeleteOrder(id))
  PROVE  /\ BookOK(s)' /\ SameBook(Other(s))
         /\ Rests(s, id) /\ Slot(s, id)' = NoSlot
         /\ \A i \in Ids \ {id} : SameSlot(s, i)
         /\ \A q \in Levels : Len(Level(s, q))' = Len(Level(s, q))
<1>1. CASE s = "b"
  <2>1. BuyBook!DeleteOrder(id) /\ UNCHANGED sellVars
    BY <1>1 DEF OnBook, Sides, BuyBook!DeleteOrder, Buy!DeleteOrder, BuyBook!Resting, Buy!Resting, BuyBook!NoSlot, Buy!NoSlot, BuyBook!Glides, Buy!Glides
  <2>2. BuyBook!BookInv
    BY <1>1 DEF BookOK, BuyBook!BookInv, Entry, BuyBook!Entry, Rests, Slot, NoSlot, Buy!NoSlot,
      BuyBook!Resting, BuyBook!NoSlot, Peek, Level, BuyBook!PeekOrder, BuyBook!EntryAt
  <2>3. BuyBook!BookInv'
    BY Zenon, <2>1, <2>2, BookConstants, BuyBook!DeleteOrderKeepsInv
    DEF BuyBook!OrderBookAssumption, BuyBook!IsFiniteSet, IsFiniteSet
  <2>4. /\ BuyBook!Resting(id) /\ buy_LUT'[id] = BuyBook!NoSlot
        /\ \A i \in Ids \ {id} : BuyBook!SameOrder(i)
        /\ \A q \in BuyBook!Levels : Len(buy_book'[q]) = Len(buy_book[q])
    BY Zenon, <2>1, <2>2, BookConstants, BuyBook!DeleteOrderEffect
    DEF BuyBook!OrderBookAssumption, BuyBook!IsFiniteSet, IsFiniteSet, BuyBook!BookInv, BuyBook!DeleteOrder
  <2> QED BY <1>1, <2>1, <2>2, <2>3, <2>4
      DEF BookOK, SameBook, Other, SameSlot, Rests, Slot, NoSlot, Buy!NoSlot, Peek, Level, Levels,
        BuyBook!SameOrder, BuyBook!Resting, BuyBook!NoSlot, BuyBook!PeekOrder,
        BuyBook!EntryAt, BuyBook!Levels
<1>2. CASE s = "s"
  <2>1. SellBook!DeleteOrder(id) /\ UNCHANGED buyVars
    BY <1>2 DEF OnBook, Sides, SellBook!DeleteOrder, Sell!DeleteOrder, SellBook!Resting, Sell!Resting, SellBook!NoSlot, Sell!NoSlot, SellBook!Glides, Sell!Glides
  <2>2. SellBook!BookInv
    BY <1>2 DEF BookOK, SellBook!BookInv, Entry, SellBook!Entry, Rests, Slot, NoSlot, Buy!NoSlot,
      SellBook!Resting, SellBook!NoSlot, Peek, Level, SellBook!PeekOrder, SellBook!EntryAt
  <2>3. SellBook!BookInv'
    BY Zenon, <2>1, <2>2, BookConstants, SellBook!DeleteOrderKeepsInv
    DEF SellBook!OrderBookAssumption, SellBook!IsFiniteSet, IsFiniteSet
  <2>4. /\ SellBook!Resting(id) /\ sell_LUT'[id] = SellBook!NoSlot
        /\ \A i \in Ids \ {id} : SellBook!SameOrder(i)
        /\ \A q \in SellBook!Levels : Len(sell_book'[q]) = Len(sell_book[q])
    BY ONLY Zenon, <2>1, <2>2, BookConstants, SellBook!DeleteOrderEffect
    DEF SellBook!OrderBookAssumption, SellBook!IsFiniteSet, IsFiniteSet, SellBook!BookInv, SellBook!DeleteOrder
  <2> QED BY <1>2, <2>1, <2>2, <2>3, <2>4
      DEF BookOK, SameBook, Other, SameSlot, Rests, Slot, NoSlot, Buy!NoSlot, Peek, Level, Levels,
        SellBook!SameOrder, SellBook!Resting, SellBook!NoSlot, SellBook!PeekOrder,
        SellBook!EntryAt, SellBook!Levels
<1> QED BY <1>1, <1>2 DEF Sides

LEMMA UpdateOnBook ==
  ASSUME NEW s \in Sides, BookOK(s), NEW o \in Entry,
         Rests(s, o.system_id), o.price = Peek(s, o.system_id).price,
         OnBook(s = "b", Buy!UpdateOrderQuantity(o), Sell!UpdateOrderQuantity(o))
  PROVE  /\ BookOK(s)' /\ SameBook(Other(s))
         /\ Rests(s, o.system_id)'
         /\ Slot(s, o.system_id)'[1] = Slot(s, o.system_id)[1]
         /\ Peek(s, o.system_id)'.quantity = o.quantity
         /\ Peek(s, o.system_id)'.trade_id \in {Peek(s, o.system_id).trade_id, o.trade_id}
         /\ o.quantity <= Peek(s, o.system_id).quantity
              => Slot(s, o.system_id)' = Slot(s, o.system_id)
         /\ o.quantity > Peek(s, o.system_id).quantity
              => Slot(s, o.system_id)'[2] = Len(Level(s, Slot(s, o.system_id)[1])) + 1
         /\ \A i \in Ids \ {o.system_id} : SameSlot(s, i)
         /\ \A q \in Levels : Len(Level(s, q))' <= Len(Level(s, q)) + 1
<1>1. CASE s = "b"
  <2>1. BuyBook!UpdateOrderQuantity(o) /\ UNCHANGED sellVars
    BY Zenon, <1>1 DEF OnBook, Sides, BuyBook!UpdateOrderQuantity, Buy!UpdateOrderQuantity, BuyBook!NoSlot, Buy!NoSlot, BuyBook!EntryAt, Buy!EntryAt, BuyBook!Reduce, Buy!Reduce, BuyBook!Enlarge, Buy!Enlarge
  <2>2. /\ BuyBook!BookInv /\ o \in BuyBook!Entry /\ BuyBook!Resting(o.system_id)
        /\ o.price = BuyBook!PeekOrder(o.system_id).price
    BY <1>1 DEF BookOK, BuyBook!BookInv, Entry, BuyBook!Entry, Rests, Slot, NoSlot, Buy!NoSlot,
      BuyBook!Resting, BuyBook!NoSlot, Peek, Level, BuyBook!PeekOrder, BuyBook!EntryAt
  <2>3. BuyBook!BookInv'
    BY <2>1, <2>2, BookConstants, BuyBook!UpdateKeepsInv
    DEF BuyBook!OrderBookAssumption, BuyBook!IsFiniteSet, IsFiniteSet
  <2>4. /\ buy_LUT'[o.system_id][1] = buy_LUT[o.system_id][1]
        /\ BuyBook!Resting(o.system_id)'
        /\ BuyBook!PeekOrder(o.system_id)'.quantity = o.quantity
        /\ BuyBook!PeekOrder(o.system_id)'.trade_id
             \in {BuyBook!PeekOrder(o.system_id).trade_id, o.trade_id}
        /\ o.quantity <= BuyBook!PeekOrder(o.system_id).quantity
             => buy_LUT'[o.system_id] = buy_LUT[o.system_id]
        /\ o.quantity > BuyBook!PeekOrder(o.system_id).quantity
             => buy_LUT'[o.system_id][2] = Len(buy_book[buy_LUT[o.system_id][1]]) + 1
        /\ \A i \in Ids \ {o.system_id} : BuyBook!SameOrder(i)
        /\ \A q \in BuyBook!Levels : Len(buy_book'[q]) <= Len(buy_book[q]) + 1
    BY Zenon, <2>1, <2>2, BookConstants, BuyBook!UpdateEffect
    DEF BuyBook!OrderBookAssumption, BuyBook!IsFiniteSet, IsFiniteSet, BuyBook!BookInv
  <2> QED BY Zenon, <1>1, <2>1, <2>2, <2>3, <2>4
      DEF BookOK, SameBook, Other, SameSlot, Rests, Slot, NoSlot, Buy!NoSlot, Peek, Level, Levels,
        BuyBook!SameOrder, BuyBook!Resting, BuyBook!NoSlot, BuyBook!PeekOrder,
        BuyBook!EntryAt, BuyBook!Levels
<1>2. CASE s = "s"
  <2>1. SellBook!UpdateOrderQuantity(o) /\ UNCHANGED buyVars
    BY Zenon, <1>2 DEF OnBook, Sides, SellBook!UpdateOrderQuantity, Sell!UpdateOrderQuantity, SellBook!NoSlot, Sell!NoSlot, SellBook!EntryAt, Sell!EntryAt, SellBook!Reduce, Sell!Reduce, SellBook!Enlarge, Sell!Enlarge
  <2>2. /\ SellBook!BookInv /\ o \in SellBook!Entry /\ SellBook!Resting(o.system_id)
        /\ o.price = SellBook!PeekOrder(o.system_id).price
    BY <1>2 DEF BookOK, SellBook!BookInv, Entry, SellBook!Entry, Rests, Slot, NoSlot, Buy!NoSlot,
      SellBook!Resting, SellBook!NoSlot, Peek, Level, SellBook!PeekOrder, SellBook!EntryAt
  <2>3. SellBook!BookInv'
    BY <2>1, <2>2, BookConstants, SellBook!UpdateKeepsInv
    DEF SellBook!OrderBookAssumption, SellBook!IsFiniteSet, IsFiniteSet
  <2>4. /\ sell_LUT'[o.system_id][1] = sell_LUT[o.system_id][1]
        /\ SellBook!Resting(o.system_id)'
        /\ SellBook!PeekOrder(o.system_id)'.quantity = o.quantity
        /\ SellBook!PeekOrder(o.system_id)'.trade_id
             \in {SellBook!PeekOrder(o.system_id).trade_id, o.trade_id}
        /\ o.quantity <= SellBook!PeekOrder(o.system_id).quantity
             => sell_LUT'[o.system_id] = sell_LUT[o.system_id]
        /\ o.quantity > SellBook!PeekOrder(o.system_id).quantity
             => sell_LUT'[o.system_id][2] = Len(sell_book[sell_LUT[o.system_id][1]]) + 1
        /\ \A i \in Ids \ {o.system_id} : SellBook!SameOrder(i)
        /\ \A q \in SellBook!Levels : Len(sell_book'[q]) <= Len(sell_book[q]) + 1
    BY <2>1, <2>2, BookConstants, SellBook!UpdateEffect
    DEF SellBook!OrderBookAssumption, SellBook!IsFiniteSet, IsFiniteSet, SellBook!BookInv
  <2> QED BY Zenon, <1>2, <2>1, <2>2, <2>3, <2>4
      DEF BookOK, SameBook, Other, SameSlot, Rests, Slot, NoSlot, Buy!NoSlot, Peek, Level, Levels,
        SellBook!SameOrder, SellBook!Resting, SellBook!NoSlot, SellBook!PeekOrder,
        SellBook!EntryAt, SellBook!Levels
<1> QED BY <1>1, <1>2 DEF Sides

LEMMA TakeOnBook ==
  ASSUME NEW s \in Sides, BookOK(s), NEW id \in Ids, Rests(s, id),
         NEW trade \in Nat, trade <= Peek(s, id).quantity,
         OnBook(s = "b", Buy!TakeQuantity(Slot(s, id), trade),
                   Sell!TakeQuantity(Slot(s, id), trade))
  PROVE  /\ BookOK(s)' /\ SameBook(Other(s))
         /\ Slot(s, id)' = Slot(s, id)
         /\ Peek(s, id)' = [Peek(s, id) EXCEPT !.quantity = @ - trade]
         /\ \A i \in Ids \ {id} : SameSlot(s, i)
         /\ \A q \in Levels : Len(Level(s, q))' = Len(Level(s, q))
<1>1. CASE s = "b"
  <2>1. BuyBook!TakeQuantity(buy_LUT[id], trade) /\ UNCHANGED sellVars
    BY <1>1 DEF OnBook, Sides, BuyBook!TakeQuantity, Buy!TakeQuantity, Slot
  <2>2. /\ BuyBook!BookInv /\ BuyBook!Resting(id)
        /\ trade <= BuyBook!PeekOrder(id).quantity
    BY <1>1 DEF BookOK, BuyBook!BookInv, Entry, BuyBook!Entry, Rests, Slot, NoSlot, Buy!NoSlot,
      BuyBook!Resting, BuyBook!NoSlot, Peek, Level, BuyBook!PeekOrder, BuyBook!EntryAt
  <2>3. BuyBook!BookInv'
    BY <2>1, <2>2, BookConstants, BuyBook!TakeQuantityKeepsInv
    DEF BuyBook!OrderBookAssumption, BuyBook!IsFiniteSet, IsFiniteSet
  <2>4. /\ buy_LUT' = buy_LUT
        /\ BuyBook!PeekOrder(id)' = [BuyBook!PeekOrder(id) EXCEPT !.quantity = @ - trade]
        /\ \A i \in Ids \ {id} : BuyBook!SameOrder(i)
        /\ \A q \in BuyBook!Levels : Len(buy_book'[q]) = Len(buy_book[q])
    BY <2>1, <2>2, BookConstants, BuyBook!TakeQuantityEffect
    DEF BuyBook!OrderBookAssumption, BuyBook!IsFiniteSet, IsFiniteSet, BuyBook!BookInv
  <2> QED BY ONLY Zenon, <1>1, <2>1, <2>2, <2>3, <2>4
      DEF BookOK, SameBook, Other, SameSlot, Rests, Slot, NoSlot, Buy!NoSlot, Peek, Level, Levels,
        BuyBook!SameOrder, BuyBook!Resting, BuyBook!NoSlot, BuyBook!PeekOrder,
        BuyBook!EntryAt, BuyBook!Levels
<1>2. CASE s = "s"
  <2>1. SellBook!TakeQuantity(sell_LUT[id], trade) /\ UNCHANGED buyVars
    BY <1>2 DEF OnBook, Sides, SellBook!TakeQuantity, Sell!TakeQuantity, Slot
  <2>2. /\ SellBook!BookInv /\ SellBook!Resting(id)
        /\ trade <= SellBook!PeekOrder(id).quantity
    BY <1>2 DEF BookOK, SellBook!BookInv, Entry, SellBook!Entry, Rests, Slot, NoSlot, Buy!NoSlot,
      SellBook!Resting, SellBook!NoSlot, Peek, Level, SellBook!PeekOrder, SellBook!EntryAt
  <2>3. SellBook!BookInv'
    BY <2>1, <2>2, BookConstants, SellBook!TakeQuantityKeepsInv
    DEF SellBook!OrderBookAssumption, SellBook!IsFiniteSet, IsFiniteSet
  <2>4. /\ sell_LUT' = sell_LUT
        /\ SellBook!PeekOrder(id)' = [SellBook!PeekOrder(id) EXCEPT !.quantity = @ - trade]
        /\ \A i \in Ids \ {id} : SellBook!SameOrder(i)
        /\ \A q \in SellBook!Levels : Len(sell_book'[q]) = Len(sell_book[q])
    BY <2>1, <2>2, BookConstants, SellBook!TakeQuantityEffect
    DEF SellBook!OrderBookAssumption, SellBook!IsFiniteSet, IsFiniteSet, SellBook!BookInv
  <2> QED BY Zenon, <1>2, <2>1, <2>2, <2>3, <2>4
      DEF BookOK, SameBook, Other, SameSlot, Rests, Slot, NoSlot, Buy!NoSlot, Peek, Level, Levels,
        SellBook!SameOrder, SellBook!Resting, SellBook!NoSlot, SellBook!PeekOrder,
        SellBook!EntryAt, SellBook!Levels
<1> QED BY Zenon, <1>1, <1>2 DEF Sides

(* A side that no operation touches.                                       *)
LEMMA SameBookKeeps ==
  ASSUME NEW s \in Sides, BookOK(s), SameBook(s)
  PROVE  /\ BookOK(s)'
         /\ \A i \in Ids : SameSlot(s, i)
         /\ \A q \in Levels : Level(s, q)' = Level(s, q)
<1>1. CASE s = "b"
  <2>1. BuyBook!BookInv /\ UNCHANGED BuyBook!bookVars
    BY <1>1 DEF BookOK, SameBook, buyVars, BuyBook!bookVars
  <2>2. BuyBook!BookInv'
    BY <2>1, BookConstants, BuyBook!UnchangedKeepsInv
    DEF BuyBook!OrderBookAssumption, BuyBook!IsFiniteSet, IsFiniteSet
  <2> QED BY <1>1, <2>1, <2>2 DEF BookOK, BuyBook!bookVars, SameSlot, Slot, Level, Peek
<1>2. CASE s = "s"
  <2>1. SellBook!BookInv /\ UNCHANGED SellBook!bookVars
    BY <1>2 DEF BookOK, SameBook, sellVars, SellBook!bookVars
  <2>2. SellBook!BookInv'
    BY <2>1, BookConstants, SellBook!UnchangedKeepsInv
    DEF SellBook!OrderBookAssumption, SellBook!IsFiniteSet, IsFiniteSet
  <2> QED BY <1>2, <2>1, <2>2 DEF BookOK, SellBook!bookVars, SameSlot, Slot, Level, Peek
<1> QED BY <1>1, <1>2 DEF Sides

-----------------------------------------------------------------------------
(* The engine's invariant. *)

BothBooks == \A s \in Sides : BookOK(s)

(* No id is ahead of the gateway's counter, nor rests on both sides.       *)
IdsHandedOut ==
  /\ \A s \in Sides, i \in Ids : Rests(s, i) => i < nextId
  /\ order # None => order.system_id < nextId
  /\ \A i \in Ids : ~ (Rests("b", i) /\ Rests("s", i))

(* An order that is being matched, or is about to be after the deletion of *)
(* its old entry, does not rest.                                           *)
Matching == pc \in {"match", "scan", "told", "settle", "rest"}

IncomingAway ==
  \A s \in Sides, i \in Ids :
    /\ Matching \/ (pc = "publish" /\ pending.type = "D")
    /\ i = order.system_id
    => ~ Rests(s, i)

(* The loop's position is inside the level until its entry is settled.     *)
CursorInLevel ==
  \A s \in Sides, p \in Levels :
    pc \in {"told", "settle"} /\ s = Other(order.order_type) /\ p = cursor[1]
      => cursor[2] <= Len(Level(s, p))

EngineInv ==
  /\ BothBooks /\ HandlerTypeOK /\ QueuesTypeOK
  /\ IdsHandedOut /\ IncomingAway /\ CursorInLevel

(* A step on side s that names one order. *)
OnlyChanges(s, id) ==
  \A t \in Sides, i \in Ids : (t = s /\ i = id) \/ SameSlot(t, i)

LEMMA OneSideChanges ==
  ASSUME BothBooks, NEW s \in Sides, NEW id \in Ids,
         BookOK(s)', SameBook(Other(s)), \A i \in Ids \ {id} : SameSlot(s, i)
  PROVE  /\ BothBooks' /\ OnlyChanges(s, id)
         /\ \A q \in Levels : Level(Other(s), q)' = Level(Other(s), q)
<1>1. Other(s) \in Sides /\ BookOK(Other(s))
  BY DEF BothBooks, Other, Sides
<1>2. /\ BookOK(Other(s))' /\ \A i \in Ids : SameSlot(Other(s), i)
      /\ \A q \in Levels : Level(Other(s), q)' = Level(Other(s), q)
  BY <1>1, SameBookKeeps
<1>3. \A t \in Sides : t = s \/ t = Other(s)
  BY DEF Other, Sides
<1>4. BothBooks'
  BY <1>2, <1>3 DEF BothBooks
<1>5. OnlyChanges(s, id)
  BY <1>2, <1>3 DEF OnlyChanges
<1> QED BY <1>2, <1>4, <1>5

(* A step that touches no book.                                            *)
LEMMA NoBookChanges ==
  ASSUME BothBooks, UNCHANGED books
  PROVE  /\ BothBooks'
         /\ \A s \in Sides, i \in Ids : SameSlot(s, i)
         /\ \A s \in Sides, q \in Levels : Level(s, q)' = Level(s, q)
<1>1. \A s \in Sides : SameBook(s)
  BY DEF books, SameBook, buyVars, sellVars
<1> QED BY <1>1, SameBookKeeps DEF BothBooks

(* The books as the request in hand sees them, by side.                    *)
LEMMA OrderViews ==
  ASSUME NEW o, o.order_type \in Sides
  PROVE  /\ RestsInOwnBook(o) = Rests(o.order_type, o.system_id)
         /\ OwnEntry(o) = Peek(o.order_type, o.system_id)
         /\ OppositeBest(o) = Best(Other(o.order_type))
         /\ \A p : OppositeLevel(o, p) = Level(Other(o.order_type), p)
BY DEF IsBuy, RestsInOwnBook, Rests, Slot, NoSlot, Buy!Resting, Sell!Resting, Buy!NoSlot,
  Sell!NoSlot, OwnEntry, Peek, Level, Buy!PeekOrder, Sell!PeekOrder, Buy!EntryAt,
  Sell!EntryAt, OppositeBest, Best, OppositeLevel, Other

(* What the handler has in hand, by the place it is at.                    *)
LEMMA InHand ==
  ASSUME HandlerTypeOK
  PROVE  /\ pc # "idle" => /\ order \in LOBOrder
                           /\ order.system_id \in Ids /\ order.price \in Prices
                           /\ order.quantity \in Nat
                           /\ order.order_type \in {"b", "s"}
                           /\ order.req_type \in {"c", "u", "d"}
                           /\ PriceIndex[order.price] \in Nat
                           /\ EntryOf(order) \in Entry
                           /\ EntryOf(order).system_id = order.system_id
                           /\ EntryOf(order).price = order.price
                           /\ EntryOf(order).quantity = order.quantity
         /\ pc \in {"told", "publish"} => /\ pending \in Change
                                          /\ pending.type \in Kinds
                                          /\ pending.entry \in Entry
                                          /\ pending.entry.system_id \in Ids
                                          /\ pending.entry.price \in Prices
                                          /\ pending.entry.quantity \in Nat
                                          /\ PriceIndex[pending.entry.price] \in Nat
         /\ pc \in {"scan", "told", "settle"} => /\ cursor = <<cursor[1], cursor[2]>>
                                                 /\ cursor[1] \in Levels
                                                 /\ cursor[2] \in Nat \ {0}
<1>1. pc # "idle" => order \in LOBOrder
  BY DEF HandlerTypeOK
<1>2. pc \in {"told", "publish"} => pending \in Change
  BY DEF HandlerTypeOK
<1>3. pc \in {"scan", "told", "settle"} => cursor \in Levels \X (Nat \ {0})
  BY DEF HandlerTypeOK
<1>4. PriceIndex \in [Prices -> Nat]
  BY BookConstants
<1>5. ASSUME order \in LOBOrder
      PROVE  /\ order.system_id \in Ids /\ order.price \in Prices
             /\ order.quantity \in Nat /\ order.order_type \in {"b", "s"}
             /\ order.req_type \in {"c", "u", "d"}
             /\ EntryOf(order) \in Entry
  BY <1>5 DEF LOBOrder, Entry, EntryOf
<1>6. /\ EntryOf(order).system_id = order.system_id
      /\ EntryOf(order).price = order.price
      /\ EntryOf(order).quantity = order.quantity
  BY DEF EntryOf
<1>7. ASSUME pending \in Change
      PROVE  /\ pending.type \in Kinds /\ pending.entry \in Entry
             /\ pending.entry.system_id \in Ids /\ pending.entry.price \in Prices
             /\ pending.entry.quantity \in Nat
  BY <1>7 DEF Change, Entry
<1>8. ASSUME cursor \in Levels \X (Nat \ {0})
      PROVE  /\ cursor = <<cursor[1], cursor[2]>>
             /\ cursor[1] \in Levels /\ cursor[2] \in Nat \ {0}
  BY <1>8
<1> QED BY <1>1, <1>2, <1>3, <1>4, <1>5, <1>6, <1>7, <1>8

-----------------------------------------------------------------------------
(* What the steps that touch a book do. *)

Traded(a, b) == IF a < b THEN a ELSE b

(* A trade on side s with the entry of order r, of quantity n.             *)
TradesWith(s, r, n) ==
  /\ s = Other(order.order_type)
  /\ Rests(s, r) /\ Slot(s, r) = cursor'
  /\ cursor'[1] = cursor[1] /\ cursor'[2] >= cursor[2]
  /\ Peek(s, r).quantity # 0
  /\ \A i \in Ids : /\ Rests(s, i) /\ Slot(s, i)[1] = cursor[1]
                    /\ Slot(s, i)[2] >= cursor[2] /\ Peek(s, i).quantity # 0
                    => cursor'[2] <= Slot(s, i)[2]
  /\ n = Traded(Peek(s, r).quantity, order.quantity)
  /\ n <= order.quantity /\ n <= Peek(s, r).quantity
  /\ order' = [order EXCEPT !.quantity = @ - n]
  /\ pending' = [type |-> "T", entry |-> [Peek(s, r) EXCEPT !.quantity = n]]
  /\ acks' = Ack(acks, order, cursor[1], "T", n)
  /\ BothBooks' /\ OnlyChanges(s, r)
  /\ Slot(s, r)' = Slot(s, r)
  /\ Peek(s, r)' = [Peek(s, r) EXCEPT !.quantity = @ - n]
  /\ \A t \in Sides, q \in Levels : Len(Level(t, q))' = Len(Level(t, q))

(* The entry that trades is that of a resting order of the other side, the *)
(* first of the level in hand that is not empty; it and the incoming order *)
(* lose what the smaller of them has.                                      *)
LEMMA TradeNextEffect ==
  ASSUME EngineInv, TradeNext
  PROVE  \E s \in Sides, r \in Ids, n \in Nat : TradesWith(s, r, n)
<1>0. PICK s \in Sides : s = Other(order.order_type)
  BY DEF Other, Sides
<1>1. PICK p \in Levels, k \in Nat \ {0} : p = cursor[1] /\ k = cursor[2]
  BY InHand DEF EngineInv, TradeNext
<1>2. PICK lev \in Seq(Entry) : lev = LevelInHand /\ lev = Level(s, p)
  <2>1. BothBooks /\ HandlerTypeOK /\ pc = "scan"
    BY DEF EngineInv, TradeNext
  <2>2. order.order_type \in Sides
    BY <2>1, InHand DEF Sides
  <2>3. LevelInHand = Level(s, p)
    BY <1>0, <1>1, <2>2, OrderViews DEF LevelInHand
  <2> QED BY <2>1, <2>3, BookTypes DEF BothBooks
<1>3. /\ BothBooks /\ order \in LOBOrder /\ order.quantity \in Nat
      /\ order.order_type \in Sides /\ BookOK(s)
  <2>1. BothBooks /\ HandlerTypeOK /\ pc = "scan"
    BY DEF EngineInv, TradeNext
  <2> QED BY <2>1, InHand DEF BothBooks, Sides
<1>4. PICK c \in LiveAhead :
        /\ NextLive(c)
        /\ LET ord  == LevelInHand[c]
               trade == IF ord.quantity < order.quantity THEN ord.quantity ELSE order.quantity
               slot == <<cursor[1], c>>
           IN  /\ order' = [order EXCEPT !.quantity = @ - trade]
               /\ OnBook(~ IsBuy(order), Buy!TakeQuantity(slot, trade),
                                         Sell!TakeQuantity(slot, trade))
               /\ acks' = Ack(acks, order, cursor[1], "T", trade)
               /\ pending' = [type |-> "T", entry |-> [ord EXCEPT !.quantity = trade]]
               /\ cursor' = slot
  BY DEF TradeNext
<1>5. c \in DOMAIN lev /\ lev[c].quantity # 0 /\ c \in Nat \ {0} /\ c >= k
  BY <1>1, <1>2 DEF LiveAhead
<1>6. PICK r \in Ids : /\ Rests(s, r) /\ Slot(s, r) = <<p, c>> /\ Peek(s, r) = lev[c]
                       /\ Peek(s, r) \in Entry /\ Peek(s, r).quantity \in Nat
  <2>1. lev[c] \in Entry
    BY <1>5
  <2>2. lev[c].quantity \in Nat
    BY <2>1 DEF Entry
  <2> QED BY <1>2, <1>3, <1>5, <2>1, <2>2, LiveEntryIndexed
<1>7. PICK n \in Nat : n = Traded(Peek(s, r).quantity, order.quantity)
  BY <1>3, <1>6 DEF Traded
<1>8. n <= order.quantity /\ n <= Peek(s, r).quantity
  BY <1>3, <1>6, <1>7 DEF Traded
<1>9. /\ order' = [order EXCEPT !.quantity = @ - n]
      /\ OnBook(~ IsBuy(order), Buy!TakeQuantity(<<p, c>>, n), Sell!TakeQuantity(<<p, c>>, n))
      /\ acks' = Ack(acks, order, cursor[1], "T", n)
      /\ pending' = [type |-> "T", entry |-> [Peek(s, r) EXCEPT !.quantity = n]]
      /\ cursor' = <<p, c>>
  BY <1>1, <1>2, <1>4, <1>6, <1>7 DEF Traded
<1>10. OnBook(s = "b", Buy!TakeQuantity(Slot(s, r), n), Sell!TakeQuantity(Slot(s, r), n))
  <2>1. (s = "b") = (~ IsBuy(order))
    BY <1>0, <1>3 DEF IsBuy, Other, Sides
  <2> QED BY <1>6, <1>9, <2>1 DEF OnBook
<1>11. ASSUME NEW i \in Ids, Rests(s, i), Slot(s, i)[1] = p,
              Slot(s, i)[2] >= k, Peek(s, i).quantity # 0
       PROVE  c <= Slot(s, i)[2]
  <2>1. /\ Slot(s, i)[2] \in DOMAIN lev /\ Slot(s, i)[2] \in Nat \ {0}
        /\ Slot(s, i)[2] <= Len(lev)
        /\ Peek(s, i) = lev[Slot(s, i)[2]]
    BY <1>2, <1>3, <1>11, SlotLeads DEF Peek
  <2>2. Slot(s, i)[2] \in k .. Len(lev)
    BY <1>11, <2>1
  <2>3. Slot(s, i)[2] \in LiveAhead
    BY <1>1, <1>2, <1>11, <2>1, <2>2 DEF LiveAhead
  <2> QED BY <1>4, <2>3 DEF NextLive
<1>12. /\ BookOK(s)' /\ SameBook(Other(s))
       /\ Slot(s, r)' = Slot(s, r)
       /\ Peek(s, r)' = [Peek(s, r) EXCEPT !.quantity = @ - n]
       /\ \A i \in Ids \ {r} : SameSlot(s, i)
       /\ \A q \in Levels : Len(Level(s, q))' = Len(Level(s, q))
  BY <1>3, <1>6, <1>8, <1>10, TakeOnBook
<1>13. /\ BothBooks' /\ OnlyChanges(s, r)
       /\ \A q \in Levels : Level(Other(s), q)' = Level(Other(s), q)
  BY <1>3, <1>12, OneSideChanges
<1>14. \A t \in Sides, q \in Levels : Len(Level(t, q))' = Len(Level(t, q))
  <2>1. \A t \in Sides : t = s \/ t = Other(s)
    BY DEF Other, Sides
  <2> QED BY <1>12, <1>13, <2>1
<1>15. cursor' = Slot(s, r) /\ cursor'[1] = cursor[1] /\ cursor'[2] = c
  BY <1>1, <1>6, <1>9
<1>16. Peek(s, r).quantity # 0
  BY <1>5, <1>6
<1>17. TradesWith(s, r, n)
  BY <1>0, <1>1, <1>5, <1>6, <1>7, <1>8, <1>9, <1>11, <1>12, <1>13, <1>14, <1>15, <1>16
  DEF TradesWith
<1> QED BY <1>17

(* The order of id r leaves side s. *)
Forgets(s, r) ==
  /\ Rests(s, r) /\ Slot(s, r)' = NoSlot
  /\ BothBooks' /\ OnlyChanges(s, r)
  /\ \A t \in Sides, q \in Levels : Len(Level(t, q))' = Len(Level(t, q))

LEMMA DeleteForgets ==
  ASSUME BothBooks, NEW s \in Sides, NEW r \in Ids,
         OnBook(s = "b", Buy!DeleteOrder(r), Sell!DeleteOrder(r))
  PROVE  Forgets(s, r)
<1>1. BookOK(s)
  BY DEF BothBooks
<1>2. /\ BookOK(s)' /\ SameBook(Other(s))
      /\ Rests(s, r) /\ Slot(s, r)' = NoSlot
      /\ \A i \in Ids \ {r} : SameSlot(s, i)
      /\ \A q \in Levels : Len(Level(s, q))' = Len(Level(s, q))
  BY <1>1, DeleteOnBook
<1>3. /\ BothBooks' /\ OnlyChanges(s, r)
      /\ \A q \in Levels : Level(Other(s), q)' = Level(Other(s), q)
  BY <1>2, OneSideChanges
<1>4. \A t \in Sides : t = s \/ t = Other(s)
  BY DEF Other, Sides
<1> QED BY <1>2, <1>3, <1>4 DEF Forgets

(* A filled entry leaves the other side; one that keeps quantity stays.    *)
LEMMA SettleEffect ==
  ASSUME EngineInv, Settle
  PROVE  \/ Filled.quantity # 0 /\ UNCHANGED books
         \/ /\ Filled.quantity = 0
            /\ \E s \in Sides, r \in Ids : /\ s = Other(order.order_type)
                                           /\ r = Filled.system_id /\ Forgets(s, r)
<1>0. PICK s \in Sides : s = Other(order.order_type)
  BY DEF Other, Sides
<1>1. BothBooks /\ HandlerTypeOK /\ pc = "settle" /\ CursorInLevel
  BY DEF EngineInv, Settle
<1>2. order.order_type \in Sides /\ cursor[2] \in Nat \ {0}
  BY <1>1, InHand DEF Sides
<1>3. PICK p \in Levels : p = cursor[1]
  BY <1>1, InHand
<1>4. /\ Level(s, p) \in Seq(Entry) /\ cursor[2] <= Len(Level(s, p))
      /\ Filled = Level(s, p)[cursor[2]]
  BY <1>0, <1>1, <1>2, <1>3, OrderViews, BookTypes
  DEF Filled, LevelInHand, CursorInLevel, BothBooks
<1>5. Filled \in Entry
  BY <1>2, <1>4
<1>6. Filled.system_id \in Ids
  BY <1>5 DEF Entry
<1>7. CASE /\ Filled.quantity = 0
           /\ OnBook(~ IsBuy(order), Buy!DeleteOrder(Filled.system_id),
                                     Sell!DeleteOrder(Filled.system_id))
  <2>1. PICK r \in Ids : r = Filled.system_id
    BY <1>6
  <2>2. (s = "b") = (~ IsBuy(order))
    BY <1>0, <1>2 DEF IsBuy, Other, Sides
  <2>3. OnBook(s = "b", Buy!DeleteOrder(r), Sell!DeleteOrder(r))
    BY <1>7, <2>1, <2>2 DEF OnBook
  <2>4. Forgets(s, r)
    BY <1>1, <2>3, DeleteForgets
  <2> QED BY <1>0, <1>7, <2>1, <2>4
<1>8. CASE Filled.quantity # 0 /\ UNCHANGED books
  BY <1>8
<1> QED BY <1>7, <1>8 DEF Settle

(* An amendment of the price and a deletion take the order off its side.   *)
LEMMA OwnDeletionEffect ==
  ASSUME EngineInv, UpdatePrice \/ DeleteResting
  PROVE  \E s \in Sides, r \in Ids : /\ s = order.order_type /\ r = order.system_id
                                     /\ Forgets(s, r)
<1>1. BothBooks /\ HandlerTypeOK /\ pc # "idle"
  BY DEF EngineInv, UpdatePrice, DeleteResting
<1>2. PICK s \in Sides, r \in Ids : s = order.order_type /\ r = order.system_id
  BY <1>1, InHand DEF Sides
<1>3. (s = "b") = IsBuy(order)
  BY <1>2 DEF IsBuy
<1>4. OnBook(IsBuy(order), Buy!DeleteOrder(r), Sell!DeleteOrder(r))
  BY <1>2 DEF UpdatePrice, DeleteResting
<1>5. OnBook(s = "b", Buy!DeleteOrder(r), Sell!DeleteOrder(r))
  BY <1>3, <1>4 DEF OnBook
<1>6. Forgets(s, r)
  BY <1>1, <1>5, DeleteForgets
<1> QED BY <1>2, <1>6

(* What is left of the request in hand, of id r, is stored on side s.      *)
Stores(s, r) ==
  /\ s = order.order_type /\ r = order.system_id
  /\ PriceIndex[order.price] \in Levels
  /\ ~ Rests(s, r)
  /\ Slot(s, r)' = <<PriceIndex[order.price], Len(Level(s, PriceIndex[order.price])) + 1>>
  /\ Peek(s, r)' = EntryOf(order)
  /\ BothBooks' /\ OnlyChanges(s, r)
  /\ \A t \in Sides, q \in Levels : Len(Level(t, q))' <= Len(Level(t, q)) + 1

LEMMA RestOrderEffect ==
  ASSUME EngineInv, RestOrder
  PROVE  \E s \in Sides, r \in Ids : Stores(s, r)
<1>1. BothBooks /\ HandlerTypeOK /\ pc = "rest" /\ IncomingAway
  BY DEF EngineInv, RestOrder
<1>2. PICK s \in Sides, r \in Ids : s = order.order_type /\ r = order.system_id
  BY <1>1, InHand DEF Sides
<1>3. PICK e \in Entry : /\ e = EntryOf(order) /\ e.system_id = r
                         /\ e.price = order.price
  BY <1>1, <1>2, InHand
<1>4. ~ Rests(s, r)
  BY <1>1, <1>2 DEF IncomingAway, Matching
<1>5. (s = "b") = IsBuy(order)
  BY <1>2 DEF IsBuy
<1>6. OnBook(IsBuy(order), Buy!CreateOrder(e), Sell!CreateOrder(e))
  BY <1>3 DEF RestOrder
<1>7. OnBook(s = "b", Buy!CreateOrder(e), Sell!CreateOrder(e))
  BY <1>5, <1>6 DEF OnBook
<1>8. /\ BookOK(s)' /\ SameBook(Other(s))
      /\ PriceIndex[e.price] \in Levels
      /\ Slot(s, r)' = <<PriceIndex[e.price], Len(Level(s, PriceIndex[e.price])) + 1>>
      /\ Peek(s, r)' = e
      /\ \A i \in Ids \ {r} : SameSlot(s, i)
      /\ \A q \in Levels : Len(Level(s, q))' <= Len(Level(s, q)) + 1
  BY <1>1, <1>3, <1>4, <1>7, CreateOnBook DEF BothBooks
<1>9. /\ BothBooks' /\ OnlyChanges(s, r)
      /\ \A q \in Levels : Level(Other(s), q)' = Level(Other(s), q)
  BY <1>1, <1>8, OneSideChanges
<1>10. \A t \in Sides, q \in Levels : Len(Level(t, q))' <= Len(Level(t, q)) + 1
  <2>1. \A t \in Sides : t = s \/ t = Other(s)
    BY DEF Other, Sides
  <2>2. \A t \in Sides, q \in Levels : Len(Level(t, q)) \in Nat
    BY <1>1, BookTypes DEF BothBooks
  <2> QED BY <1>8, <1>9, <2>1, <2>2
<1> QED BY <1>2, <1>3, <1>4, <1>8, <1>9, <1>10 DEF Stores

(* The order of id r on side s is given the quantity in hand: in its place *)
(* when it does not grow, at the back of its level when it does.           *)
Amends(s, r) ==
  /\ s = order.order_type /\ r = order.system_id
  /\ Rests(s, r) /\ Rests(s, r)'
  /\ Slot(s, r)'[1] = Slot(s, r)[1]
  /\ Peek(s, r)'.quantity = order.quantity
  /\ Peek(s, r)'.trade_id \in {Peek(s, r).trade_id, order.trade_id}
  /\ order.quantity # Peek(s, r).quantity
  /\ order.quantity <= Peek(s, r).quantity => Slot(s, r)' = Slot(s, r)
  /\ order.quantity > Peek(s, r).quantity
       => Slot(s, r)'[2] = Len(Level(s, Slot(s, r)[1])) + 1
  /\ BothBooks' /\ OnlyChanges(s, r)
  /\ \A t \in Sides, q \in Levels : Len(Level(t, q))' <= Len(Level(t, q)) + 1

LEMMA UpdateQuantityEffect ==
  ASSUME EngineInv, UpdateQuantity
  PROVE  \E s \in Sides, r \in Ids : Amends(s, r)
<1>1. BothBooks /\ HandlerTypeOK /\ pc = "update"
  BY DEF EngineInv, UpdateQuantity
<1>2. PICK s \in Sides, r \in Ids : s = order.order_type /\ r = order.system_id
  BY <1>1, InHand DEF Sides
<1>3. PICK e \in Entry : /\ e = EntryOf(order) /\ e.system_id = r
                         /\ e.price = order.price /\ e.quantity = order.quantity
                         /\ e.trade_id = order.trade_id
  BY <1>1, <1>2, InHand DEF EntryOf
<1>4. Rests(s, r) /\ Peek(s, r).price = e.price /\ Peek(s, r).quantity # e.quantity
  BY <1>2, <1>3, OrderViews DEF UpdateQuantity
<1>5. (s = "b") = IsBuy(order)
  BY <1>2 DEF IsBuy
<1>6. OnBook(IsBuy(order), Buy!UpdateOrderQuantity(e), Sell!UpdateOrderQuantity(e))
  BY <1>3 DEF UpdateQuantity
<1>7. OnBook(s = "b", Buy!UpdateOrderQuantity(e), Sell!UpdateOrderQuantity(e))
  BY <1>5, <1>6 DEF OnBook
<1>8. /\ BookOK(s)' /\ SameBook(Other(s))
      /\ Rests(s, r)' /\ Slot(s, r)'[1] = Slot(s, r)[1]
      /\ Peek(s, r)'.quantity = e.quantity
      /\ Peek(s, r)'.trade_id \in {Peek(s, r).trade_id, e.trade_id}
      /\ e.quantity <= Peek(s, r).quantity => Slot(s, r)' = Slot(s, r)
      /\ e.quantity > Peek(s, r).quantity
           => Slot(s, r)'[2] = Len(Level(s, Slot(s, r)[1])) + 1
      /\ \A i \in Ids \ {r} : SameSlot(s, i)
      /\ \A q \in Levels : Len(Level(s, q))' <= Len(Level(s, q)) + 1
  BY <1>1, <1>3, <1>4, <1>7, UpdateOnBook DEF BothBooks
<1>9. /\ BothBooks' /\ OnlyChanges(s, r)
      /\ \A q \in Levels : Level(Other(s), q)' = Level(Other(s), q)
  BY <1>1, <1>8, OneSideChanges
<1>10. \A t \in Sides, q \in Levels : Len(Level(t, q))' <= Len(Level(t, q)) + 1
  <2>1. \A t \in Sides : t = s \/ t = Other(s)
    BY DEF Other, Sides
  <2>2. \A t \in Sides, q \in Levels : Len(Level(t, q)) \in Nat
    BY <1>1, BookTypes DEF BothBooks
  <2> QED BY <1>8, <1>9, <2>1, <2>2
<1> QED BY <1>2, <1>3, <1>4, <1>8, <1>9, <1>10 DEF Amends

-----------------------------------------------------------------------------
(* Every step keeps the invariant: the handler's state, then the queues,   *)
(* then the ids.                                                           *)

LEMMA NoneIsNothing ==
  /\ \A o \in LOBOrder : o # None
  /\ \A x \in Change : x # None
  /\ \A c \in Levels \X (Nat \ {0}) : c # NoSlot
<1>1. \A c \in Levels \X (Nat \ {0}) : c # NoSlot
  BY DEF NoSlot, Buy!NoSlot, Levels
<1> QED BY <1>1, MatchingEngineAssumption

LEMMA AnnounceTypes ==
  ASSUME HandlerTypeOK, pc \in {"rest", "update", "delete"}, NEW k \in Kinds, NEW e \in Entry,
         Announce(k, e), order' = order, cursor' = cursor
  PROVE  HandlerTypeOK'
<1>1. pending' \in Change /\ pc' = "publish"
  BY DEF Announce, Change
<1> QED BY <1>1, NoneIsNothing DEF HandlerTypeOK

LEMMA TradeNextTypes ==
  ASSUME EngineInv, TradeNext
  PROVE  HandlerTypeOK'
<1>1. HandlerTypeOK /\ pc = "scan" /\ pc' = "told"
  BY DEF EngineInv, TradeNext
<1>2. PICK s \in Sides, r \in Ids, n \in Nat : TradesWith(s, r, n)
  BY TradeNextEffect
<1>3. Peek(s, r) \in Entry /\ Slot(s, r) \in Levels \X (Nat \ {0})
  <2>1. /\ Slot(s, r) = <<Slot(s, r)[1], Slot(s, r)[2]>>
        /\ Slot(s, r)[1] \in Levels /\ Slot(s, r)[2] \in Nat \ {0}
        /\ Peek(s, r) \in Entry
    BY <1>2, SlotLeads DEF EngineInv, BothBooks, TradesWith
  <2> QED BY <2>1
<1>4. pending' \in Change
  <2>1. [Peek(s, r) EXCEPT !.quantity = n] \in Entry
    BY <1>3 DEF Entry
  <2> QED BY <1>2, <2>1 DEF TradesWith, Change, Kinds
<1>5. order' \in LOBOrder
  <2>1. order \in LOBOrder /\ order.quantity \in Nat
    BY <1>1, InHand
  <2>2. order.quantity - n \in Nat
    BY <1>2, <2>1 DEF TradesWith
  <2> QED BY <1>2, <2>1, <2>2 DEF TradesWith, LOBOrder
<1>6. cursor' \in Levels \X (Nat \ {0})
  BY <1>2, <1>3 DEF TradesWith
<1> QED BY <1>1, <1>4, <1>5, <1>6, NoneIsNothing DEF HandlerTypeOK

LEMMA HandlerStep ==
  ASSUME EngineInv, [Next]_vars
  PROVE  HandlerTypeOK'
<1>0. HandlerTypeOK /\ BothBooks
  BY DEF EngineInv
<1>1. CASE StopMatching \/ UpdateIgnored \/ Undefined
  BY <1>0, <1>1 DEF StopMatching, UpdateIgnored, Undefined, OutOfBounds, HandlerTypeOK
<1>2. CASE EnterLevel
  <2>1. order.order_type \in Sides /\ pc = "match"
    BY <1>0, <1>2, InHand DEF EnterLevel, Sides
  <2>2. PICK t \in Sides : t = Other(order.order_type)
    BY DEF Other, Sides
  <2>3. /\ cursor' = <<Best(t), 1>> /\ pc' = "scan"
        /\ order' = order /\ pending' = pending
        /\ ~ (Best(t) >= MaxPrice)
    BY <1>2, <2>1, <2>2, OrderViews DEF EnterLevel, MayTrade, NoLevel
  <2>4. Best(t) \in Levels
    <3>1. Best(t) \in 0 .. MaxPrice /\ MaxPrice \in Nat \ {0}
      BY <1>0, BookTypes, BookConstants DEF BothBooks
    <3> QED BY <2>3, <3>1 DEF Levels
  <2>5. cursor' \in Levels \X (Nat \ {0})
    BY <2>3, <2>4
  <2> QED BY <1>0, <2>1, <2>3, <2>5, NoneIsNothing DEF HandlerTypeOK
<1>3. CASE TradeNext
  BY <1>3, TradeNextTypes
<1>4. CASE TellResting
  BY <1>0, <1>4 DEF TellResting, HandlerTypeOK
<1>5. CASE LeaveLevel
  BY <1>0, <1>5 DEF LeaveLevel, HandlerTypeOK
<1>6. CASE Settle
  <2>1. cursor[1] \in Levels /\ cursor[2] \in Nat \ {0} /\ pc = "settle"
    BY <1>0, <1>6, InHand DEF Settle
  <2>2. cursor[2] + 1 \in Nat \ {0}
    BY <2>1
  <2>3. <<cursor[1], cursor[2] + 1>> \in Levels \X (Nat \ {0})
    BY <2>1, <2>2
  <2>4. order' = order /\ pending' = pending
    BY <1>6 DEF Settle
  <2>5. CASE pc' = "match" /\ cursor' = NoSlot
    BY <1>0, <2>1, <2>4, <2>5 DEF HandlerTypeOK
  <2>6. CASE pc' = "scan" /\ cursor' = <<cursor[1], cursor[2] + 1>>
    BY <1>0, <2>1, <2>3, <2>4, <2>6, NoneIsNothing DEF HandlerTypeOK
  <2> QED BY <1>6, <2>5, <2>6 DEF Settle
<1>7. CASE RestOrder
  <2>1. EntryOf(order) \in Entry /\ "N" \in Kinds
    BY <1>0, <1>7, InHand DEF RestOrder, Kinds
  <2> QED BY <1>0, <1>7, <2>1, AnnounceTypes DEF RestOrder
<1>8. CASE UpdatePrice
  <2>1. order.order_type \in Sides /\ order.system_id \in Ids
    BY <1>0, <1>8, InHand DEF UpdatePrice, Sides
  <2>2. OwnEntry(order) \in Entry
    BY <1>0, <1>8, <2>1, OrderViews, SlotLeads DEF UpdatePrice, BothBooks
  <2>3. [OwnEntry(order) EXCEPT !.quantity = 0] \in Entry /\ "D" \in Kinds
    BY <2>2 DEF Entry, Kinds
  <2> QED BY <1>0, <1>8, <2>3, AnnounceTypes DEF UpdatePrice
<1>9. CASE UpdateQuantity
  <2>1. EntryOf(order) \in Entry /\ "U" \in Kinds
    BY <1>0, <1>9, InHand DEF UpdateQuantity, Kinds
  <2> QED BY <1>0, <1>9, <2>1, AnnounceTypes DEF UpdateQuantity
<1>10. CASE DeleteResting
  <2>1. EntryOf(order) \in Entry /\ "D" \in Kinds
    BY <1>0, <1>10, InHand DEF DeleteResting, Kinds
  <2> QED BY <1>0, <1>10, <2>1, AnnounceTypes DEF DeleteResting
<1>11. CASE Publish
  BY <1>0, <1>11 DEF Publish, HandlerTypeOK
<1>12. CASE Finish
  BY <1>0, <1>12 DEF Finish, HandlerTypeOK
<1>13. CASE Arrival
  <2>1. PICK r \in Requests, id \in Ids :
          ReadOrder([system_id |-> id, price |-> r.price, quantity |-> r.quantity,
                     trade_id |-> r.trade_id, order_type |-> r.order_type,
                     req_type |-> r.req_type])
    BY <1>13 DEF Arrival
  <2>2. r \in Request /\ Quantities \subseteq Nat
    BY MatchingEngineAssumption
  <2>3. order' \in LOBOrder /\ order'.req_type = r.req_type
    BY <2>1, <2>2 DEF ReadOrder, LOBOrder, Request
  <2>4. pc = "idle" /\ pc' \in {"match", "update", "delete"}
        /\ cursor' = cursor /\ pending' = pending
    BY <2>1, <2>2 DEF ReadOrder, Handler, Request
  <2> QED BY <1>0, <2>3, <2>4, NoneIsNothing DEF HandlerTypeOK
<1>14. CASE TakeAck \/ PollEmpty \/ Stopped \/ UNCHANGED vars
  BY <1>0, <1>14 DEF TakeAck, PollEmpty, Stopped, vars, HandlerTypeOK
<1> QED BY <1>1, <1>2, <1>3, <1>4, <1>5, <1>6, <1>7, <1>8, <1>9, <1>10, <1>11, <1>12,
      <1>13, <1>14 DEF Next, Engine

(* An acknowledgement is sent only when there is room for it.              *)
AcksTypeOK ==
  /\ acks \in [sent : Seq([system_id : Ids, price : Nat, quantity : Nat, status : Kinds]),
               read : Nat, lost : SUBSET Ids]
  /\ Len(acks.sent) - acks.read \in 0 .. AckSlots

LEMMA AckTypes ==
  ASSUME AcksTypeOK, NEW e, e.system_id \in Ids, NEW price \in Nat, NEW status \in Kinds,
         NEW n \in Nat, acks' = Ack(acks, e, price, status, n)
  PROVE  AcksTypeOK'
<1> DEFINE m == [system_id |-> e.system_id, price |-> price, quantity |-> n, status |-> status]
           Ms == [system_id : Ids, price : Nat, quantity : Nat, status : Kinds]
<1>0. /\ acks.sent \in Seq(Ms) /\ Len(acks.sent) \in Nat /\ acks.read \in Nat
      /\ acks.lost \subseteq Ids /\ m \in Ms /\ AckSlots \in Nat
      /\ acks = [sent |-> acks.sent, read |-> acks.read, lost |-> acks.lost]
  BY MatchingEngineAssumption DEF AcksTypeOK
<1>1. CASE acks' = acks
  BY <1>1 DEF AcksTypeOK
<1>2. CASE /\ Len(acks.sent) - acks.read < AckSlots
           /\ acks' = [acks EXCEPT !.sent = Append(@, m)]
  <2>1. /\ acks'.sent = Append(acks.sent, m)
        /\ acks'.read = acks.read /\ acks'.lost = acks.lost
        /\ acks' = [sent |-> acks'.sent, read |-> acks'.read, lost |-> acks'.lost]
    BY <1>0, <1>2
  <2> HIDE DEF m, Ms
  <2>2. acks'.sent \in Seq(Ms) /\ Len(acks'.sent) = Len(acks.sent) + 1
    BY <1>0, <2>1
  <2>3. Len(acks'.sent) - acks'.read \in 0 .. AckSlots
    <3>1. PICK k \in Nat, d \in Nat : k = Len(acks.sent) /\ d = acks.read
      BY Zenon, <1>0
    <3>2. k - d \in 0 .. AckSlots
      BY Zenon, <3>1 DEF AcksTypeOK
    <3>3. Len(acks'.sent) = k + 1 /\ acks'.read = d /\ k - d < AckSlots /\ AckSlots \in Nat
      BY Zenon, <1>0, <1>2, <2>1, <2>2, <3>1
    <3>4. PICK slots \in Nat : slots = AckSlots
      BY Zenon, <3>3
    <3>5. k \in Nat /\ d \in Nat /\ slots \in Nat /\ k - d \in 0 .. slots /\ k - d < slots
      BY ONLY Zenon, <3>1, <3>2, <3>3, <3>4
    <3>6. (k + 1) - d \in 0 .. slots
      BY ONLY <3>5
    <3> QED BY ONLY <3>3, <3>4, <3>6
  <2> QED BY <1>0, <2>1, <2>2, <2>3 DEF AcksTypeOK, Ms
<1>3. CASE acks' = [acks EXCEPT !.lost = @ \cup {e.system_id}]
  <2>1. /\ acks'.sent = acks.sent /\ acks'.read = acks.read
        /\ acks'.lost = acks.lost \cup {e.system_id}
        /\ acks' = [sent |-> acks'.sent, read |-> acks'.read, lost |-> acks'.lost]
    BY <1>0, <1>3
  <2> HIDE DEF m, Ms
  <2> QED BY <1>0, <2>1 DEF AcksTypeOK, Ms
<1> QED BY <1>1, <1>2, <1>3 DEF Ack

LEMMA QueuesStep ==
  ASSUME EngineInv, [Next]_vars
  PROVE  QueuesTypeOK'
<1>0. HandlerTypeOK /\ BothBooks /\ QueuesTypeOK /\ AcksTypeOK
  BY DEF EngineInv, QueuesTypeOK, AcksTypeOK
<1>1. ASSUME UNCHANGED <<outVars, envVars>>
      PROVE  QueuesTypeOK'
  BY <1>0, <1>1 DEF outVars, envVars, QueuesTypeOK
<1>2. ASSUME AcksTypeOK', UNCHANGED <<feed, envVars>>
      PROVE  QueuesTypeOK'
  BY <1>0, <1>2 DEF envVars, QueuesTypeOK, AcksTypeOK
<1>3. CASE \/ StopMatching \/ EnterLevel \/ LeaveLevel \/ Settle \/ RestOrder
           \/ UpdateIgnored \/ UpdatePrice \/ UpdateQuantity \/ DeleteResting
           \/ Finish \/ Undefined \/ PollEmpty \/ Stopped \/ UNCHANGED vars
  BY <1>1, <1>3 DEF StopMatching, EnterLevel, LeaveLevel, Settle, RestOrder, UpdateIgnored,
    UpdatePrice, UpdateQuantity, DeleteResting, Finish, Undefined, PollEmpty, Stopped, vars
<1>4. CASE TradeNext
  <2>1. PICK s \in Sides, r \in Ids, n \in Nat : acks' = Ack(acks, order, cursor[1], "T", n)
    BY <1>4, TradeNextEffect DEF TradesWith
  <2>2. order.system_id \in Ids /\ cursor[1] \in Nat /\ "T" \in Kinds
    BY <1>0, <1>4, InHand DEF TradeNext, Kinds, Levels
  <2> QED BY <1>0, <1>2, <1>4, <2>1, <2>2, AckTypes DEF TradeNext
<1>5. CASE TellResting
  <2>1. /\ pending.entry.system_id \in Ids /\ cursor[1] \in Nat /\ "T" \in Kinds
        /\ pending.entry.quantity \in Nat
    BY <1>0, <1>5, InHand DEF TellResting, Kinds, Levels
  <2> QED BY <1>0, <1>2, <1>5, <2>1, AckTypes DEF TellResting
<1>6. CASE Publish
  <2> DEFINE e == pending.entry
             m == [system_id |-> e.system_id, price |-> e.price,
                   quantity |-> e.quantity, type |-> pending.type]
             Ms == [system_id : Ids, price : Prices, quantity : Nat, type : Kinds]
  <2>1. /\ e.system_id \in Ids /\ e.price \in Prices /\ e.quantity \in Nat
        /\ pending.type \in Kinds /\ PriceIndex[e.price] \in Nat
    BY <1>0, <1>6, InHand DEF Publish
  <2>2. AcksTypeOK'
    BY <1>0, <1>6, <2>1, AckTypes DEF Publish
  <2>3. m \in Ms /\ feed' = Append(feed, m) /\ Len(feed) < FeedSlots
    BY <1>6, <2>1 DEF Publish
  <2>4. feed \in Seq(Ms) /\ FeedSlots \in Nat
    BY <1>0, MatchingEngineAssumption DEF QueuesTypeOK
  <2>5. UNCHANGED envVars
    BY <1>6 DEF Publish
  <2> HIDE DEF m, Ms
  <2>6. feed' \in Seq(Ms) /\ Len(feed') <= FeedSlots
    BY <2>3, <2>4
  <2> QED BY <1>0, <2>2, <2>5, <2>6 DEF QueuesTypeOK, AcksTypeOK, envVars, Ms
<1>7. CASE Arrival
  <2>1. PICK id \in Ids : nextId' = IF id >= nextId THEN id + 1 ELSE nextId
    BY <1>7 DEF Arrival
  <2>2. reads < MaxRequests /\ reads' = reads + 1 /\ UNCHANGED outVars
    BY <1>7 DEF Arrival, ReadOrder
  <2>3. nextId' \in 0 .. MaxOrders /\ reads' \in 0 .. MaxRequests
    BY <1>0, <2>1, <2>2, MatchingEngineAssumption DEF QueuesTypeOK, Ids
  <2> QED BY <1>0, <2>2, <2>3 DEF QueuesTypeOK, outVars
<1>8. CASE TakeAck
  <2>1. /\ acks.read < Len(acks.sent) /\ acks' = [acks EXCEPT !.read = @ + 1]
        /\ UNCHANGED <<feed, envVars>>
    BY <1>8 DEF TakeAck
  <2>2. /\ acks.read \in Nat /\ Len(acks.sent) \in Nat /\ AckSlots \in Nat
        /\ acks = [sent |-> acks.sent, read |-> acks.read, lost |-> acks.lost]
    BY <1>0, MatchingEngineAssumption DEF AcksTypeOK
  <2>3. /\ acks'.sent = acks.sent /\ acks'.read = acks.read + 1 /\ acks'.lost = acks.lost
        /\ acks' = [sent |-> acks'.sent, read |-> acks'.read, lost |-> acks'.lost]
    BY <2>1, <2>2
  <2>4. Len(acks'.sent) - acks'.read \in 0 .. AckSlots
    <3>1. PICK n \in Nat, d \in Nat : n = Len(acks.sent) /\ d = acks.read
      BY Zenon, <2>2
    <3>2. n - d \in 0 .. AckSlots
      BY Zenon, <1>0, <3>1 DEF AcksTypeOK
    <3>3. Len(acks'.sent) = n /\ acks'.read = d + 1 /\ d < n /\ AckSlots \in Nat
      BY Zenon, <2>1, <2>2, <2>3, <3>1
    <3>4. PICK slots \in Nat : slots = AckSlots
      BY Zenon, <3>3
    <3>5. n \in Nat /\ d \in Nat /\ slots \in Nat /\ n - d \in 0 .. slots /\ d < n
      BY ONLY Zenon, <3>1, <3>2, <3>3, <3>4
    <3>6. n - (d + 1) \in 0 .. slots
      BY ONLY <3>5
    <3> QED BY ONLY Zenon, <3>3, <3>4, <3>6
  <2>5. AcksTypeOK'
    <3>1. PICK d \in Nat : d = acks.read
      BY Zenon, <2>2
    <3>2. acks'.read \in Nat
      BY <2>3, <3>1
    <3>3. acks.sent \in Seq([system_id : Ids, price : Nat, quantity : Nat, status : Kinds])
          /\ acks.lost \in SUBSET Ids
      BY Zenon, <1>0 DEF AcksTypeOK
    <3>4. acks'.sent \in Seq([system_id : Ids, price : Nat, quantity : Nat, status : Kinds])
          /\ acks'.lost \in SUBSET Ids
      BY Zenon, <2>3, <3>3
    <3> QED BY Zenon, <2>3, <2>4, <3>2, <3>4 DEF AcksTypeOK
  <2> QED BY <1>2, <2>1, <2>5
<1> QED BY <1>3, <1>4, <1>5, <1>6, <1>7, <1>8 DEF Next, Engine

(* The orders that rest after a step that names one order.                 *)
LEMMA RestsAfter ==
  ASSUME NEW s \in Sides, NEW r \in Ids, OnlyChanges(s, r), NEW t \in Sides, NEW i \in Ids,
         Rests(t, i)'
  PROVE  Rests(t, i) \/ (t = s /\ i = r)
BY DEF OnlyChanges, SameSlot, Rests

LEMMA IdsStep ==
  ASSUME EngineInv, [Next]_vars
  PROVE  IdsHandedOut' /\ IncomingAway' /\ CursorInLevel'
<1>0. /\ HandlerTypeOK /\ BothBooks /\ QueuesTypeOK
      /\ IdsHandedOut /\ IncomingAway /\ CursorInLevel
  BY DEF EngineInv
<1>1. ASSUME UNCHANGED books
      PROVE  /\ \A s \in Sides, i \in Ids : Rests(s, i)' = Rests(s, i)
             /\ \A s \in Sides, q \in Levels : Level(s, q)' = Level(s, q)
  BY <1>0, <1>1, NoBookChanges DEF SameSlot, Rests
<1>2. ASSUME \A s \in Sides, i \in Ids : Rests(s, i)' => Rests(s, i), nextId' = nextId,
             order' # None => order # None /\ order'.system_id = order.system_id
      PROVE  IdsHandedOut'
  BY <1>0, <1>2 DEF IdsHandedOut, Sides
<1>3. pc # "idle" => order # None /\ order.system_id \in Ids /\ order.system_id < nextId
  BY <1>0, InHand DEF HandlerTypeOK, IdsHandedOut
<1>4. CASE \/ StopMatching \/ EnterLevel \/ LeaveLevel \/ UpdateIgnored \/ Finish
           \/ Undefined \/ Publish
  <2>1. /\ UNCHANGED <<books, nextId>> /\ order' \in {order, None} /\ pc # "idle"
        /\ pc' \notin {"told", "settle", "publish"}
        /\ pc' \in {"match", "scan", "rest"} =>
             order' = order /\ (Matching \/ (pc = "publish" /\ pending.type = "D"))
    BY <1>4 DEF StopMatching, EnterLevel, LeaveLevel, UpdateIgnored, Finish, Undefined,
      OutOfBounds, Publish, envVars, Matching
  <2>2. \A s \in Sides, i \in Ids : Rests(s, i)' = Rests(s, i)
    BY <1>1, <2>1
  <2>3. IncomingAway'
    BY <1>0, <2>1, <2>2 DEF IncomingAway, Matching
  <2>4. CursorInLevel'
    BY <2>1 DEF CursorInLevel
  <2> QED BY <1>2, <1>3, <2>1, <2>2, <2>3, <2>4
<1>5. CASE TradeNext
  <2>1. PICK s \in Sides, r \in Ids, n \in Nat : TradesWith(s, r, n)
    BY <1>0, <1>5, TradeNextEffect
  <2>2. /\ pc = "scan" /\ pc' = "told" /\ nextId' = nextId
        /\ order \in LOBOrder /\ order' = [order EXCEPT !.quantity = @ - n]
    BY <1>0, <1>5, <2>1, InHand DEF TradeNext, envVars, TradesWith
  <2>3. order'.system_id = order.system_id /\ order'.order_type = order.order_type
    BY <2>2 DEF LOBOrder
  <2>4. \A t \in Sides, i \in Ids : Rests(t, i)' => Rests(t, i)
    <3>1. Rests(s, r) /\ OnlyChanges(s, r)
      BY <2>1 DEF TradesWith
    <3> QED BY <3>1, RestsAfter
  <2>5. IncomingAway'
    BY <1>0, <2>2, <2>3, <2>4 DEF IncomingAway, Matching
  <2>6. CursorInLevel'
    <3>1. /\ cursor' = <<Slot(s, r)[1], Slot(s, r)[2]>> /\ Slot(s, r)[1] \in Levels
          /\ Slot(s, r)[2] <= Len(Level(s, Slot(s, r)[1]))
      BY <1>0, <2>1, SlotLeads DEF TradesWith, BothBooks
    <3>2. PICK p \in Levels : p = Slot(s, r)[1]
      BY <3>1
    <3>3. Len(Level(s, p))' = Len(Level(s, p)) /\ s = Other(order.order_type)
      BY <2>1 DEF TradesWith
    <3>4. cursor'[1] = p /\ cursor'[2] <= Len(Level(s, p))'
      BY <3>1, <3>2, <3>3
    <3>5. s = Other(order.order_type)'
      BY <2>3, <3>3 DEF Other
    <3> QED BY <3>4, <3>5 DEF CursorInLevel
  <2> QED BY <1>2, <1>3, <2>2, <2>3, <2>4, <2>5, <2>6
<1>6. CASE TellResting
  <2>1. /\ UNCHANGED <<books, nextId, order, cursor>> /\ pc = "told" /\ pc' = "settle"
    BY <1>6 DEF TellResting, envVars
  <2>2. /\ \A s \in Sides, i \in Ids : Rests(s, i)' = Rests(s, i)
        /\ \A s \in Sides, q \in Levels : Level(s, q)' = Level(s, q)
    BY <1>1, <2>1
  <2>3. IncomingAway'
    BY <1>0, <2>1, <2>2 DEF IncomingAway, Matching
  <2>4. CursorInLevel'
    BY <1>0, <2>1, <2>2 DEF CursorInLevel
  <2> QED BY <1>2, <2>1, <2>2, <2>3, <2>4
<1>7. CASE Settle
  <2>1. /\ pc = "settle" /\ pc' \in {"match", "scan"} /\ UNCHANGED <<nextId, order>>
    BY <1>7 DEF Settle, envVars
  <2>2. \A t \in Sides, i \in Ids : Rests(t, i)' => Rests(t, i)
    <3>1. CASE UNCHANGED books
      BY <1>1, <3>1
    <3>2. CASE \E s \in Sides, r \in Ids : Forgets(s, r)
      BY <3>2, RestsAfter DEF Forgets
    <3> QED BY <1>0, <1>7, <3>1, <3>2, SettleEffect
  <2>3. IncomingAway'
    BY <1>0, <2>1, <2>2 DEF IncomingAway, Matching
  <2>4. CursorInLevel'
    BY <2>1 DEF CursorInLevel
  <2> QED BY <1>2, <2>1, <2>2, <2>3, <2>4
<1>8. CASE RestOrder
  <2>1. PICK s \in Sides, r \in Ids : Stores(s, r)
    BY <1>0, <1>8, RestOrderEffect
  <2>2. /\ pc = "rest" /\ pc' = "publish" /\ pending'.type = "N" /\ UNCHANGED <<nextId, order>>
    BY <1>8 DEF RestOrder, Announce, envVars
  <2>3. s = order.order_type /\ r = order.system_id /\ OnlyChanges(s, r)
    BY <2>1 DEF Stores
  <2>4. \A t \in Sides : ~ Rests(t, r)
    BY <1>0, <2>2, <2>3 DEF IncomingAway, Matching
  <2>5. \A t \in Sides, i \in Ids : Rests(t, i)' => Rests(t, i) \/ (t = s /\ i = r)
    BY <2>3, RestsAfter
  <2>6. IdsHandedOut'
    <3>1. \A t \in Sides, i \in Ids : Rests(t, i)' => i < nextId'
      BY <1>0, <1>3, <2>2, <2>3, <2>5 DEF IdsHandedOut
    <3>2. \A i \in Ids : ~ (Rests("b", i)' /\ Rests("s", i)')
      BY <1>0, <2>4, <2>5 DEF IdsHandedOut, Sides
    <3>3. order'.system_id < nextId'
      BY <1>3, <2>2
    <3> QED BY <3>1, <3>2, <3>3 DEF IdsHandedOut
  <2> QED BY <2>2, <2>6 DEF IncomingAway, Matching, CursorInLevel
<1>9. CASE UpdatePrice \/ DeleteResting
  <2>1. PICK s \in Sides, r \in Ids :
          /\ s = order.order_type /\ r = order.system_id /\ Forgets(s, r)
    BY <1>0, <1>9, OwnDeletionEffect
  <2>2. /\ pc # "idle" /\ pc' = "publish" /\ UNCHANGED <<nextId, order>>
    BY <1>9 DEF UpdatePrice, DeleteResting, Announce, envVars
  <2>3. \A t \in Sides, i \in Ids : Rests(t, i)' => Rests(t, i) /\ ~ (t = s /\ i = r)
    <3>1. OnlyChanges(s, r) /\ Rests(s, r) /\ ~ Rests(s, r)'
      BY <2>1 DEF Forgets, Rests
    <3> QED BY <3>1, RestsAfter
  <2>4. \A t \in Sides : ~ Rests(t, r)'
    <3>1. Rests(s, r)
      BY <2>1 DEF Forgets
    <3> QED BY <1>0, <2>3, <3>1 DEF IdsHandedOut, Sides
  <2>5. IncomingAway'
    BY <2>1, <2>2, <2>4 DEF IncomingAway
  <2> QED BY <1>2, <1>3, <2>2, <2>3, <2>5 DEF CursorInLevel
<1>10. CASE UpdateQuantity
  <2>1. PICK s \in Sides, r \in Ids : Amends(s, r)
    BY <1>0, <1>10, UpdateQuantityEffect
  <2>2. pc' = "publish" /\ pending'.type = "U" /\ UNCHANGED <<nextId, order>>
    BY <1>10 DEF UpdateQuantity, Announce, envVars
  <2>3. \A t \in Sides, i \in Ids : Rests(t, i)' => Rests(t, i)
    <3>1. OnlyChanges(s, r) /\ Rests(s, r)
      BY <2>1 DEF Amends
    <3> QED BY <3>1, RestsAfter
  <2> QED BY <1>2, <2>2, <2>3 DEF IncomingAway, Matching, CursorInLevel
<1>11. CASE Arrival
  <2>1. PICK q \in Requests, id \in Ids :
          LET req == [system_id |-> id, price |-> q.price, quantity |-> q.quantity,
                      trade_id |-> q.trade_id, order_type |-> q.order_type,
                      req_type |-> q.req_type]
          IN  /\ q.req_type = "c" => id >= nextId
              /\ ReadOrder(req)
              /\ nextId' = IF id >= nextId THEN id + 1 ELSE nextId
    BY <1>11 DEF Arrival
  <2>2. /\ order'.system_id = id /\ pc' \in {"match", "update", "delete"}
        /\ pc' = "match" => id >= nextId
        /\ UNCHANGED books
    <3>1. q.req_type \in {"c", "u", "d"}
      BY MatchingEngineAssumption DEF Request
    <3> QED BY <2>1, <3>1 DEF ReadOrder, Handler
  <2>3. nextId \in Nat /\ id \in Nat
    BY <1>0, MatchingEngineAssumption DEF QueuesTypeOK, Ids
  <2>4. id < nextId' /\ nextId <= nextId' /\ nextId' \in Nat
    BY <2>1, <2>3
  <2>5. \A s \in Sides, i \in Ids : Rests(s, i)' = Rests(s, i)
    BY <1>1, <2>2
  <2>6. IdsHandedOut'
    <3>1. \A s \in Sides, i \in Ids : Rests(s, i)' => i < nextId'
      <4>1. \A i \in Ids : i \in Nat
        BY MatchingEngineAssumption DEF Ids
      <4> QED BY <1>0, <2>3, <2>4, <2>5, <4>1 DEF IdsHandedOut
    <3>2. \A i \in Ids : ~ (Rests("b", i)' /\ Rests("s", i)')
      BY <1>0, <2>5 DEF IdsHandedOut, Sides
    <3> QED BY <2>2, <2>4, <3>1, <3>2 DEF IdsHandedOut
  <2>7. IncomingAway'
    <3>1. \A s \in Sides : ~ (id >= nextId /\ Rests(s, id))
      BY <1>0, <2>3 DEF IdsHandedOut
    <3> QED BY <2>2, <2>5, <3>1 DEF IncomingAway, Matching
  <2> QED BY <2>2, <2>6, <2>7 DEF CursorInLevel
<1>12. CASE TakeAck \/ PollEmpty \/ Stopped \/ UNCHANGED vars
  <2>1. UNCHANGED <<books, pc, order, cursor, pending, nextId>>
    BY <1>12 DEF TakeAck, PollEmpty, Stopped, vars, envVars
  <2>2. /\ \A s \in Sides, i \in Ids : Rests(s, i)' = Rests(s, i)
        /\ \A s \in Sides, q \in Levels : Level(s, q)' = Level(s, q)
    BY <1>1, <2>1
  <2>3. IncomingAway'
    BY <1>0, <2>1, <2>2 DEF IncomingAway, Matching
  <2>4. CursorInLevel'
    BY <1>0, <2>1, <2>2 DEF CursorInLevel
  <2> QED BY <1>2, <2>1, <2>2, <2>3, <2>4
<1> QED BY <1>4, <1>5, <1>6, <1>7, <1>8, <1>9, <1>10, <1>11, <1>12 DEF Next, Engine

LEMMA BooksStep ==
  ASSUME EngineInv, [Next]_vars
  PROVE  BothBooks'
<1>0. BothBooks
  BY DEF EngineInv
<1>1. ASSUME UNCHANGED books
      PROVE  BothBooks'
  BY <1>0, <1>1, NoBookChanges
<1>2. CASE \/ StopMatching \/ EnterLevel \/ TellResting \/ LeaveLevel \/ UpdateIgnored
           \/ Publish \/ Finish \/ Undefined \/ Arrival \/ TakeAck \/ PollEmpty \/ Stopped
           \/ UNCHANGED vars
  BY <1>1, <1>2 DEF StopMatching, EnterLevel, TellResting, LeaveLevel, UpdateIgnored,
    Publish, Finish, Undefined, Arrival, ReadOrder, TakeAck, PollEmpty, Stopped, vars
<1>3. CASE TradeNext
  BY <1>3, TradeNextEffect DEF TradesWith
<1>4. CASE Settle
  BY <1>1, <1>4, SettleEffect DEF Forgets
<1>5. CASE RestOrder
  BY <1>5, RestOrderEffect DEF Stores
<1>6. CASE UpdatePrice \/ DeleteResting
  BY <1>6, OwnDeletionEffect DEF Forgets
<1>7. CASE UpdateQuantity
  BY <1>7, UpdateQuantityEffect DEF Amends
<1> QED BY <1>2, <1>3, <1>4, <1>5, <1>6, <1>7 DEF Next, Engine

LEMMA EngineStep ==
  ASSUME EngineInv, [Next]_vars
  PROVE  EngineInv'
BY BooksStep, HandlerStep, QueuesStep, IdsStep DEF EngineInv

LEMMA EngineInit ==
  ASSUME Init
  PROVE  EngineInv
<1>1. BothBooks
  <2>1. BuyBook!BookInv
    <3>1. BuyBook!BookInit
      BY DEF Init, Buy!BookInit, BuyBook!BookInit, Buy!Sentinel, BuyBook!Sentinel,
        Buy!Levels, BuyBook!Levels, Buy!NoSlot, BuyBook!NoSlot
    <3> QED BY <3>1, BookConstants, BuyBook!BookInitInv
        DEF BuyBook!OrderBookAssumption, BuyBook!IsFiniteSet, IsFiniteSet
  <2>2. SellBook!BookInv
    <3>1. SellBook!BookInit
      BY DEF Init, Sell!BookInit, SellBook!BookInit, Sell!Sentinel, SellBook!Sentinel,
        Sell!Levels, SellBook!Levels, Sell!NoSlot, SellBook!NoSlot
    <3> QED BY <3>1, BookConstants, SellBook!BookInitInv
        DEF SellBook!OrderBookAssumption, SellBook!IsFiniteSet, IsFiniteSet
  <2> QED BY <2>1, <2>2 DEF BothBooks, BookOK, Sides
<1>2. HandlerTypeOK
  BY DEF Init, HandlerTypeOK
<1>3. QueuesTypeOK
  BY MatchingEngineAssumption DEF Init, QueuesTypeOK
<1>4. \A s \in Sides, i \in Ids : ~ Rests(s, i)
  BY DEF Init, Buy!BookInit, Sell!BookInit, Buy!NoSlot, Sell!NoSlot, NoSlot, Rests, Slot
<1>5. IdsHandedOut /\ IncomingAway /\ CursorInLevel
  BY <1>4 DEF Init, IdsHandedOut, IncomingAway, CursorInLevel, Matching, Sides
<1> QED BY <1>1, <1>2, <1>3, <1>5 DEF EngineInv

LEMMA EngineInvariant == Spec => []EngineInv
<1>1. Init => EngineInv
  BY EngineInit
<1>2. EngineInv /\ [Next]_vars => EngineInv'
  BY EngineStep
<1> QED BY <1>1, <1>2, PTL DEF Spec

-----------------------------------------------------------------------------
(* What follows of the invariant alone. *)

(* What OrderBookProofs keeps of a book is what the engine asks of it.     *)
LEMMA BooksKept ==
  ASSUME BothBooks
  PROVE  Buy!BookTypeOK /\ Sell!BookTypeOK /\ BooksConsistent
<1>1. BuyBook!BookInv /\ SellBook!BookInv
  BY DEF BothBooks, BookOK, Sides
<1>2. Buy!BookTypeOK
  <2>1. BuyBook!OrderBookAssumption
    BY Zenon, BookConstants DEF BuyBook!OrderBookAssumption, BuyBook!IsFiniteSet, IsFiniteSet
  <2>2. BuyBook!BookTypeOK
    BY <1>1, <2>1, BuyBook!TypedByCounts DEF BuyBook!BookInv
  <2> QED
    BY <2>2 DEF BuyBook!BookTypeOK, Buy!BookTypeOK, BuyBook!Levels, Buy!Levels, BuyBook!Entry, Buy!Entry,
      BuyBook!NoSlot, Buy!NoSlot
<1>3. Sell!BookTypeOK
  <2>1. SellBook!OrderBookAssumption
    BY Zenon, BookConstants DEF SellBook!OrderBookAssumption, SellBook!IsFiniteSet, IsFiniteSet
  <2>2. SellBook!BookTypeOK
    BY <1>1, <2>1, SellBook!TypedByCounts DEF SellBook!BookInv
  <2> QED
    BY <2>2 DEF SellBook!BookTypeOK, Sell!BookTypeOK, SellBook!Levels, Sell!Levels, SellBook!Entry, Sell!Entry,
      SellBook!NoSlot, Sell!NoSlot
<1>4. Buy!IndexConsistent
  BY <1>1 DEF BuyBook!BookInv, BuyBook!IndexConsistent, Buy!IndexConsistent,
    BuyBook!SlotsLeadHome, Buy!SlotsLeadHome, BuyBook!EntriesInTheirLevel,
    Buy!EntriesInTheirLevel, BuyBook!LiveEntriesIndexed, Buy!LiveEntriesIndexed,
    BuyBook!LiveColumns, Buy!LiveColumns, BuyBook!Resting, Buy!Resting,
    BuyBook!PeekOrder, Buy!PeekOrder, BuyBook!EntryAt, Buy!EntryAt,
    BuyBook!Levels, Buy!Levels, BuyBook!NoSlot, Buy!NoSlot
<1>5. Sell!IndexConsistent
  BY <1>1 DEF SellBook!BookInv, SellBook!IndexConsistent, Sell!IndexConsistent,
    SellBook!SlotsLeadHome, Sell!SlotsLeadHome, SellBook!EntriesInTheirLevel,
    Sell!EntriesInTheirLevel, SellBook!LiveEntriesIndexed, Sell!LiveEntriesIndexed,
    SellBook!LiveColumns, Sell!LiveColumns, SellBook!Resting, Sell!Resting,
    SellBook!PeekOrder, Sell!PeekOrder, SellBook!EntryAt, Sell!EntryAt,
    SellBook!Levels, Sell!Levels, SellBook!NoSlot, Sell!NoSlot
<1>6. Buy!CountsMatchLUT
  BY <1>1 DEF BuyBook!BookInv, BuyBook!CountsMatchLUT, Buy!CountsMatchLUT,
    BuyBook!Levels, Buy!Levels, BuyBook!Cardinality, Buy!Cardinality
<1>7. Sell!CountsMatchLUT
  BY <1>1 DEF SellBook!BookInv, SellBook!CountsMatchLUT, Sell!CountsMatchLUT,
    SellBook!Levels, Sell!Levels, SellBook!Cardinality, Sell!Cardinality
<1> QED BY <1>2, <1>3, <1>4, <1>5, <1>6, <1>7 DEF BooksConsistent

(* Every variable of the engine has its type: the handler holds a request, *)
(* a change to publish and a place in a level exactly where readOrder and  *)
(* aggresiveMatch have them, and no queue holds more than its size.        *)
THEOREM EngineTypeCorrect == Spec => []EngineTypeOK
<1>1. EngineInv => EngineTypeOK
  BY BooksKept DEF EngineInv, EngineTypeOK
<1> QED BY <1>1, EngineInvariant, PTL

(* Both books stay consistent whatever arrives and however matching,       *)
(* amendment and deletion follow one another: the look-up tables lead to   *)
(* the orders and active_counts is the number of slots in each level.      *)
THEOREM EngineBooksConsistent == Spec => []BooksConsistent
<1>1. EngineInv => BooksConsistent
  BY BooksKept DEF EngineInv
<1> QED BY <1>1, EngineInvariant, PTL

-----------------------------------------------------------------------------
(* The market data.                                                        *)

(* The quantity announced is that of the last message about the order.     *)
LEMMA AnnouncedIsLast ==
  ASSUME NEW i, feed \in Seq([system_id : Ids, price : Prices, quantity : Nat, type : Kinds])
  PROVE  /\ \A n \in DOMAIN feed : IsLastMessage(n, i) =>
              Announced(i) = IF feed[n].type = "D" THEN 0 ELSE feed[n].quantity
         /\ ~ (\E n \in DOMAIN feed : IsLastMessage(n, i)) => Announced(i) = 0
<1>1. ~ (\E n \in DOMAIN feed : IsLastMessage(n, i)) => Announced(i) = 0
  BY DEF Announced
<1>2. ASSUME NEW n \in DOMAIN feed, IsLastMessage(n, i)
      PROVE  Announced(i) = IF feed[n].type = "D" THEN 0 ELSE feed[n].quantity
  <2>1. \A k \in DOMAIN feed : IsLastMessage(k, i) => k = n
    <3>1. DOMAIN feed \subseteq Int
      OBVIOUS
    <3> QED BY <1>2, <3>1 DEF IsLastMessage
  <2>2. (CHOOSE k \in DOMAIN feed : IsLastMessage(k, i)) = n
    BY <1>2, <2>1
  <2>3. CASE feed[n].type = "D"
    BY <2>1, <2>3 DEF Announced
  <2>4. CASE feed[n].type # "D"
    <3>1. \E k \in DOMAIN feed : IsLastMessage(k, i) /\ feed[k].type # "D"
      BY <1>2, <2>4
    <3> QED BY <2>2, <2>4, <3>1 DEF Announced
  <2> QED BY <2>3, <2>4
<1> QED BY <1>1, <1>2

(* A message changes what is announced of its own order only.              *)
LEMMA AnnouncedAfter ==
  ASSUME feed \in Seq([system_id : Ids, price : Prices, quantity : Nat, type : Kinds]),
         NEW m \in [system_id : Ids, price : Prices, quantity : Nat, type : Kinds],
         feed' = Append(feed, m), NEW i
  PROVE  Announced(i)' = IF i = m.system_id THEN IF m.type = "D" THEN 0 ELSE m.quantity
                                            ELSE Announced(i)
<1> DEFINE Ms == [system_id : Ids, price : Prices, quantity : Nat, type : Kinds]
<1>1. PICK k : k = Len(feed) + 1
  OBVIOUS
<1>2. /\ feed' \in Seq(Ms) /\ feed \in Seq(Ms) /\ Len(feed) \in Nat
      /\ DOMAIN feed' = 1 .. k /\ DOMAIN feed = 1 .. k - 1
      /\ k \in Nat /\ feed'[k] = m /\ \A n \in 1 .. k - 1 : feed'[n] = feed[n]
  BY <1>1
<1>3. /\ \A n \in DOMAIN feed' : IsLastMessage(n, i)' =>
           Announced(i)' = IF feed'[n].type = "D" THEN 0 ELSE feed'[n].quantity
      /\ ~ (\E n \in DOMAIN feed' : IsLastMessage(n, i)') => Announced(i)' = 0
  <2>1. ~ (\E n \in DOMAIN feed' : IsLastMessage(n, i)') => Announced(i)' = 0
    BY DEF Announced
  <2>2. ASSUME NEW n \in DOMAIN feed', IsLastMessage(n, i)'
        PROVE  Announced(i)' = IF feed'[n].type = "D" THEN 0 ELSE feed'[n].quantity
    <3>1. \A c \in DOMAIN feed' : IsLastMessage(c, i)' => c = n
      BY <1>2, <2>2 DEF IsLastMessage
    <3>2. (CHOOSE c \in DOMAIN feed' : IsLastMessage(c, i)') = n
      BY <2>2, <3>1
    <3>3. CASE feed'[n].type = "D"
      BY <3>1, <3>3 DEF Announced
    <3>4. CASE feed'[n].type # "D"
      <4>1. \E c \in DOMAIN feed' : IsLastMessage(c, i)' /\ feed'[c].type # "D"
        BY <2>2, <3>4
      <4> QED BY <3>2, <3>4, <4>1 DEF Announced
    <3> QED BY <3>3, <3>4
  <2> QED BY <2>1, <2>2
<1>4. CASE i = m.system_id
  <2>1. k \in DOMAIN feed' /\ \A n \in DOMAIN feed' : n <= k
    BY <1>1, <1>2
  <2>2. IsLastMessage(k, i)'
    BY <1>2, <1>4, <2>1 DEF IsLastMessage
  <2> QED BY <1>2, <1>3, <1>4, <2>1, <2>2
<1>5. CASE i # m.system_id
  <2>1. ~ IsLastMessage(k, i)'
    BY <1>2, <1>5 DEF IsLastMessage
  <2>2. ASSUME NEW n \in 1 .. k - 1
        PROVE  IsLastMessage(n, i)' <=> IsLastMessage(n, i)
    <3>1. \A c \in 1 .. k : c = k \/ c \in 1 .. k - 1
      BY <1>2
    <3>2. 1 .. k - 1 \subseteq 1 .. k
      BY <1>2
    <3>3. \A c \in 1 .. k : feed'[c].system_id = i <=> c \in 1 .. k - 1 /\ feed[c].system_id = i
      BY <1>2, <1>5, <3>1
    <3> QED BY <1>2, <3>2, <3>3 DEF IsLastMessage
  <2>3. CASE \E n \in 1 .. k - 1 : IsLastMessage(n, i)
    <3>1. PICK n \in 1 .. k - 1 : IsLastMessage(n, i)
      BY <2>3
    <3>2. n \in DOMAIN feed' /\ n \in DOMAIN feed /\ feed'[n] = feed[n]
      BY <1>2
    <3>3. Announced(i)' = IF feed'[n].type = "D" THEN 0 ELSE feed'[n].quantity
      BY <1>3, <2>2, <3>1, <3>2
    <3>4. Announced(i) = IF feed[n].type = "D" THEN 0 ELSE feed[n].quantity
      BY <1>2, <3>1, <3>2, AnnouncedIsLast
    <3> QED BY <1>5, <3>2, <3>3, <3>4
  <2>4. CASE ~ (\E n \in 1 .. k - 1 : IsLastMessage(n, i))
    <3>1. ~ (\E n \in DOMAIN feed' : IsLastMessage(n, i)')
      BY <1>2, <2>1, <2>2, <2>4
    <3>2. ~ (\E n \in DOMAIN feed : IsLastMessage(n, i))
      BY <1>2, <2>4
    <3> QED BY <1>2, <1>3, <1>5, <3>1, <3>2, AnnouncedIsLast
  <2> QED BY <2>3, <2>4
<1> QED BY <1>4, <1>5

(* What side s holds of an order.                                          *)
Held(s, i) == IF Rests(s, i) THEN Peek(s, i).quantity ELSE 0

LEMMA InBookHeld ==
  ASSUME NEW i
  PROVE  /\ InBook(i) = Held("b", i) + Held("s", i)
         /\ InBook(i)' = Held("b", i)' + Held("s", i)'
<1> USE DEF InBook, Buy!RestingQuantity, Sell!RestingQuantity, Buy!Resting, Sell!Resting,
      Buy!PeekOrder, Sell!PeekOrder, Buy!EntryAt, Sell!EntryAt, Held, Rests, Slot, Peek,
      Level, NoSlot, Buy!NoSlot, Sell!NoSlot
<1>1. InBook(i) = Held("b", i) + Held("s", i)
  OBVIOUS
<1>2. InBook(i)' = Held("b", i)' + Held("s", i)'
  OBVIOUS
<1> QED BY <1>1, <1>2

LEMMA HeldTypes ==
  ASSUME BothBooks, NEW s \in Sides, NEW i \in Ids
  PROVE  Held(s, i) \in Nat
<1>1. Rests(s, i) => Peek(s, i) \in Entry
  BY SlotLeads DEF BothBooks
<1>2. Rests(s, i) => Peek(s, i).quantity \in Nat
  BY <1>1 DEF Entry
<1> QED BY <1>2 DEF Held

LEMMA InBookSame ==
  ASSUME NEW i \in Ids, \A t \in Sides : SameSlot(t, i)
  PROVE  InBook(i)' = InBook(i)
<1>1. \A t \in Sides : Held(t, i)' = Held(t, i)
  BY DEF SameSlot, Held, Rests
<1> QED BY <1>1, InBookHeld DEF Sides

(* A step that names one order changes what is held of it on its side.     *)
LEMMA InBookAfter ==
  ASSUME BothBooks, NEW s \in Sides, NEW r \in Ids, OnlyChanges(s, r),
         NEW h \in Nat, Held(s, r)' = h
  PROVE  /\ InBook(r) = Held(s, r) + Held(Other(s), r)
         /\ InBook(r)' = h + Held(Other(s), r)
         /\ \A i \in Ids \ {r} : InBook(i)' = InBook(i)
<1>1. \A t \in Sides : t # s => SameSlot(t, r)
  BY DEF OnlyChanges
<1>2. \A t \in Sides : t # s => Held(t, r)' = Held(t, r)
  BY <1>1 DEF SameSlot, Held, Rests
<1>3. \A t \in Sides : Held(t, r) \in Nat
  BY HeldTypes
<1>4. \A i \in Ids \ {r} : InBook(i)' = InBook(i)
  BY InBookSame DEF OnlyChanges
<1>5. CASE s = "b"
  BY <1>2, <1>3, <1>4, <1>5, InBookHeld DEF Sides, Other
<1>6. CASE s = "s"
  BY <1>2, <1>3, <1>4, <1>6, InBookHeld DEF Sides, Other
<1> QED BY <1>5, <1>6 DEF Sides

LEMMA AnnouncedTypes ==
  ASSUME NEW i, feed \in Seq([system_id : Ids, price : Prices, quantity : Nat, type : Kinds])
  PROVE  Announced(i) \in Nat
<1>1. \A n \in DOMAIN feed : feed[n].quantity \in Nat
  <2> DEFINE Ms == [system_id : Ids, price : Prices, quantity : Nat, type : Kinds]
  <2>1. \A n \in DOMAIN feed : feed[n] \in Ms
    <3> feed \in Seq(Ms)
      OBVIOUS
    <3> HIDE DEF Ms
    <3> QED OBVIOUS
  <2>2. \A m \in Ms : m.quantity \in Nat
    OBVIOUS
  <2> QED BY <2>1, <2>2
<1>2. CASE \E n \in DOMAIN feed : IsLastMessage(n, i)
  <2>1. PICK n \in DOMAIN feed : IsLastMessage(n, i)
    BY <1>2
  <2>2. Announced(i) = IF feed[n].type = "D" THEN 0 ELSE feed[n].quantity
    BY <2>1, AnnouncedIsLast
  <2> QED BY <1>1, <2>2
<1>3. CASE ~ (\E n \in DOMAIN feed : IsLastMessage(n, i))
  <2>1. Announced(i) = 0
    BY <1>3, AnnouncedIsLast
  <2> QED BY <2>1
<1> QED BY <1>2, <1>3

(* A change that waits for room in the broadcast queue counts as announced.*)
Waits(i) == pc = "publish" /\ pending.type # "D" /\ pending.entry.system_id = i

FeedCovers ==
  \A i \in Ids :
    InBook(i) <= IF Waits(i) THEN pending.entry.quantity ELSE Announced(i)

(* What is announced is about the request in hand.                         *)
AnnouncesOwn == pc = "publish" => pending.entry.system_id = order.system_id

LEMMA FeedStep ==
  ASSUME EngineInv, FeedCovers, AnnouncesOwn, [Next]_vars
  PROVE  FeedCovers' /\ AnnouncesOwn'
<1>0. /\ BothBooks /\ HandlerTypeOK
      /\ feed \in Seq([system_id : Ids, price : Prices, quantity : Nat, type : Kinds])
  BY DEF EngineInv, QueuesTypeOK
<1>1. \A i \in Ids : InBook(i) \in Nat /\ Announced(i) \in Nat
  <2>1. ASSUME NEW i \in Ids
        PROVE  InBook(i) \in Nat
    <3>1. InBook(i) = Held("b", i) + Held("s", i)
      BY InBookHeld
    <3>2. \A s \in Sides : Held(s, i) \in Nat
      BY <1>0, HeldTypes
    <3> QED BY <3>1, <3>2 DEF Sides
  <2>2. \A i \in Ids : Announced(i) \in Nat
    BY <1>0, AnnouncedTypes
  <2> QED BY <2>1, <2>2
<1>2. ASSUME feed' = feed
      PROVE  \A i : Announced(i)' = Announced(i)
  BY <1>2 DEF Announced, IsLastMessage
<1>3. ASSUME UNCHANGED books
      PROVE  \A i \in Ids : InBook(i)' = InBook(i)
  BY <1>0, <1>3, NoBookChanges, InBookSame
<1>4. ASSUME feed' = feed, pc # "publish", NEW r \in Ids,
             \A i \in Ids \ {r} : InBook(i)' = InBook(i),
             InBook(r)' \in Nat, InBook(r)' <= InBook(r),
             \A i \in Ids : ~ Waits(i)'
      PROVE  FeedCovers'
  <2>1. ASSUME NEW i \in Ids
        PROVE  InBook(i)' <= Announced(i)'
    <3>1. InBook(i) <= Announced(i) /\ Announced(i)' = Announced(i)
      BY <1>2, <1>4 DEF FeedCovers, Waits
    <3>2. InBook(i)' = InBook(i) \/ (InBook(i)' \in Nat /\ InBook(i)' <= InBook(i))
      BY <1>4
    <3> QED BY <1>1, <3>1, <3>2
  <2> QED BY <1>4, <2>1 DEF FeedCovers
<1>5. CASE \/ StopMatching \/ EnterLevel \/ TellResting \/ LeaveLevel \/ UpdateIgnored
           \/ Finish \/ Undefined \/ Arrival
  <2>1. /\ UNCHANGED <<books, feed>> /\ pc # "publish" /\ pc' # "publish"
    <3>1. CASE Arrival
      BY <3>1, MatchingEngineAssumption DEF Arrival, ReadOrder, Handler, Request, outVars
    <3> QED BY <1>5, <3>1 DEF StopMatching, EnterLevel, TellResting, LeaveLevel,
          UpdateIgnored, Finish, Undefined, OutOfBounds, outVars
  <2> QED BY <1>2, <1>3, <2>1 DEF FeedCovers, Waits, AnnouncesOwn
<1>6. CASE TradeNext
  <2>1. PICK s \in Sides, r \in Ids, n \in Nat : TradesWith(s, r, n)
    BY <1>6, TradeNextEffect
  <2>2. PICK e \in Entry : e = Peek(s, r)
    BY <1>0, <2>1, SlotLeads DEF TradesWith, BothBooks
  <2>3. e.quantity \in Nat /\ [e EXCEPT !.quantity = @ - n].quantity = e.quantity - n
    BY <2>2 DEF Entry
  <2>4. n <= e.quantity /\ OnlyChanges(s, r) /\ Held(s, r) = e.quantity
        /\ Held(s, r)' = e.quantity - n
    BY <2>1, <2>2, <2>3 DEF TradesWith, Held, Rests
  <2>5. PICK h \in Nat : h = e.quantity - n
    BY <2>3, <2>4
  <2>6. /\ InBook(r) = e.quantity + Held(Other(s), r) /\ InBook(r)' = h + Held(Other(s), r)
        /\ \A i \in Ids \ {r} : InBook(i)' = InBook(i)
    BY <1>0, <2>4, <2>5, InBookAfter
  <2>7. Held(Other(s), r) \in Nat
    BY <1>0, HeldTypes DEF Other, Sides
  <2>8. InBook(r)' \in Nat /\ InBook(r)' <= InBook(r)
    BY <2>3, <2>5, <2>6, <2>7
  <2>9. feed' = feed /\ pc = "scan" /\ pc' = "told"
    BY <1>6 DEF TradeNext
  <2>10. \A i \in Ids : ~ Waits(i)'
    BY <2>9 DEF Waits
  <2> QED BY <1>4, <2>6, <2>8, <2>9, <2>10 DEF AnnouncesOwn
<1>7. ASSUME NEW s \in Sides, NEW r \in Ids, Forgets(s, r), feed' = feed, pc # "publish",
             \A i \in Ids : ~ Waits(i)'
      PROVE  FeedCovers'
  <2>1. Held(s, r)' = 0 /\ OnlyChanges(s, r)
    BY <1>7 DEF Forgets, Held, Rests
  <2>2. /\ InBook(r) = Held(s, r) + Held(Other(s), r) /\ InBook(r)' = 0 + Held(Other(s), r)
        /\ \A i \in Ids \ {r} : InBook(i)' = InBook(i)
    BY <1>0, <2>1, InBookAfter
  <2>3. Held(s, r) \in Nat /\ Held(Other(s), r) \in Nat
    BY <1>0, HeldTypes DEF Other, Sides
  <2> QED BY <1>4, <1>7, <2>2, <2>3
<1>8. CASE Settle
  <2>1. feed' = feed /\ pc = "settle" /\ pc' \in {"match", "scan"}
    BY <1>8 DEF Settle, outVars
  <2>2. CASE UNCHANGED books
    BY <1>2, <1>3, <2>1, <2>2 DEF FeedCovers, Waits, AnnouncesOwn
  <2>3. CASE \E s \in Sides, r \in Ids : Forgets(s, r)
    BY <1>7, <2>1, <2>3 DEF AnnouncesOwn, Waits
  <2> QED BY <1>8, <2>2, <2>3, SettleEffect
<1>9. CASE UpdatePrice \/ DeleteResting
  <2>1. PICK s \in Sides, r \in Ids :
          s = order.order_type /\ r = order.system_id /\ Forgets(s, r)
    BY <1>9, OwnDeletionEffect
  <2>2. feed' = feed /\ pc # "publish" /\ order' = order /\ pc # "idle"
    BY <1>9 DEF UpdatePrice, DeleteResting, outVars
  <2>3. pending'.entry.system_id = order.system_id
    <3>1. CASE DeleteResting
      BY <3>1 DEF DeleteResting, Announce, EntryOf
    <3>2. CASE UpdatePrice
      <4>1. PICK e \in Entry : e = Peek(s, r) /\ e.system_id = r
        BY <1>0, <2>1, SlotLeads DEF BothBooks, Forgets
      <4>2. OwnEntry(order) = e
        BY <2>1, <4>1, OrderViews
      <4>3. [e EXCEPT !.quantity = 0].system_id = r
        BY <4>1 DEF Entry
      <4> QED BY <2>1, <3>2, <4>2, <4>3 DEF UpdatePrice, Announce
    <3> QED BY <1>9, <3>1, <3>2
  <2>4. \A i \in Ids : ~ Waits(i)'
    BY <1>9 DEF UpdatePrice, DeleteResting, Announce, Waits
  <2> QED BY <1>7, <2>1, <2>2, <2>3, <2>4 DEF AnnouncesOwn
<1>10. ASSUME NEW s \in Sides, NEW r \in Ids, OnlyChanges(s, r), Rests(s, r)',
              ~ Rests(Other(s), r), Peek(s, r)'.quantity = order.quantity,
              order.quantity \in Nat, r = order.system_id, feed' = feed, pc # "publish",
              pc' = "publish", pending'.type # "D", pending'.entry = EntryOf(order)
       PROVE  FeedCovers'
  <2>1. Held(s, r)' = order.quantity /\ Held(Other(s), r) = 0
    BY <1>10 DEF Held
  <2>2. PICK h \in Nat : h = order.quantity
    BY <1>10
  <2>3. InBook(r)' = h + 0 /\ \A i \in Ids \ {r} : InBook(i)' = InBook(i)
    BY <1>0, <1>10, <2>1, <2>2, InBookAfter
  <2>4. /\ pending'.entry.system_id = r /\ pending'.entry.quantity = h
        /\ \A i \in Ids : Waits(i)' <=> i = r
    BY <1>10, <2>2 DEF Waits, EntryOf
  <2>5. \A i \in Ids \ {r} : InBook(i)' <= Announced(i)'
    BY <1>2, <1>10, <2>3 DEF FeedCovers, Waits
  <2> QED BY <2>2, <2>3, <2>4, <2>5 DEF FeedCovers
<1>11. CASE RestOrder
  <2>1. PICK s \in Sides, r \in Ids : Stores(s, r)
    BY <1>11, RestOrderEffect
  <2>2. /\ pc = "rest" /\ pc' = "publish" /\ feed' = feed /\ order' = order
        /\ pending' = [type |-> "N", entry |-> EntryOf(order)] /\ order.quantity \in Nat
    BY <1>0, <1>11, InHand DEF RestOrder, Announce, outVars
  <2>3. /\ r = order.system_id /\ OnlyChanges(s, r) /\ ~ Rests(Other(s), r)
        /\ Peek(s, r)'.quantity = order.quantity
    BY <2>1, <2>2 DEF Stores, EntryOf, EngineInv, IncomingAway, Matching, Other, Sides
  <2>4. Rests(s, r)'
    <3>1. PICK p \in Levels : p = PriceIndex[order.price]
      BY <2>1 DEF Stores
    <3>2. Slot(s, r)'[1] = p
      BY <2>1, <3>1 DEF Stores
    <3> QED BY <3>2 DEF Rests, NoSlot, Buy!NoSlot, Levels
  <2> QED BY <1>10, <2>2, <2>3, <2>4 DEF AnnouncesOwn, EntryOf
<1>12. CASE UpdateQuantity
  <2>1. PICK s \in Sides, r \in Ids : Amends(s, r)
    BY <1>12, UpdateQuantityEffect
  <2>2. /\ pc = "update" /\ pc' = "publish" /\ feed' = feed /\ order' = order
        /\ pending' = [type |-> "U", entry |-> EntryOf(order)] /\ order.quantity \in Nat
    BY <1>0, <1>12, InHand DEF UpdateQuantity, Announce, outVars
  <2>3. /\ r = order.system_id /\ OnlyChanges(s, r) /\ ~ Rests(Other(s), r) /\ Rests(s, r)'
        /\ Peek(s, r)'.quantity = order.quantity
    BY <2>1 DEF Amends, EngineInv, IdsHandedOut, Other, Sides
  <2> QED BY <1>10, <2>2, <2>3 DEF AnnouncesOwn, EntryOf
<1>13. CASE Publish
  <2>1. PICK m : m = [system_id |-> pending.entry.system_id, price |-> pending.entry.price,
                      quantity |-> pending.entry.quantity, type |-> pending.type]
    OBVIOUS
  <2>2. /\ pending.entry.system_id \in Ids /\ pending.entry.price \in Prices
        /\ pending.entry.quantity \in Nat /\ pending.type \in Kinds
    BY <1>0, <1>13, InHand DEF Publish
  <2>3. /\ m \in [system_id : Ids, price : Prices, quantity : Nat, type : Kinds]
        /\ m.system_id = pending.entry.system_id /\ m.type = pending.type
        /\ m.quantity = pending.entry.quantity
    BY <2>1, <2>2
  <2>4. /\ feed' = Append(feed, m) /\ UNCHANGED books /\ pc = "publish"
        /\ pc' \in {"match", "finish"}
    BY <1>13, <2>1 DEF Publish
  <2>5. ASSUME NEW i \in Ids
        PROVE  InBook(i)' <= Announced(i)'
    <3>1. InBook(i)' = InBook(i)
      BY <1>3, <2>4
    <3>2. Announced(i)' = IF i = m.system_id THEN IF m.type = "D" THEN 0 ELSE m.quantity
                                             ELSE Announced(i)
      BY <1>0, <2>3, <2>4, AnnouncedAfter
    <3>3. CASE i # m.system_id
      BY <2>3, <2>4, <3>1, <3>2, <3>3 DEF FeedCovers, Waits
    <3>4. CASE i = m.system_id /\ m.type = "D"
      <4>1. i = order.system_id
        BY <2>3, <2>4, <3>4 DEF AnnouncesOwn
      <4>2. ~ Rests("b", i) /\ ~ Rests("s", i)
        BY <2>3, <2>4, <3>4, <4>1 DEF EngineInv, IncomingAway, Sides
      <4>3. InBook(i) = 0
        BY <4>2, InBookHeld DEF Held
      <4> QED BY <3>1, <3>2, <3>4, <4>3
    <3>5. CASE i = m.system_id /\ m.type # "D"
      BY <2>3, <2>4, <3>1, <3>2, <3>5 DEF FeedCovers, Waits
    <3> QED BY <3>3, <3>4, <3>5
  <2> QED BY <2>4, <2>5 DEF FeedCovers, Waits, AnnouncesOwn
<1>14. CASE TakeAck \/ PollEmpty \/ Stopped \/ UNCHANGED vars
  <2>1. UNCHANGED <<books, feed, pc, pending, order>>
    BY <1>14 DEF TakeAck, PollEmpty, Stopped, vars, outVars
  <2> QED BY <1>2, <1>3, <2>1 DEF FeedCovers, Waits, AnnouncesOwn
<1> QED BY <1>5, <1>6, <1>8, <1>9, <1>11, <1>12, <1>13, <1>14 DEF Next, Engine

(* At every moment the market data together with the change that waits for *)
(* room shows at least what rests.                                         *)
LEMMA FeedInvariant == Spec => [](FeedCovers /\ AnnouncesOwn)
<1>1. Init => FeedCovers /\ AnnouncesOwn
  <2>1. ASSUME Init, NEW i \in Ids
        PROVE  InBook(i) = 0 /\ Announced(i) = 0 /\ ~ Waits(i)
    <3>1. ~ Rests("b", i) /\ ~ Rests("s", i)
      BY <2>1 DEF Init, Buy!BookInit, Sell!BookInit, Rests, Slot, NoSlot,
            Buy!NoSlot, Sell!NoSlot, Ids
    <3>2. InBook(i) = 0
      BY <3>1, InBookHeld DEF Held
    <3>3. feed = <<>> /\ pc = "idle"
      BY <2>1 DEF Init
    <3> QED BY <3>2, <3>3 DEF Announced, Waits
  <2>2. Init => pc = "idle"
    BY DEF Init
  <2> QED BY <2>1, <2>2 DEF FeedCovers, AnnouncesOwn
<1>2. EngineInv /\ (FeedCovers /\ AnnouncesOwn) /\ [Next]_vars => (FeedCovers /\ AnnouncesOwn)'
  BY FeedStep
<1> QED BY <1>1, <1>2, EngineInvariant, PTL DEF Spec

(* A reader of the market data never misses an order that rests, and never *)
(* takes it for smaller than it is, whenever the engine is idle.           *)
THEOREM EngineFeedCovers == Spec => []FeedNeverUnderstates
<1>1. FeedCovers => FeedNeverUnderstates
  BY DEF FeedCovers, FeedNeverUnderstates, Waits
<1> QED BY <1>1, FeedInvariant, PTL
-----------------------------------------------------------------------------
(* What the gateway sees of the engine: its request, whose quantity may     *)
(* shrink, and its acknowledgements, whose ids are those of requests read.  *)

PendingHandedOut == pending # None => pending.entry.system_id < nextId

AckMessage == [system_id : Ids, price : Nat, quantity : Nat, status : Kinds]

AcksGrow ==
  /\ acks'.read = acks.read
  /\ \/ acks'.sent = acks.sent
     \/ \E a \in AckMessage : a.system_id < nextId /\ acks'.sent = Append(acks.sent, a)

RequestShrinks ==
  order' = None \/ \E n \in 0 .. order.quantity : order' = [order EXCEPT !.quantity = n]

LEMMA AckSentOrLost ==
  ASSUME AcksTypeOK, NEW e, e.system_id \in Ids, e.system_id < nextId, NEW price \in Nat,
         NEW status \in Kinds, NEW n \in Nat, acks' = Ack(acks, e, price, status, n)
  PROVE  AcksGrow
<1> DEFINE m == [system_id |-> e.system_id, price |-> price, quantity |-> n, status |-> status]
<1>1. acks = [sent |-> acks.sent, read |-> acks.read, lost |-> acks.lost]
  BY DEF AcksTypeOK
<1>2. m \in AckMessage /\ m.system_id < nextId
  BY DEF AckMessage
<1> HIDE DEF m
<1>3. CASE acks' = acks
  BY <1>3 DEF AcksGrow
<1>4. CASE acks' = [acks EXCEPT !.sent = Append(@, m)]
  <2>1. acks'.sent = Append(acks.sent, m) /\ acks'.read = acks.read
    BY <1>1, <1>4
  <2> QED BY <1>2, <2>1 DEF AcksGrow
<1>5. CASE acks' = [acks EXCEPT !.lost = @ \cup {e.system_id}]
  <2>1. acks'.sent = acks.sent /\ acks'.read = acks.read
    BY <1>1, <1>5
  <2> QED BY <2>1 DEF AcksGrow
<1> QED BY <1>3, <1>4, <1>5 DEF Ack, m

LEMMA EngineSeen ==
  ASSUME EngineInv, PendingHandedOut, Engine
  PROVE  RequestShrinks /\ AcksGrow
<1>0. /\ HandlerTypeOK /\ BothBooks /\ QueuesTypeOK /\ AcksTypeOK
      /\ pc # "idle" /\ order \in LOBOrder /\ order.quantity \in Nat
      /\ order.system_id \in Ids /\ order.system_id < nextId
  <2>1. pc # "idle"
    BY DEF Engine, StopMatching, EnterLevel, TradeNext, TellResting, LeaveLevel, Settle,
      RestOrder, UpdateIgnored, UpdatePrice, UpdateQuantity, DeleteResting, Publish, Finish,
      Undefined, OutOfBounds
  <2> QED BY <2>1, InHand DEF EngineInv, QueuesTypeOK, AcksTypeOK, HandlerTypeOK, IdsHandedOut
<1>1. ASSUME UNCHANGED order
      PROVE  RequestShrinks
  <2>1. order.quantity \in 0 .. order.quantity /\ order' = [order EXCEPT !.quantity = order.quantity]
    BY <1>0, <1>1 DEF LOBOrder
  <2> QED BY <2>1 DEF RequestShrinks
<1>2. ASSUME UNCHANGED acks
      PROVE  AcksGrow
  BY <1>2 DEF AcksGrow
<1>3. CASE \/ StopMatching \/ EnterLevel \/ LeaveLevel \/ Settle \/ RestOrder
           \/ UpdateIgnored \/ UpdatePrice \/ UpdateQuantity \/ DeleteResting \/ Undefined
  <2>1. UNCHANGED <<order, acks>>
    BY <1>3 DEF StopMatching, EnterLevel, LeaveLevel, Settle, RestOrder, UpdateIgnored,
      UpdatePrice, UpdateQuantity, DeleteResting, Undefined, outVars
  <2> QED BY <1>1, <1>2, <2>1
<1>4. CASE Finish
  BY <1>2, <1>4 DEF Finish, RequestShrinks, outVars
<1>5. CASE TradeNext
  <2>1. PICK s \in Sides, r \in Ids, n \in Nat :
          /\ n <= order.quantity
          /\ order' = [order EXCEPT !.quantity = @ - n]
          /\ acks' = Ack(acks, order, cursor[1], "T", n)
    BY <1>5, TradeNextEffect DEF TradesWith
  <2>2. order.quantity - n \in 0 .. order.quantity
    BY <1>0, <2>1
  <2>3. cursor[1] \in Nat /\ "T" \in Kinds
    BY <1>0, <1>5, InHand DEF TradeNext, Kinds, Levels
  <2>4. AcksGrow
    BY <1>0, <2>1, <2>3, AckSentOrLost
  <2> QED BY <2>1, <2>2, <2>4 DEF RequestShrinks
<1>6. CASE TellResting
  <2>1. /\ pending.entry.system_id \in Ids /\ cursor[1] \in Nat /\ "T" \in Kinds
        /\ pending.entry.quantity \in Nat
    BY <1>0, <1>6, InHand DEF TellResting, Kinds, Levels
  <2>2. pending.entry.system_id < nextId /\ UNCHANGED order
    BY <1>0, <1>6 DEF TellResting, PendingHandedOut, HandlerTypeOK
  <2> QED BY <1>0, <1>1, <1>6, <2>1, <2>2, AckSentOrLost DEF TellResting
<1>7. CASE Publish
  <2>1. /\ pending.entry.system_id \in Ids /\ pending.entry.quantity \in Nat
        /\ pending.type \in Kinds /\ PriceIndex[pending.entry.price] \in Nat
    BY <1>0, <1>7, InHand DEF Publish
  <2>2. pending.entry.system_id < nextId /\ UNCHANGED order
    BY <1>0, <1>7 DEF Publish, PendingHandedOut, HandlerTypeOK
  <2> QED BY <1>0, <1>1, <1>7, <2>1, <2>2, AckSentOrLost DEF Publish
<1> QED BY <1>3, <1>4, <1>5, <1>6, <1>7 DEF Engine

LEMMA PendingStep ==
  ASSUME EngineInv, PendingHandedOut, [Next]_vars
  PROVE  PendingHandedOut'
<1>0. HandlerTypeOK /\ BothBooks /\ QueuesTypeOK /\ IdsHandedOut
  BY DEF EngineInv
<1>1. CASE \/ StopMatching \/ EnterLevel \/ LeaveLevel \/ Settle \/ UpdateIgnored \/ Finish
           \/ Undefined \/ TakeAck \/ PollEmpty \/ Stopped \/ UNCHANGED vars
  BY <1>1 DEF StopMatching, EnterLevel, LeaveLevel, Settle, UpdateIgnored, Finish, Undefined,
    TakeAck, PollEmpty, Stopped, vars, envVars, PendingHandedOut
<1>2. CASE TellResting \/ Publish
  BY <1>2 DEF TellResting, Publish, PendingHandedOut
<1>3. CASE Arrival
  <2>1. pc = "idle" /\ pending' = pending
    BY <1>3 DEF Arrival, ReadOrder
  <2> QED BY <1>0, <2>1 DEF HandlerTypeOK, PendingHandedOut
<1>4. CASE RestOrder \/ UpdateQuantity \/ DeleteResting
  <2>1. pc # "idle" /\ nextId' = nextId /\ pending'.entry = EntryOf(order)
    BY <1>4 DEF RestOrder, UpdateQuantity, DeleteResting, Announce, envVars
  <2>2. EntryOf(order).system_id < nextId
    BY <1>0, <2>1, InHand DEF IdsHandedOut, HandlerTypeOK
  <2> QED BY <2>1, <2>2 DEF PendingHandedOut
<1>5. CASE UpdatePrice
  <2>1. /\ pc # "idle" /\ nextId' = nextId /\ RestsInOwnBook(order)
        /\ pending'.entry = [OwnEntry(order) EXCEPT !.quantity = 0]
    BY <1>5 DEF UpdatePrice, Announce, envVars
  <2>2. OwnEntry(order) \in Entry /\ OwnEntry(order).system_id = order.system_id
    BY <1>0, <2>1, OrderViews, InHand, SlotLeads DEF BothBooks, Sides
  <2>3. pending'.entry.system_id = order.system_id
    BY <2>1, <2>2 DEF Entry
  <2>4. order.system_id < nextId
    BY <1>0, <2>1 DEF IdsHandedOut, HandlerTypeOK
  <2> QED BY <2>1, <2>3, <2>4 DEF PendingHandedOut
<1>6. CASE TradeNext
  <2>1. PICK s \in Sides, r \in Ids, n \in Nat : TradesWith(s, r, n)
    BY <1>0, <1>6, TradeNextEffect
  <2>2. Peek(s, r) \in Entry /\ Peek(s, r).system_id = r /\ r < nextId
    BY <1>0, <2>1, SlotLeads DEF TradesWith, BothBooks, IdsHandedOut
  <2>3. pending'.entry.system_id = r /\ nextId' = nextId
    BY <1>6, <2>1, <2>2 DEF TradesWith, Entry, TradeNext, envVars
  <2> QED BY <2>2, <2>3 DEF PendingHandedOut
<1> QED BY <1>1, <1>2, <1>3, <1>4, <1>5, <1>6 DEF Next, Engine

-----------------------------------------------------------------------------
(* The acknowledgements.  OpenByAcks is defined along the messages sent:   *)
(* what is proved of it is kept for every function that obeys its equation,*)
(* together with there being one.                                          *)

Told(b, status, n) ==
  CASE status \in {"N", "U"} -> n
    [] status = "D" -> 0
    [] status = "T" -> IF b > 0 THEN b - n ELSE 0

IsBalance(f, i) ==
  f = [n \in 0 .. Len(acks.sent) |->
        IF n = 0 THEN 0
        ELSE IF acks.sent[n].system_id # i THEN f[n - 1]
        ELSE Told(f[n - 1], acks.sent[n].status, acks.sent[n].quantity)]

AddsUp(i, x) == \E f : IsBalance(f, i) /\ f[Len(acks.sent)] = x

LEMMA OpenAddsUp ==
  ASSUME NEW i, NEW x, AddsUp(i, x)
  PROVE  AddsUp(i, OpenByAcks(i))
<1> DEFINE g == CHOOSE f : IsBalance(f, i)
<1>1. IsBalance(g, i)
  BY DEF AddsUp
<1>2. OpenByAcks(i) = g[Len(acks.sent)]
  BY Zenon DEF OpenByAcks, IsBalance, Told
<1> QED BY <1>1, <1>2 DEF AddsUp

(* A message changes the balance of its own order only.                    *)
LEMMA BalanceAfter ==
  ASSUME acks.sent \in Seq(AckMessage), NEW m \in AckMessage,
         acks'.sent = Append(acks.sent, m), NEW i
  PROVE  /\ \A x : AddsUp(i, x) => \E y : AddsUp(i, y)'
         /\ \A y : AddsUp(i, y)' =>
              \E x : /\ AddsUp(i, x)
                     /\ y = IF m.system_id # i THEN x ELSE Told(x, m.status, m.quantity)
<1>1. PICK k : k = Len(acks.sent)
  OBVIOUS
<1>2. /\ k \in Nat /\ Len(acks'.sent) = k + 1 /\ acks'.sent[k + 1] = m
      /\ \A n \in 1 .. k : acks'.sent[n] = acks.sent[n]
  BY <1>1
<1> DEFINE After(f, n) == IF acks'.sent[n].system_id # i THEN f[n - 1]
                          ELSE Told(f[n - 1], acks'.sent[n].status, acks'.sent[n].quantity)
<1>3. ASSUME NEW f
      PROVE  IsBalance(f, i)' <=> f = [n \in 0 .. k + 1 |-> IF n = 0 THEN 0 ELSE After(f, n)]
  BY <1>2 DEF IsBalance
<1>4. ASSUME NEW f
      PROVE  IsBalance(f, i) <=> f = [n \in 0 .. k |-> IF n = 0 THEN 0 ELSE After(f, n)]
  <2>1. \A n \in 0 .. k : n # 0 => acks.sent[n] = acks'.sent[n]
    BY <1>2
  <2> QED BY <1>1, <1>2, <2>1 DEF IsBalance
<1>5. ASSUME NEW x, AddsUp(i, x)
      PROVE  \E y : AddsUp(i, y)'
  <2>1. PICK f : IsBalance(f, i)
    BY <1>5 DEF AddsUp
  <2>2. f = [n \in 0 .. k |-> IF n = 0 THEN 0 ELSE After(f, n)]
    BY <1>4, <2>1
  <2>3. PICK g : g = [n \in 0 .. k + 1 |-> IF n = k + 1 THEN After(f, n) ELSE f[n]]
    OBVIOUS
  <2>4. (\A n \in 0 .. k : g[n] = f[n]) /\ g[k + 1] = After(f, k + 1)
    <3> HIDE DEF After
    <3> QED BY <1>2, <2>3
  <2>5. ASSUME NEW n \in 1 .. k + 1
        PROVE  After(g, n) = After(f, n)
    <3>1. n - 1 \in 0 .. k
      BY <1>2
    <3>2. g[n - 1] = f[n - 1]
      BY <2>4, <3>1
    <3> QED BY <3>2
  <2>6. ASSUME NEW n \in 0 .. k + 1
        PROVE  g[n] = IF n = 0 THEN 0 ELSE After(g, n)
    <3>1. n \in 0 .. k \/ n = k + 1
      BY <1>2
    <3>2. n # 0 => n \in 1 .. k + 1
      BY <1>2
    <3>3. n \in 0 .. k => f[n] = IF n = 0 THEN 0 ELSE After(f, n)
      <4> HIDE DEF After
      <4> QED BY <2>2
    <3> HIDE DEF After
    <3> QED BY <1>2, <2>4, <2>5, <3>1, <3>2, <3>3
  <2>7. g = [n \in 0 .. k + 1 |-> IF n = 0 THEN 0 ELSE After(g, n)]
    <3> HIDE DEF After
    <3> QED BY <2>3, <2>6
  <2>8. IsBalance(g, i)'
    BY <1>3, <2>7
  <2> QED BY <2>8 DEF AddsUp
<1>6. ASSUME NEW g, IsBalance(g, i)'
      PROVE  \E x : /\ AddsUp(i, x)
                    /\ g[k + 1] = IF m.system_id # i THEN x ELSE Told(x, m.status, m.quantity)
  <2>1. g = [n \in 0 .. k + 1 |-> IF n = 0 THEN 0 ELSE After(g, n)]
    BY <1>3, <1>6
  <2> DEFINE f == [n \in 0 .. k |-> g[n]]
  <2>2. \A n \in 0 .. k : n # 0 => After(f, n) = After(g, n)
    <3>1. \A n \in 0 .. k : n # 0 => n - 1 \in 0 .. k
      BY <1>2
    <3> QED BY <3>1
  <2>3. f = [n \in 0 .. k |-> IF n = 0 THEN 0 ELSE After(f, n)]
    <3>1. \A n \in 0 .. k : g[n] = IF n = 0 THEN 0 ELSE After(g, n)
      <4>1. \A n \in 0 .. k : n \in 0 .. k + 1
        BY <1>2
      <4> HIDE DEF After
      <4> QED BY <2>1, <4>1
    <3> HIDE DEF After
    <3> QED BY <2>2, <3>1
  <2>4. IsBalance(f, i)
    BY <1>4, <2>3
  <2>5. PICK x : x = g[k]
    OBVIOUS
  <2>6. f[k] = x /\ AddsUp(i, x)
    <3>1. f[k] = x
      BY <1>2, <2>5
    <3> QED BY <1>1, <2>4, <3>1 DEF AddsUp
  <2>7. g[k + 1] = After(g, k + 1)
    <3> HIDE DEF After
    <3> QED BY ONLY SMT, <1>2, <2>1
  <2>8. k + 1 - 1 = k
    BY <1>2
  <2> QED BY <1>2, <2>5, <2>6, <2>7, <2>8
<1> QED BY <1>2, <1>5, <1>6 DEF AddsUp

LEMMA BalanceSame ==
  ASSUME acks'.sent = acks.sent, NEW i, NEW x
  PROVE  AddsUp(i, x)' <=> AddsUp(i, x)
<1>1. \A f : IsBalance(f, i)' <=> IsBalance(f, i)
  BY DEF IsBalance
<1> QED BY <1>1 DEF AddsUp

(* What Ack does to the balance of an order no acknowledgement of which is *)
(* lost.                                                                   *)
LEMMA BalanceAcked ==
  ASSUME AcksTypeOK, NEW e, e.system_id \in Ids, NEW price \in Nat, NEW status \in Kinds,
         NEW n \in Nat, acks' = Ack(acks, e, price, status, n), NEW i \in Ids
  PROVE  /\ \A x : AddsUp(i, x) => \E y : AddsUp(i, y)'
         /\ acks.lost \subseteq acks'.lost
         /\ i \notin acks'.lost => \A y : AddsUp(i, y)' =>
              \E x : /\ AddsUp(i, x)
                     /\ y = IF e.trade_id = 1 /\ e.system_id = i THEN Told(x, status, n)
                                                                 ELSE x
<1> DEFINE m == [system_id |-> e.system_id, price |-> price, quantity |-> n, status |-> status]
<1>1. /\ acks = [sent |-> acks.sent, read |-> acks.read, lost |-> acks.lost]
      /\ acks.sent \in Seq(AckMessage)
  BY DEF AcksTypeOK, AckMessage
<1>2. /\ m \in AckMessage /\ m.system_id = e.system_id
      /\ m.status = status /\ m.quantity = n
  BY DEF AckMessage
<1> HIDE DEF m
<1>3. CASE acks' = acks /\ e.trade_id # 1
  BY <1>3, BalanceSame
<1>4. CASE acks' = [acks EXCEPT !.sent = Append(@, m)] /\ e.trade_id = 1
  <2>1. acks'.sent = Append(acks.sent, m) /\ acks'.lost = acks.lost
    BY <1>1, <1>4
  <2>2. /\ \A x : AddsUp(i, x) => \E y : AddsUp(i, y)'
        /\ \A y : AddsUp(i, y)' =>
             \E x : /\ AddsUp(i, x)
                    /\ y = IF m.system_id # i THEN x ELSE Told(x, m.status, m.quantity)
    BY <1>1, <1>2, <2>1, BalanceAfter
  <2> QED BY <1>2, <1>4, <2>1, <2>2
<1>5. CASE acks' = [acks EXCEPT !.lost = @ \cup {e.system_id}] /\ e.trade_id = 1
  <2>1. acks'.sent = acks.sent /\ acks'.lost = acks.lost \cup {e.system_id}
    BY <1>1, <1>5
  <2> QED BY <2>1, BalanceSame
<1> QED BY <1>3, <1>4, <1>5 DEF Ack, m

(* The quantity that rests on side s for the sniper.                       *)
Owned(s, i) == IF Rests(s, i) /\ Peek(s, i).trade_id = 1 THEN Peek(s, i).quantity ELSE 0

Mine(i) == Owned("b", i) + Owned("s", i)

(* A trade of which the owner of the resting entry is still to be told.    *)
Owed(i) == IF pc = "told" /\ pending.entry.system_id = i /\ pending.entry.trade_id = 1
           THEN pending.entry.quantity ELSE 0

(* A change that is acknowledged once the broadcast queue has room.        *)
Untold(i) == pc = "publish" /\ pending.entry.system_id = i /\ pending.entry.trade_id = 1

LEMMA OwnedTypes ==
  ASSUME BothBooks, NEW s \in Sides, NEW i \in Ids
  PROVE  Owned(s, i) \in Nat
BY HeldTypes DEF Owned, Held

LEMMA MineSame ==
  ASSUME NEW i \in Ids, \A t \in Sides : SameSlot(t, i)
  PROVE  Mine(i)' = Mine(i)
<1>1. \A t \in Sides : Owned(t, i)' = Owned(t, i)
  BY DEF SameSlot, Owned, Rests
<1>2. Owned("b", i)' = Owned("b", i) /\ Owned("s", i)' = Owned("s", i)
  BY <1>1 DEF Sides
<1> QED BY <1>2 DEF Mine

(* A step that names one order changes what is the sniper's of it on its   *)
(* side.                                                                   *)
LEMMA MineAfter ==
  ASSUME BothBooks, NEW s \in Sides, NEW r \in Ids, OnlyChanges(s, r),
         NEW h \in Nat, Owned(s, r)' = h
  PROVE  /\ Mine(r) = Owned(s, r) + Owned(Other(s), r)
         /\ Mine(r)' = h + Owned(Other(s), r)
         /\ \A i \in Ids \ {r} : Mine(i)' = Mine(i)
<1>1. \A t \in Sides : t # s => SameSlot(t, r)
  BY DEF OnlyChanges
<1>2. \A t \in Sides : t # s => Owned(t, r)' = Owned(t, r)
  BY <1>1 DEF SameSlot, Owned, Rests
<1>3. \A t \in Sides : Owned(t, r) \in Nat
  BY OwnedTypes
<1>4. \A i \in Ids \ {r} : Mine(i)' = Mine(i)
  BY MineSame DEF OnlyChanges
<1>5. Mine(r)' = Owned("b", r)' + Owned("s", r)'
  BY DEF Mine
<1>6. CASE s = "b"
  BY <1>2, <1>3, <1>4, <1>5, <1>6 DEF Sides, Other, Mine
<1>7. CASE s = "s"
  BY <1>2, <1>3, <1>4, <1>5, <1>7 DEF Sides, Other, Mine
<1> QED BY <1>6, <1>7 DEF Sides

(* While a change waits to be published the book already shows it.         *)
PendingSays ==
  pc = "publish" =>
    /\ pending.type \in {"N", "U", "D"}
    /\ \A s \in Sides, i \in Ids :
         pending.type # "D" /\ s = order.order_type /\ i = pending.entry.system_id
           => /\ Rests(s, i)
              /\ Peek(s, i).quantity = pending.entry.quantity
              /\ Peek(s, i).trade_id = pending.entry.trade_id

(* A participant changes and deletes only its own orders.                  *)
OwnerKept ==
  \A s \in Sides, i \in Ids :
    /\ pc \in {"update", "delete"} /\ s = order.order_type /\ i = order.system_id
    /\ Rests(s, i)
    => Peek(s, i).trade_id = order.trade_id

(* The entry the loop has just traded with is that of an order.            *)
CursorLeads ==
  \A s \in Sides : pc \in {"told", "settle"} /\ s = Other(order.order_type)
    => \E i \in Ids : Rests(s, i) /\ Slot(s, i) = cursor

LEMMA CursorLeadsStep ==
  ASSUME EngineInv, CursorLeads, [Next]_vars
  PROVE  CursorLeads'
<1>0. BothBooks /\ HandlerTypeOK
  BY DEF EngineInv
<1>1. CASE TradeNext
  <2>1. PICK s \in Sides, r \in Ids, n \in Nat : TradesWith(s, r, n)
    BY <1>1, TradeNextEffect
  <2>2. order \in LOBOrder
    BY <1>0, <1>1, InHand DEF TradeNext
  <2>3. order'.order_type = order.order_type
    BY <2>1, <2>2 DEF TradesWith, LOBOrder
  <2>4. Slot(s, r)' = cursor' /\ Rests(s, r)'
    BY <2>1 DEF TradesWith, Rests
  <2> QED BY <2>1, <2>3, <2>4 DEF CursorLeads, TradesWith
<1>2. CASE TellResting \/ TakeAck \/ PollEmpty \/ Stopped \/ UNCHANGED vars
  <2>1. UNCHANGED <<books, order, cursor>>
        /\ (pc' \in {"told", "settle"} => pc \in {"told", "settle"})
    BY <1>2 DEF TellResting, TakeAck, PollEmpty, Stopped, vars
  <2>2. \A s \in Sides, i \in Ids : Slot(s, i)' = Slot(s, i)
    BY <1>0, <2>1, NoBookChanges DEF SameSlot
  <2> QED BY <2>1, <2>2 DEF CursorLeads, Rests
<1>3. CASE Arrival
  BY <1>3, MatchingEngineAssumption DEF Arrival, ReadOrder, Handler, Request, CursorLeads
<1>4. CASE \/ StopMatching \/ EnterLevel \/ LeaveLevel \/ Settle \/ RestOrder \/ UpdateIgnored
           \/ UpdatePrice \/ UpdateQuantity \/ DeleteResting \/ Publish \/ Finish \/ Undefined
  <2>1. pc' \notin {"told", "settle"}
    BY <1>4 DEF StopMatching, EnterLevel, LeaveLevel, Settle, RestOrder, UpdateIgnored,
      UpdatePrice, UpdateQuantity, DeleteResting, Publish, Finish, Undefined, Announce
  <2> QED BY <2>1 DEF CursorLeads
<1> QED BY <1>1, <1>2, <1>3, <1>4 DEF Next, Engine

LEMMA OwnerKeptStep ==
  ASSUME EngineInv, OwnerKept, [Next]_vars
  PROVE  OwnerKept'
<1>0. BothBooks /\ HandlerTypeOK
  BY DEF EngineInv
<1>1. CASE Arrival
  <2>0. PICK q \in Requests, id \in Ids :
          \E req :
            /\ req = [system_id |-> id, price |-> q.price, quantity |-> q.quantity,
                      trade_id |-> q.trade_id, order_type |-> q.order_type,
                      req_type |-> q.req_type]
            /\ RestsInOwnBook(req) => OwnEntry(req).trade_id = q.trade_id
            /\ ReadOrder(req)
    BY <1>1 DEF Arrival
  <2>1. PICK req :
          /\ req = [system_id |-> id, price |-> q.price, quantity |-> q.quantity,
                    trade_id |-> q.trade_id, order_type |-> q.order_type,
                    req_type |-> q.req_type]
          /\ RestsInOwnBook(req) => OwnEntry(req).trade_id = q.trade_id
          /\ ReadOrder(req)
    BY <2>0
  <2>2. /\ req.system_id = id /\ req.order_type = q.order_type /\ req.trade_id = q.trade_id
        /\ order' = req /\ UNCHANGED books
    BY <2>1 DEF ReadOrder
  <2>3. q.order_type \in Sides
    BY MatchingEngineAssumption DEF Request, Sides
  <2>4. Rests(q.order_type, id) => Peek(q.order_type, id).trade_id = q.trade_id
    BY <2>1, <2>2, <2>3, OrderViews
  <2>5. SameSlot(q.order_type, id)
    BY <1>0, <2>2, <2>3, NoBookChanges
  <2> QED BY <2>2, <2>4, <2>5 DEF OwnerKept, SameSlot, Rests
<1>2. CASE TakeAck \/ PollEmpty \/ Stopped \/ UNCHANGED vars
  <2>1. UNCHANGED <<books, pc, order>>
    BY <1>2 DEF TakeAck, PollEmpty, Stopped, vars
  <2>2. \A s \in Sides, i \in Ids : SameSlot(s, i)
    BY <1>0, <2>1, NoBookChanges
  <2> QED BY <2>1, <2>2 DEF OwnerKept, SameSlot, Rests
<1>3. CASE Engine
  <2>1. pc' \notin {"update", "delete"}
    BY <1>3 DEF Engine, StopMatching, EnterLevel, LeaveLevel, TradeNext, TellResting, Settle,
      RestOrder, UpdateIgnored, UpdatePrice, UpdateQuantity, DeleteResting, Publish, Finish,
      Undefined, Announce
  <2> QED BY <2>1 DEF OwnerKept
<1> QED BY <1>1, <1>2, <1>3 DEF Next

LEMMA PendingSaysStep ==
  ASSUME EngineInv, PendingSays, OwnerKept, [Next]_vars
  PROVE  PendingSays'
<1>0. BothBooks /\ HandlerTypeOK
  BY DEF EngineInv
<1>1. CASE RestOrder
  <2>1. PICK s \in Sides, r \in Ids : Stores(s, r)
    BY <1>1, RestOrderEffect
  <2>2. UNCHANGED order /\ pending' = [type |-> "N", entry |-> EntryOf(order)]
    BY <1>1 DEF RestOrder, Announce
  <2>3. \E p \in Levels : \E c : Slot(s, r)' = <<p, c>>
    BY <2>1 DEF Stores
  <2>4. Rests(s, r)'
    BY <2>3 DEF Rests, NoSlot, Buy!NoSlot, Levels
  <2>5. /\ s = order.order_type /\ r = pending'.entry.system_id
        /\ Peek(s, r)' = pending'.entry /\ pending'.type = "N"
    BY <2>1, <2>2 DEF Stores, EntryOf
  <2> QED BY <2>2, <2>4, <2>5 DEF PendingSays
<1>2. CASE UpdateQuantity
  <2>1. PICK s \in Sides, r \in Ids : Amends(s, r)
    BY <1>2, UpdateQuantityEffect
  <2>2. /\ UNCHANGED order /\ pending' = [type |-> "U", entry |-> EntryOf(order)]
        /\ pc = "update"
    BY <1>2 DEF UpdateQuantity, Announce
  <2>3. Peek(s, r).trade_id = order.trade_id
    BY <2>1, <2>2 DEF OwnerKept, Amends
  <2>4. /\ s = order.order_type /\ r = pending'.entry.system_id /\ Rests(s, r)'
        /\ Peek(s, r)'.quantity = pending'.entry.quantity
        /\ Peek(s, r)'.trade_id = pending'.entry.trade_id /\ pending'.type = "U"
    BY <2>1, <2>2, <2>3 DEF Amends, EntryOf
  <2> QED BY <2>2, <2>4 DEF PendingSays
<1>3. CASE UpdatePrice \/ DeleteResting
  BY <1>3 DEF UpdatePrice, DeleteResting, Announce, PendingSays
<1>4. CASE TakeAck \/ PollEmpty \/ Stopped \/ UNCHANGED vars
  <2>1. UNCHANGED <<books, pc, order, pending>>
    BY <1>4 DEF TakeAck, PollEmpty, Stopped, vars
  <2>2. \A s \in Sides, i \in Ids : SameSlot(s, i)
    BY <1>0, <2>1, NoBookChanges
  <2> QED BY <2>1, <2>2 DEF PendingSays, SameSlot, Rests
<1>5. CASE Arrival
  BY <1>5, MatchingEngineAssumption DEF Arrival, ReadOrder, Handler, Request, PendingSays
<1>6. CASE \/ StopMatching \/ EnterLevel \/ LeaveLevel \/ TradeNext \/ TellResting \/ Settle
           \/ UpdateIgnored \/ Publish \/ Finish \/ Undefined
  <2>1. pc' # "publish"
    BY <1>6 DEF StopMatching, EnterLevel, LeaveLevel, TradeNext, TellResting, Settle,
      UpdateIgnored, Publish, Finish, Undefined
  <2> QED BY <2>1 DEF PendingSays
<1> QED BY <1>1, <1>2, <1>3, <1>4, <1>5, <1>6 DEF Next, Engine

(* The sniper knows what it has in the books: what its acknowledgements    *)
(* add up to is what rests and the trade it is about to be told of.        *)
ClientHolds(i) ==
  /\ \E x : AddsUp(i, x)
  /\ i \notin acks.lost /\ ~ Untold(i) => \A x : AddsUp(i, x) => x = Mine(i) + Owed(i)

ClientKnows == \A i \in Ids : ClientHolds(i)

LEMMA ClientHoldsSame ==
  ASSUME NEW i, ClientHolds(i), acks'.sent = acks.sent, acks'.lost = acks.lost,
         ~ Untold(i)' => ~ Untold(i) /\ Mine(i)' + Owed(i)' = Mine(i) + Owed(i)
  PROVE  ClientHolds(i)'
BY BalanceSame DEF ClientHolds

LEMMA NothingHeld ==
  ASSUME NEW i, ~ Rests("b", i), ~ Rests("s", i)
  PROVE  Mine(i) = 0
BY DEF Mine, Owned

(* A trade: the incoming order, which does not rest, stays at nothing, and *)
(* what leaves the book is owed to the owner of the entry.                 *)
LEMMA TradeNextKnows ==
  ASSUME EngineInv, ClientKnows, TradeNext, NEW i \in Ids
  PROVE  ClientHolds(i)'
<1>0. /\ HandlerTypeOK /\ BothBooks /\ AcksTypeOK /\ pc = "scan" /\ pc' = "told"
      /\ ~ Rests("b", order.system_id) /\ ~ Rests("s", order.system_id)
  BY InHand DEF TradeNext, EngineInv, QueuesTypeOK, AcksTypeOK, IncomingAway, Matching, Sides
<1>1. PICK s \in Sides, r \in Ids, n \in Nat : TradesWith(s, r, n)
  BY TradeNextEffect
<1>2. /\ Rests(s, r) /\ OnlyChanges(s, r) /\ n <= Peek(s, r).quantity
      /\ acks' = Ack(acks, order, cursor[1], "T", n)
  BY <1>1 DEF TradesWith
<1>3. PICK e \in Entry : e = Peek(s, r) /\ e.system_id = r /\ e.quantity \in Nat
  <2>1. Peek(s, r) \in Entry /\ Peek(s, r).system_id = r
    BY <1>0, <1>2, SlotLeads DEF BothBooks
  <2> QED BY <2>1 DEF Entry
<1>4. /\ Peek(s, r)'.quantity = e.quantity - n /\ Peek(s, r)'.trade_id = e.trade_id
      /\ Rests(s, r)' /\ Rests(s, r)
      /\ pending'.entry.quantity = n /\ pending'.entry.trade_id = e.trade_id
      /\ pending'.entry.system_id = r
  BY <1>1, <1>3 DEF TradesWith, Rests, Entry
<1>5. PICK h \in Nat : h = IF e.trade_id = 1 THEN e.quantity - n ELSE 0
  BY <1>2, <1>3
<1>6. /\ Mine(r) = Owned(s, r) + Owned(Other(s), r) /\ Mine(r)' = h + Owned(Other(s), r)
      /\ \A j \in Ids \ {r} : Mine(j)' = Mine(j)
  <2>1. Owned(s, r)' = h
    BY <1>4, <1>5 DEF Owned
  <2> QED BY <1>0, <1>2, <2>1, MineAfter
<1>7. Mine(i)' + Owed(i)' = Mine(i) /\ Owed(i) = 0 /\ Mine(i) \in Nat
  <2>1. Owned(Other(s), r) \in Nat
    BY <1>0, OwnedTypes DEF Other, Sides
  <2>2. Owned(s, r) = IF e.trade_id = 1 THEN e.quantity ELSE 0
    BY <1>2, <1>3 DEF Owned
  <2>3. \A t \in Sides : Owned(t, i) \in Nat
    BY <1>0, OwnedTypes
  <2>4. Mine(i) \in Nat
    BY <2>3 DEF Mine, Sides
  <2>5. Owed(i)' = (IF r = i /\ e.trade_id = 1 THEN n ELSE 0) /\ Owed(i) = 0
    BY <1>0, <1>4 DEF Owed
  <2> QED BY <1>3, <1>5, <1>6, <2>1, <2>2, <2>4, <2>5
<1>8. order.system_id \in Ids /\ cursor[1] \in Nat /\ "T" \in Kinds
  BY <1>0, InHand DEF Kinds, Levels
<1>9. /\ \A x : AddsUp(i, x) => \E y : AddsUp(i, y)'
      /\ acks.lost \subseteq acks'.lost
      /\ i \notin acks'.lost => \A y : AddsUp(i, y)' =>
           \E x : /\ AddsUp(i, x)
                  /\ y = IF order.trade_id = 1 /\ order.system_id = i THEN Told(x, "T", n)
                                                                      ELSE x
  BY <1>0, <1>2, <1>8, BalanceAcked
<1>10. /\ \E x : AddsUp(i, x)
       /\ i \notin acks.lost => \A x : AddsUp(i, x) => x = Mine(i)
  BY <1>0, <1>7 DEF ClientKnows, ClientHolds, Untold
<1>11. order.system_id = i => Mine(i) = 0
  BY <1>0, NothingHeld
<1>12. Told(0, "T", n) = 0
  BY DEF Told
<1>13. i \notin acks'.lost => \A y : AddsUp(i, y)' => y = Mine(i)
  BY <1>9, <1>10, <1>11, <1>12
<1> QED BY <1>7, <1>9, <1>10, <1>13 DEF ClientHolds

(* The owner of the resting entry is told of the trade.                    *)
LEMMA TellRestingKnows ==
  ASSUME EngineInv, ClientKnows, TellResting, NEW i \in Ids
  PROVE  ClientHolds(i)'
<1>0. HandlerTypeOK /\ BothBooks /\ AcksTypeOK /\ pc = "told" /\ pc' = "settle"
  BY DEF TellResting, EngineInv, QueuesTypeOK, AcksTypeOK
<1>1. PICK n \in Nat, h \in Nat : n = pending.entry.quantity /\ h = Mine(i)
  <2>1. \A t \in Sides : Owned(t, i) \in Nat
    BY <1>0, OwnedTypes
  <2>2. Mine(i) \in Nat
    BY <2>1 DEF Mine, Sides
  <2> QED BY <1>0, <2>2, InHand
<1>2. /\ pending.entry.system_id \in Ids /\ cursor[1] \in Nat /\ "T" \in Kinds
      /\ acks' = Ack(acks, pending.entry, cursor[1], "T", n)
  BY <1>0, <1>1, InHand DEF TellResting, Kinds, Levels
<1>3. /\ \A x : AddsUp(i, x) => \E y : AddsUp(i, y)'
      /\ acks.lost \subseteq acks'.lost
      /\ i \notin acks'.lost => \A y : AddsUp(i, y)' =>
           \E x : /\ AddsUp(i, x)
                  /\ y = IF pending.entry.trade_id = 1 /\ pending.entry.system_id = i
                         THEN Told(x, "T", n) ELSE x
  BY <1>0, <1>2, BalanceAcked
<1>4. Mine(i)' = h /\ Owed(i)' = 0
  <2>1. Mine(i)' = Mine(i)
    BY <1>0, NoBookChanges, MineSame DEF TellResting
  <2> QED BY <1>0, <1>1, <2>1 DEF Owed
<1>5. /\ \E x : AddsUp(i, x)
      /\ i \notin acks.lost => \A x : AddsUp(i, x) =>
           x = h + IF pending.entry.trade_id = 1 /\ pending.entry.system_id = i THEN n ELSE 0
  BY <1>0, <1>1 DEF ClientKnows, ClientHolds, Untold, Owed
<1>6. Told(h + n, "T", n) = h
  BY <1>1 DEF Told
<1>7. i \notin acks'.lost => \A y : AddsUp(i, y)' => y = h
  BY <1>1, <1>3, <1>5, <1>6
<1> QED BY <1>1, <1>3, <1>4, <1>5, <1>7 DEF ClientHolds

(* A filled entry is deleted once nothing is left in it.                   *)
LEMMA SettleKnows ==
  ASSUME EngineInv, ClientKnows, CursorLeads, Settle, NEW i \in Ids
  PROVE  ClientHolds(i)'
<1>0. /\ HandlerTypeOK /\ BothBooks /\ pc = "settle" /\ pc' \in {"match", "scan"}
      /\ UNCHANGED acks
  BY DEF Settle, EngineInv, outVars
<1>1. ASSUME Mine(i)' = Mine(i)
      PROVE  ClientHolds(i)'
  <2>1. Owed(i) = 0 /\ Owed(i)' = 0 /\ ~ Untold(i)
    BY <1>0 DEF Owed, Untold
  <2> QED BY <1>0, <1>1, <2>1, ClientHoldsSame DEF ClientKnows
<1>2. CASE UNCHANGED books
  BY <1>0, <1>1, <1>2, NoBookChanges, MineSame
<1>3. ASSUME NEW s \in Sides, NEW r \in Ids, s = Other(order.order_type),
             Filled.quantity = 0, r = Filled.system_id, Forgets(s, r)
      PROVE  Mine(i)' = Mine(i)
  <2>1. PICK j \in Ids : Rests(s, j) /\ Slot(s, j) = cursor
    BY <1>0, <1>3 DEF CursorLeads
  <2>2. order.order_type \in Sides
    BY <1>0, InHand DEF Sides
  <2>3. PICK p \in Levels : p = cursor[1]
    BY <1>0, InHand
  <2>4. Filled = Level(s, p)[cursor[2]]
    BY <1>3, <2>2, <2>3, OrderViews DEF Filled, LevelInHand
  <2>5. Peek(s, j) = Filled /\ Filled.system_id = j
    BY <1>0, <2>1, <2>3, <2>4, SlotLeads DEF Peek, BothBooks
  <2>6. Owned(s, r) = 0 /\ Owned(s, r)' = 0 /\ OnlyChanges(s, r)
    BY <1>3, <2>5 DEF Owned, Forgets, Rests
  <2>7. Mine(r)' = Mine(r) /\ \A k \in Ids \ {r} : Mine(k)' = Mine(k)
    BY <1>0, <2>6, MineAfter
  <2> QED BY <2>7
<1> QED BY <1>1, <1>2, <1>3, SettleEffect

(* A change that is announced: if the order is the sniper's, the           *)
(* acknowledgement goes out with the message, and until then nothing is    *)
(* claimed; if it is not, the change is none of the sniper's.              *)
LEMMA AnnouncedKnows ==
  ASSUME EngineInv, ClientKnows, NEW s \in Sides, NEW r \in Ids, OnlyChanges(s, r),
         UNCHANGED acks, pc \notin {"told", "publish"}, pc' = "publish",
         pending'.entry.system_id = r,
         pending'.entry.trade_id # 1 => Owned(s, r) = 0 /\ Owned(s, r)' = 0, NEW i \in Ids
  PROVE  ClientHolds(i)'
<1>0. BothBooks /\ ClientHolds(i)
  BY DEF EngineInv, ClientKnows
<1>1. Owed(i) = 0 /\ Owed(i)' = 0 /\ ~ Untold(i)
  BY DEF Owed, Untold
<1>2. CASE i # r
  <2>1. Mine(i)' = Mine(i)
    BY <1>2, MineSame DEF OnlyChanges
  <2> QED BY <1>0, <1>1, <2>1, ClientHoldsSame
<1>3. CASE i = r /\ pending'.entry.trade_id # 1
  <2>1. Mine(r)' = Mine(r)
    BY <1>0, <1>3, MineAfter
  <2> QED BY <1>0, <1>1, <1>3, <2>1, ClientHoldsSame
<1>4. CASE i = r /\ pending'.entry.trade_id = 1
  <2>1. Untold(i)'
    BY <1>4 DEF Untold
  <2> QED BY <1>0, <2>1, ClientHoldsSame
<1> QED BY <1>2, <1>3, <1>4

LEMMA ChangeKnows ==
  ASSUME EngineInv, ClientKnows, OwnerKept,
         RestOrder \/ UpdatePrice \/ UpdateQuantity \/ DeleteResting, NEW i \in Ids
  PROVE  ClientHolds(i)'
<1>0. BothBooks /\ HandlerTypeOK
  BY DEF EngineInv
<1>1. UNCHANGED acks /\ pc \notin {"told", "publish"} /\ pc' = "publish"
  BY DEF RestOrder, UpdatePrice, UpdateQuantity, DeleteResting, Announce, outVars
<1>2. CASE RestOrder
  <2>1. PICK s \in Sides, r \in Ids : Stores(s, r)
    BY <1>2, RestOrderEffect
  <2>2. /\ r = order.system_id /\ OnlyChanges(s, r) /\ ~ Rests(s, r)
        /\ Peek(s, r)' = EntryOf(order) /\ pending'.entry = EntryOf(order)
    BY <1>2, <2>1 DEF Stores, RestOrder, Announce
  <2>3. pending'.entry.system_id = r
    BY <2>2 DEF EntryOf
  <2>4. pending'.entry.trade_id # 1 => Owned(s, r) = 0 /\ Owned(s, r)' = 0
    BY <2>2 DEF Owned
  <2> QED BY <1>1, <2>2, <2>3, <2>4, AnnouncedKnows
<1>3. CASE UpdateQuantity
  <2>1. PICK s \in Sides, r \in Ids : Amends(s, r)
    BY <1>3, UpdateQuantityEffect
  <2>2. /\ s = order.order_type /\ r = order.system_id /\ OnlyChanges(s, r) /\ Rests(s, r)
        /\ Peek(s, r)'.trade_id \in {Peek(s, r).trade_id, order.trade_id}
        /\ pending'.entry = EntryOf(order) /\ pc = "update"
    BY <1>3, <2>1 DEF Amends, UpdateQuantity, Announce
  <2>3. pending'.entry.system_id = r /\ pending'.entry.trade_id = order.trade_id
    BY <2>2 DEF EntryOf
  <2>4. Peek(s, r).trade_id = order.trade_id /\ Peek(s, r)'.trade_id = order.trade_id
    BY <2>2 DEF OwnerKept
  <2>5. pending'.entry.trade_id # 1 => Owned(s, r) = 0 /\ Owned(s, r)' = 0
    BY <2>3, <2>4 DEF Owned
  <2> QED BY <1>1, <2>2, <2>3, <2>5, AnnouncedKnows
<1>4. CASE UpdatePrice \/ DeleteResting
  <2>1. PICK s \in Sides, r \in Ids :
          s = order.order_type /\ r = order.system_id /\ Forgets(s, r)
    BY <1>4, OwnDeletionEffect
  <2>2. PICK e \in Entry : e = Peek(s, r) /\ e.system_id = r
    BY <1>0, <2>1, SlotLeads DEF BothBooks, Forgets
  <2>3. pending'.entry.system_id = r /\ pending'.entry.trade_id = e.trade_id
    <3>1. CASE DeleteResting
      <4>1. e.trade_id = order.trade_id
        BY <2>1, <2>2, <3>1 DEF OwnerKept, DeleteResting, Forgets
      <4> QED BY <2>1, <3>1, <4>1 DEF DeleteResting, Announce, EntryOf
    <3>2. CASE UpdatePrice
      <4>1. OwnEntry(order) = e
        BY <2>1, <2>2, OrderViews
      <4>2. [e EXCEPT !.quantity = 0].system_id = r
            /\ [e EXCEPT !.quantity = 0].trade_id = e.trade_id
        BY <2>2 DEF Entry
      <4> QED BY <3>2, <4>1, <4>2 DEF UpdatePrice, Announce
    <3> QED BY <1>4, <3>1, <3>2
  <2>4. pending'.entry.trade_id # 1 => Owned(s, r) = 0 /\ Owned(s, r)' = 0
    BY <2>1, <2>2, <2>3 DEF Owned, Forgets, Rests
  <2>5. OnlyChanges(s, r)
    BY <2>1 DEF Forgets
  <2> QED BY <1>1, <2>3, <2>4, <2>5, AnnouncedKnows
<1> QED BY <1>2, <1>3, <1>4

(* What the acknowledgement of a change says is what rests.                *)
LEMMA PublishKnows ==
  ASSUME EngineInv, ClientKnows, AnnouncesOwn, PendingSays, Publish, NEW i \in Ids
  PROVE  ClientHolds(i)'
<1>0. /\ HandlerTypeOK /\ BothBooks /\ AcksTypeOK /\ IncomingAway /\ IdsHandedOut
      /\ pc = "publish" /\ pc' \in {"match", "finish"}
  BY DEF Publish, EngineInv, QueuesTypeOK, AcksTypeOK
<1>1. PICK n \in Nat, k \in Kinds : n = pending.entry.quantity /\ k = pending.type
  BY <1>0, InHand
<1>2. /\ pending.entry.system_id \in Ids /\ PriceIndex[pending.entry.price] \in Nat
      /\ acks' = Ack(acks, pending.entry, PriceIndex[pending.entry.price], k, n)
  BY <1>0, <1>1, InHand DEF Publish
<1>3. /\ \A x : AddsUp(i, x) => \E y : AddsUp(i, y)'
      /\ acks.lost \subseteq acks'.lost
      /\ i \notin acks'.lost => \A y : AddsUp(i, y)' =>
           \E x : /\ AddsUp(i, x)
                  /\ y = IF pending.entry.trade_id = 1 /\ pending.entry.system_id = i
                         THEN Told(x, k, n) ELSE x
  BY <1>0, <1>1, <1>2, BalanceAcked
<1>4. \A t \in Sides : Owned(t, i) \in Nat
  BY <1>0, OwnedTypes
<1>5. PICK h \in Nat : h = Mine(i)
  BY <1>4 DEF Mine, Sides
<1>6. Mine(i)' = h /\ Owed(i)' = 0 /\ Owed(i) = 0
  <2>1. Mine(i)' = Mine(i)
    BY <1>0, NoBookChanges, MineSame DEF Publish
  <2> QED BY <1>0, <1>5, <2>1 DEF Owed
<1>7. ASSUME pending.entry.trade_id = 1, pending.entry.system_id = i, NEW x
      PROVE  Told(x, k, n) = h
  <2>1. i = order.system_id /\ order.order_type \in Sides
    BY <1>0, <1>7, InHand DEF AnnouncesOwn, Sides
  <2>2. CASE k = "D"
    <3>1. ~ Rests("b", i) /\ ~ Rests("s", i)
      BY <1>0, <1>1, <2>1, <2>2 DEF IncomingAway, Sides
    <3>2. h = 0
      BY <1>5, <3>1, NothingHeld
    <3> QED BY <2>2, <3>2 DEF Told
  <2>3. CASE k \in {"N", "U"}
    <3>1. PICK s \in Sides : s = order.order_type
      BY <2>1
    <3>2. Rests(s, i) /\ Peek(s, i).quantity = n /\ Peek(s, i).trade_id = 1
      BY <1>0, <1>1, <1>7, <2>3, <3>1 DEF PendingSays
    <3>3. Owned(s, i) = n /\ Owned(Other(s), i) = 0
      BY <1>0, <3>2 DEF Owned, IdsHandedOut, Other, Sides
    <3>4. h = n
      BY <1>1, <1>5, <3>3 DEF Mine, Other, Sides
    <3> QED BY <2>3, <3>4 DEF Told
  <2> QED BY <1>0, <1>1, <2>2, <2>3 DEF PendingSays
<1>8. /\ \E x : AddsUp(i, x)
      /\ i \notin acks.lost /\ ~ (pending.entry.trade_id = 1 /\ pending.entry.system_id = i)
           => \A x : AddsUp(i, x) => x = h
  BY <1>5, <1>6 DEF ClientKnows, ClientHolds, Untold
<1>9. i \notin acks'.lost => \A y : AddsUp(i, y)' => y = h
  BY <1>3, <1>7, <1>8
<1> QED BY <1>3, <1>5, <1>6, <1>8, <1>9 DEF ClientHolds

LEMMA ClientKnowsStep ==
  ASSUME EngineInv, ClientKnows, AnnouncesOwn, PendingSays, OwnerKept, CursorLeads,
         [Next]_vars
  PROVE  ClientKnows'
<1>1. ASSUME UNCHANGED books, acks'.sent = acks.sent, acks'.lost = acks.lost,
             \/ UNCHANGED <<pc, pending>>
             \/ pc \notin {"told", "publish"} /\ pc' \notin {"told", "publish"}
      PROVE  ClientKnows'
  <2>1. ASSUME NEW i \in Ids
        PROVE  ClientHolds(i)'
    <3>1. Mine(i)' = Mine(i)
      BY <1>1, NoBookChanges, MineSame DEF EngineInv
    <3>2. Owed(i)' = Owed(i) /\ Untold(i)' = Untold(i)
      BY <1>1 DEF Owed, Untold
    <3> QED BY <1>1, <3>1, <3>2, ClientHoldsSame DEF ClientKnows
  <2> QED BY <2>1 DEF ClientKnows
<1>2. CASE StopMatching \/ EnterLevel \/ LeaveLevel \/ UpdateIgnored \/ Finish \/ Undefined
  BY <1>1, <1>2 DEF StopMatching, EnterLevel, LeaveLevel, UpdateIgnored, Finish, Undefined,
    OutOfBounds, outVars
<1>3. CASE Arrival
  <2>1. pc' \in {"match", "update", "delete"}
    BY <1>3, MatchingEngineAssumption DEF Arrival, ReadOrder, Handler, Request
  <2> QED BY <1>1, <1>3, <2>1 DEF Arrival, ReadOrder, outVars
<1>4. CASE TakeAck
  <2>1. acks = [sent |-> acks.sent, read |-> acks.read, lost |-> acks.lost]
    BY DEF EngineInv, QueuesTypeOK
  <2> QED BY <1>1, <1>4, <2>1 DEF TakeAck
<1>5. CASE PollEmpty \/ Stopped \/ UNCHANGED vars
  BY <1>1, <1>5 DEF PollEmpty, Stopped, vars, outVars
<1>6. CASE \/ TradeNext \/ TellResting \/ Settle \/ RestOrder \/ UpdatePrice
           \/ UpdateQuantity \/ DeleteResting \/ Publish
  BY <1>6, TradeNextKnows, TellRestingKnows, SettleKnows, ChangeKnows, PublishKnows
  DEF ClientKnows
<1> QED BY <1>2, <1>3, <1>4, <1>5, <1>6 DEF Next, Engine

ClientInv == ClientKnows /\ PendingSays /\ OwnerKept /\ CursorLeads

LEMMA ClientInvariant == Spec => []ClientInv
<1>1. Init => ClientInv
  <2>1. ASSUME Init, NEW i \in Ids
        PROVE  ClientHolds(i)
    <3>1. ~ Rests("b", i) /\ ~ Rests("s", i)
      BY <2>1 DEF Init, Buy!BookInit, Sell!BookInit, Rests, Slot, NoSlot,
            Buy!NoSlot, Sell!NoSlot, Ids
    <3>2. Mine(i) + Owed(i) = 0
      BY <2>1, <3>1, NothingHeld DEF Owed, Init
    <3>3. acks.sent = <<>>
      BY <2>1 DEF Init
    <3>4. \A f : IsBalance(f, i) <=> f = [n \in {0} |-> 0]
      <4>1. 0 .. Len(acks.sent) = {0}
        BY <3>3
      <4> QED BY <4>1 DEF IsBalance
    <3>5. PICK z : z = [n \in {0} |-> 0]
      OBVIOUS
    <3>6. z[0] = 0 /\ Len(acks.sent) = 0
      BY <3>3, <3>5
    <3>7. \A x : AddsUp(i, x) <=> x = 0
      BY <3>4, <3>5, <3>6 DEF AddsUp
    <3> QED BY <3>2, <3>7 DEF ClientHolds
  <2>2. Init => pc = "idle"
    BY DEF Init
  <2> QED BY <2>1, <2>2 DEF ClientInv, ClientKnows, PendingSays, OwnerKept, CursorLeads
<1>2. EngineInv /\ (FeedCovers /\ AnnouncesOwn) /\ ClientInv /\ [Next]_vars => ClientInv'
  BY ClientKnowsStep, PendingSaysStep, OwnerKeptStep, CursorLeadsStep DEF ClientInv
<1> QED BY <1>1, <1>2, EngineInvariant, FeedInvariant, PTL DEF Spec

(* Whenever the engine is idle the sniper's own count of an order, from    *)
(* the acknowledgements that changeInQuantity and aggresiveMatch sent for  *)
(* it, is what rests in the books, as long as Ack dropped none of them.    *)
THEOREM EngineClientView == Spec => []ClientView
<1>1. ASSUME EngineInv, ClientInv, pc = "idle", NEW i \in Ids \ acks.lost
      PROVE  IF OwnedBySniper(i) THEN OpenByAcks(i) = InBook(i) ELSE OpenByAcks(i) = 0
  <2>1. OpenByAcks(i) = Mine(i)
    <3>1. ClientHolds(i) /\ Owed(i) = 0 /\ ~ Untold(i)
      BY <1>1 DEF ClientInv, ClientKnows, Owed, Untold
    <3>2. AddsUp(i, OpenByAcks(i))
      BY <3>1, OpenAddsUp DEF ClientHolds
    <3>3. OpenByAcks(i) = Mine(i) + 0
      BY <1>1, <3>1, <3>2 DEF ClientHolds
    <3>4. \A t \in Sides : Owned(t, i) \in Nat
      BY <1>1, OwnedTypes DEF EngineInv
    <3> QED BY <3>3, <3>4 DEF Mine, Sides
  <2>2. OwnedBySniper(i) <=> \E s \in Sides : Rests(s, i) /\ Peek(s, i).trade_id = 1
    BY DEF OwnedBySniper, Buy!Resting, Sell!Resting, Buy!PeekOrder, Sell!PeekOrder,
      Buy!EntryAt, Sell!EntryAt, Rests, Slot, Peek, Level, NoSlot, Buy!NoSlot, Sell!NoSlot,
      Sides
  <2>3. ~ (Rests("b", i) /\ Rests("s", i))
    BY <1>1 DEF EngineInv, IdsHandedOut
  <2>4. Mine(i) = IF OwnedBySniper(i) THEN InBook(i) ELSE 0
    BY <2>2, <2>3, InBookHeld DEF Mine, Owned, Held, Sides
  <2> QED BY <2>1, <2>4
<1>2. EngineInv /\ ClientInv => ClientView
  BY <1>1 DEF ClientView
<1> QED BY <1>2, EngineInvariant, ClientInvariant, PTL

-----------------------------------------------------------------------------
(* Accounts of creations.  What the program's proof needs to know of the   *)
(* engine when no request amends: a step tells as much as it takes from    *)
(* what is left of an order, and tells of each trade twice.                *)

OnlyCreates ==
  /\ order # None => order.req_type = "c"
  /\ pc \notin {"update", "delete"}
  /\ pc = "publish" => pending.type = "N"

LEMMA OnlyCreatesStep ==
  ASSUME OnlyCreates, HandlerTypeOK, \A q \in Requests : q.req_type = "c", [Next]_vars
  PROVE  OnlyCreates'
<1>1. CASE Arrival
  <2>1. PICK req : req.req_type = "c" /\ ReadOrder(req)
    BY <1>1 DEF Arrival
  <2> QED BY <2>1 DEF ReadOrder, Handler, OnlyCreates
<1>2. CASE TradeNext
  <2>1. pc = "scan" /\ pc' = "told" /\ \E n : order' = [order EXCEPT !.quantity = n]
    BY <1>2 DEF TradeNext
  <2>2. order \in LOBOrder
    BY <2>1, InHand
  <2>3. order'.req_type = order.req_type
    BY <2>1, <2>2 DEF LOBOrder
  <2>4. order # None
    BY <2>1 DEF HandlerTypeOK
  <2> QED BY <2>1, <2>3, <2>4 DEF OnlyCreates
<1> QED BY <1>1, <1>2 DEF OnlyCreates, Next, Engine, StopMatching, EnterLevel, TellResting,
  LeaveLevel, Settle, RestOrder, UpdateIgnored, UpdatePrice, UpdateQuantity, DeleteResting,
  Publish, Finish, Undefined, Announce, TakeAck, PollEmpty, Stopped, vars

(* What is left of an order: what rests, what is still to be matched, and  *)
(* a trade its owner is still to be told of.                               *)
StillIn(i) ==
  IF Matching \/ pc = "undefined" THEN IF order.system_id = i THEN order.quantity ELSE 0 ELSE 0

DueTo(i) == IF pc = "told" /\ pending.entry.system_id = i THEN pending.entry.quantity ELSE 0

Left(i) == InBook(i) + StillIn(i) + DueTo(i)

(* What a message tells of trades of an order.                             *)
TradedBy(m, i) == IF m.status = "T" /\ m.system_id = i THEN m.quantity ELSE 0

(* A step that says nothing of a trade, and one that tells m: of a trade,  *)
(* first the owner of the incoming order, then that of the entry.          *)
TellsNoTrade == pc # "told" /\ pc' # "told"

TellsTrade(m, id, n) == m.status = "T" /\ m.system_id = id /\ m.quantity = n

Tells(m) ==
  /\ pc' = "told" => TellsTrade(m, order.system_id, pending'.entry.quantity)
  /\ pc = "told" => TellsTrade(m, pending.entry.system_id, pending.entry.quantity)
  /\ TellsNoTrade => m.status # "T"
  /\ ~ (pc = "told" /\ pc' = "told")

(* A message is sent that tells of what was taken from what is left, or    *)
(* none is, and then nothing was taken, or the message was dropped.        *)
Accounted ==
  \/ /\ acks'.sent = acks.sent /\ acks'.lost = acks.lost /\ TellsNoTrade
     /\ \A i \in Ids : Left(i)' = Left(i)
  \/ /\ acks'.sent = acks.sent /\ acks'.lost # {}
     /\ \A i \in Ids : Left(i)' <= Left(i)
  \/ /\ acks'.lost = acks.lost
     /\ \E m \in AckMessage : /\ acks'.sent = Append(acks.sent, m) /\ Tells(m)
                              /\ \A i \in Ids : Left(i)' + TradedBy(m, i) = Left(i)

LEMMA LeftTypes ==
  ASSUME EngineInv, NEW i \in Ids
  PROVE  InBook(i) \in Nat /\ StillIn(i) \in Nat /\ DueTo(i) \in Nat /\ Left(i) \in Nat
<1>0. HandlerTypeOK /\ BothBooks
  BY DEF EngineInv
<1>1. InBook(i) \in Nat
  BY <1>0, InBookHeld, HeldTypes DEF Sides
<1>2. StillIn(i) \in Nat
  BY <1>0, InHand DEF StillIn, Matching
<1>3. DueTo(i) \in Nat
  BY <1>0, InHand DEF DueTo
<1> QED BY <1>1, <1>2, <1>3 DEF Left

(* An acknowledgement to the sniper is sent whole or is lost.              *)
LEMMA AckTells ==
  ASSUME AcksTypeOK, NEW e, e.system_id \in Ids, e.trade_id = 1, NEW price \in Nat,
         NEW status \in Kinds, NEW n \in Nat, acks' = Ack(acks, e, price, status, n)
  PROVE  \/ acks'.sent = acks.sent /\ acks'.lost # {}
         \/ \E m \in AckMessage : /\ acks'.sent = Append(acks.sent, m) /\ acks'.lost = acks.lost
                                  /\ m.system_id = e.system_id /\ m.status = status
                                  /\ m.quantity = n
<1> DEFINE m == [system_id |-> e.system_id, price |-> price, quantity |-> n, status |-> status]
<1>1. acks = [sent |-> acks.sent, read |-> acks.read, lost |-> acks.lost]
  BY DEF AcksTypeOK
<1>2. m \in AckMessage /\ m.system_id = e.system_id /\ m.status = status /\ m.quantity = n
  BY DEF AckMessage
<1> HIDE DEF m
<1>3. CASE acks' = [acks EXCEPT !.sent = Append(@, m)]
  <2>1. acks'.sent = Append(acks.sent, m) /\ acks'.lost = acks.lost
    BY <1>1, <1>3
  <2> QED BY <1>2, <2>1
<1>4. CASE acks' = [acks EXCEPT !.lost = @ \cup {e.system_id}]
  <2>1. acks'.sent = acks.sent /\ acks'.lost = acks.lost \cup {e.system_id}
    BY <1>1, <1>4
  <2> QED BY <2>1
<1> QED BY <1>3, <1>4 DEF Ack, m

(* What an acknowledgement to the sniper makes of the accounts, given what *)
(* the step takes from what is left.                                       *)
LEMMA AckAccounts ==
  ASSUME EngineInv, NEW e, e.system_id \in Ids, e.trade_id = 1, NEW price \in Nat,
         NEW status \in Kinds, NEW n \in Nat, acks' = Ack(acks, e, price, status, n),
         \A m : m.status = status /\ m.system_id = e.system_id /\ m.quantity = n => Tells(m),
         \A i \in Ids : Left(i) = Left(i)' + IF status = "T" /\ e.system_id = i THEN n ELSE 0,
         \A i \in Ids : Left(i)' \in Nat
  PROVE  Accounted
<1>1. AcksTypeOK
  BY DEF EngineInv, QueuesTypeOK, AcksTypeOK
<1>2. CASE acks'.sent = acks.sent /\ acks'.lost # {}
  <2>1. \A i \in Ids : Left(i)' <= Left(i)
    OBVIOUS
  <2> QED BY <1>2, <2>1 DEF Accounted
<1>3. CASE \E m \in AckMessage : /\ acks'.sent = Append(acks.sent, m) /\ acks'.lost = acks.lost
                                /\ m.system_id = e.system_id /\ m.status = status
                                /\ m.quantity = n
  <2>1. PICK m \in AckMessage : /\ acks'.sent = Append(acks.sent, m) /\ acks'.lost = acks.lost
                                /\ m.system_id = e.system_id /\ m.status = status
                                /\ m.quantity = n
    BY <1>3
  <2>2. \A i \in Ids : TradedBy(m, i) = IF status = "T" /\ e.system_id = i THEN n ELSE 0
    BY <2>1 DEF TradedBy
  <2>3. \A i \in Ids : Left(i)' + TradedBy(m, i) = Left(i)
    BY <2>2
  <2>4. Tells(m)
    BY <2>1
  <2> QED BY <2>1, <2>3, <2>4 DEF Accounted
<1> QED BY <1>1, <1>2, <1>3, AckTells

(* A step that touches neither the books nor what is in hand. *)
LEMMA QuietAccounts ==
  ASSUME EngineInv, TellsNoTrade, UNCHANGED acks, \A i \in Ids : InBook(i)' = InBook(i),
         \A i \in Ids : StillIn(i)' = StillIn(i)
  PROVE  Accounted
<1>1. \A i \in Ids : DueTo(i) = 0 /\ DueTo(i)' = 0
  BY DEF DueTo, TellsNoTrade
<1>2. \A i \in Ids : Left(i)' = Left(i)
  BY <1>1 DEF Left
<1> QED BY <1>2 DEF Accounted

LEMMA TradeNextAccounts ==
  ASSUME EngineInv, Traders = {1}, TradeNext
  PROVE  Accounted
<1>0. /\ HandlerTypeOK /\ BothBooks /\ pc = "scan" /\ pc' = "told"
      /\ ~ Rests("b", order.system_id) /\ ~ Rests("s", order.system_id)
      /\ order \in LOBOrder /\ order.system_id \in Ids /\ order.quantity \in Nat
      /\ cursor[1] \in Nat /\ "T" \in Kinds
  BY InHand DEF TradeNext, EngineInv, IncomingAway, Matching, Sides, Kinds, Levels
<1>1. PICK s \in Sides, r \in Ids, n \in Nat : TradesWith(s, r, n)
  BY TradeNextEffect
<1>2. /\ Rests(s, r) /\ OnlyChanges(s, r) /\ n <= Peek(s, r).quantity /\ n <= order.quantity
      /\ acks' = Ack(acks, order, cursor[1], "T", n) /\ order' = [order EXCEPT !.quantity = @ - n]
  BY <1>1 DEF TradesWith
<1>3. PICK e \in Entry : e = Peek(s, r) /\ e.system_id = r /\ e.quantity \in Nat
  <2>1. Peek(s, r) \in Entry /\ Peek(s, r).system_id = r
    BY <1>0, <1>2, SlotLeads DEF BothBooks
  <2> QED BY <2>1 DEF Entry
<1>4. /\ Peek(s, r)'.quantity = e.quantity - n /\ Rests(s, r)'
      /\ pending'.entry.quantity = n /\ pending'.entry.system_id = r
      /\ order'.system_id = order.system_id /\ order'.quantity = order.quantity - n
      /\ order.trade_id = 1
  BY <1>0, <1>1, <1>2, <1>3 DEF TradesWith, Rests, Entry, LOBOrder
<1>5. PICK h \in Nat : h = e.quantity - n
  BY <1>2, <1>3
<1>6. /\ InBook(r) = Held(s, r) + Held(Other(s), r) /\ InBook(r)' = h + Held(Other(s), r)
      /\ \A j \in Ids \ {r} : InBook(j)' = InBook(j)
      /\ Held(s, r) = e.quantity /\ Held(Other(s), r) \in Nat
  <2>1. Held(s, r)' = h /\ Held(s, r) = e.quantity
    BY <1>2, <1>3, <1>4, <1>5 DEF Held
  <2>2. Held(Other(s), r) \in Nat
    BY <1>0, HeldTypes DEF Other, Sides
  <2> QED BY <1>0, <1>2, <2>1, <2>2, InBookAfter
<1>7. \A i \in Ids : InBook(i) = InBook(i)' + IF i = r THEN n ELSE 0
  BY <1>2, <1>3, <1>5, <1>6, LeftTypes
<1>8. ASSUME NEW i \in Ids
      PROVE  /\ StillIn(i) = StillIn(i)' + IF order.system_id = i THEN n ELSE 0
             /\ DueTo(i) = 0 /\ DueTo(i)' = IF i = r THEN n ELSE 0
  BY <1>0, <1>2, <1>4 DEF StillIn, DueTo, Matching
<1>9. ASSUME NEW i \in Ids
      PROVE  /\ Left(i) = Left(i)' + IF "T" = "T" /\ order.system_id = i THEN n ELSE 0
             /\ Left(i)' \in Nat
  <2>1. InBook(i)' \in Nat /\ StillIn(i)' \in Nat
    <3>1. InBook(i) \in Nat /\ StillIn(i) \in Nat
      BY LeftTypes
    <3>2. CASE i = r
      BY <1>2, <1>3, <1>5, <1>6, <3>1, <3>2, <1>8, <1>0, <1>4 DEF StillIn, Matching
    <3>3. CASE i # r
      BY <1>6, <3>1, <3>3, <1>0, <1>4, <1>5, <1>2 DEF StillIn, Matching
    <3> QED BY <3>2, <3>3
  <2> QED BY <1>7, <1>8, <2>1 DEF Left
<1>10. \A m : m.status = "T" /\ m.system_id = order.system_id /\ m.quantity = n => Tells(m)
  BY <1>0, <1>4 DEF Tells, TellsTrade, TellsNoTrade
<1> QED BY <1>0, <1>2, <1>4, <1>9, <1>10, AckAccounts

LEMMA TellRestingAccounts ==
  ASSUME EngineInv, Traders = {1}, TellResting
  PROVE  Accounted
<1>0. /\ HandlerTypeOK /\ BothBooks /\ pc = "told" /\ pc' = "settle"
      /\ UNCHANGED <<books, order>> /\ cursor[1] \in Nat /\ "T" \in Kinds
  BY InHand DEF TellResting, EngineInv, Kinds, Levels
<1>1. PICK e \in Entry : e = pending.entry /\ e.system_id \in Ids /\ e.quantity \in Nat
  BY <1>0, InHand
<1>2. e.trade_id = 1 /\ acks' = Ack(acks, e, cursor[1], "T", e.quantity)
  BY <1>1 DEF Entry, TellResting
<1>3. ASSUME NEW i \in Ids
      PROVE  /\ Left(i) = Left(i)' + IF "T" = "T" /\ e.system_id = i THEN e.quantity ELSE 0
             /\ Left(i)' \in Nat
  <2>1. InBook(i)' = InBook(i)
    BY <1>0, NoBookChanges, InBookSame
  <2>2. StillIn(i)' = StillIn(i)
    BY <1>0 DEF StillIn, Matching
  <2>3. DueTo(i) = (IF e.system_id = i THEN e.quantity ELSE 0) /\ DueTo(i)' = 0
    BY <1>0, <1>1 DEF DueTo
  <2> QED BY <1>1, <2>1, <2>2, <2>3, LeftTypes DEF Left
<1>4. \A m : m.status = "T" /\ m.system_id = e.system_id /\ m.quantity = e.quantity => Tells(m)
  BY <1>0, <1>1 DEF Tells, TellsTrade, TellsNoTrade
<1> QED BY <1>0, <1>1, <1>2, <1>3, <1>4, AckAccounts

LEMMA SettleAccounts ==
  ASSUME EngineInv, CursorLeads, Settle
  PROVE  Accounted
<1>0. /\ HandlerTypeOK /\ BothBooks /\ pc = "settle" /\ pc' \in {"match", "scan"}
      /\ UNCHANGED <<acks, order>>
  BY DEF Settle, EngineInv, outVars
<1>1. \A i \in Ids : InBook(i)' = InBook(i)
  <2>1. CASE UNCHANGED books
    BY <1>0, <2>1, NoBookChanges, InBookSame
  <2>2. ASSUME NEW s \in Sides, NEW r \in Ids, s = Other(order.order_type),
               Filled.quantity = 0, r = Filled.system_id, Forgets(s, r)
        PROVE  \A i \in Ids : InBook(i)' = InBook(i)
    <3>1. PICK j \in Ids : Rests(s, j) /\ Slot(s, j) = cursor
      BY <1>0, <2>2 DEF CursorLeads
    <3>2. order.order_type \in Sides
      BY <1>0, InHand DEF Sides
    <3>3. PICK p \in Levels : p = cursor[1]
      BY <1>0, InHand
    <3>4. Filled = Level(s, p)[cursor[2]]
      BY <2>2, <3>2, <3>3, OrderViews DEF Filled, LevelInHand
    <3>5. Peek(s, j) = Filled /\ Filled.system_id = j
      BY <1>0, <3>1, <3>3, <3>4, SlotLeads DEF Peek, BothBooks
    <3>6. Held(s, r) = 0 /\ Held(s, r)' = 0 /\ OnlyChanges(s, r)
      BY <2>2, <3>5 DEF Held, Forgets, Rests
    <3>7. InBook(r)' = InBook(r) /\ \A k \in Ids \ {r} : InBook(k)' = InBook(k)
      BY <1>0, <3>6, InBookAfter
    <3> QED BY <3>7
  <2> QED BY <2>1, <2>2, SettleEffect
<1>2. \A i \in Ids : StillIn(i)' = StillIn(i)
  BY <1>0 DEF StillIn, Matching
<1> QED BY <1>0, <1>1, <1>2, QuietAccounts DEF TellsNoTrade

(* What rests is what was in hand. *)
LEMMA RestAccounts ==
  ASSUME EngineInv, RestOrder
  PROVE  Accounted
<1>0. /\ HandlerTypeOK /\ BothBooks /\ pc = "rest" /\ pc' = "publish" /\ UNCHANGED acks
      /\ ~ Rests("b", order.system_id) /\ ~ Rests("s", order.system_id)
      /\ order.quantity \in Nat /\ EntryOf(order).quantity = order.quantity
  BY InHand DEF RestOrder, Announce, EngineInv, outVars, IncomingAway, Matching, Sides
<1>1. PICK s \in Sides, r \in Ids : Stores(s, r)
  BY RestOrderEffect
<1>2. /\ r = order.system_id /\ OnlyChanges(s, r) /\ Rests(s, r)'
      /\ Peek(s, r)' = EntryOf(order)
  <2>1. \E p \in Levels : \E c : Slot(s, r)' = <<p, c>>
    BY <1>1 DEF Stores
  <2>2. Rests(s, r)'
    BY <2>1 DEF Rests, NoSlot, Buy!NoSlot, Levels
  <2> QED BY <1>1, <2>2 DEF Stores
<1>3. Held(s, r)' = order.quantity /\ Held(s, r) = 0 /\ Held(Other(s), r) = 0
  BY <1>0, <1>2 DEF Held, Other, Sides
<1>4. /\ InBook(r) = 0 /\ InBook(r)' = order.quantity
      /\ \A i \in Ids \ {r} : InBook(i)' = InBook(i)
  BY <1>0, <1>2, <1>3, InBookAfter
<1>5. ASSUME NEW i \in Ids
      PROVE  Left(i)' = Left(i)
  <2>1. DueTo(i) = 0 /\ DueTo(i)' = 0 /\ StillIn(i)' = 0
    BY <1>0 DEF DueTo, StillIn, Matching
  <2>2. StillIn(i) = IF i = r THEN order.quantity ELSE 0
    BY <1>0, <1>2 DEF StillIn, Matching
  <2> QED BY <1>0, <1>4, <2>1, <2>2, LeftTypes DEF Left
<1> QED BY <1>0, <1>5 DEF Accounted, TellsNoTrade

LEMMA AccountStep ==
  ASSUME EngineInv, CursorLeads, OnlyCreates, Traders = {1}, Engine
  PROVE  Accounted
<1>0. HandlerTypeOK /\ BothBooks
  BY DEF EngineInv
<1>1. CASE StopMatching \/ EnterLevel \/ LeaveLevel \/ Finish \/ Undefined
  <2>1. UNCHANGED <<books, acks>> /\ TellsNoTrade
    BY <1>1 DEF StopMatching, EnterLevel, LeaveLevel, Finish, Undefined, OutOfBounds, outVars,
      TellsNoTrade
  <2>2. \A i \in Ids : InBook(i)' = InBook(i)
    BY <1>0, <2>1, NoBookChanges, InBookSame
  <2>3. ASSUME NEW i \in Ids
        PROVE  StillIn(i)' = StillIn(i)
    <3>1. CASE StopMatching
      <4>1. pc = "match" /\ order.quantity \in Nat /\ UNCHANGED order
            /\ pc' = IF order.quantity > 0 THEN "rest" ELSE "finish"
        BY <1>0, <3>1, InHand DEF StopMatching
      <4> QED BY <4>1 DEF StillIn, Matching
    <3>2. CASE EnterLevel \/ LeaveLevel
      BY <3>2 DEF EnterLevel, LeaveLevel, StillIn, Matching
    <3>3. CASE Finish
      BY <3>3 DEF Finish, StillIn, Matching
    <3>4. CASE Undefined
      BY <3>4 DEF Undefined, OutOfBounds, OnlyCreates, StillIn, Matching
    <3> QED BY <1>1, <3>1, <3>2, <3>3, <3>4
  <2> QED BY <2>1, <2>2, <2>3, QuietAccounts
<1>2. CASE Publish
  <2>1. /\ pc = "publish" /\ pc' = "finish" /\ UNCHANGED books /\ pending.type = "N"
        /\ acks' = Ack(acks, pending.entry, PriceIndex[pending.entry.price], "N",
                       pending.entry.quantity)
    BY <1>2 DEF Publish, OnlyCreates
  <2>2. PICK e \in Entry : /\ e = pending.entry /\ e.system_id \in Ids /\ e.quantity \in Nat
                           /\ PriceIndex[e.price] \in Nat
    BY <1>0, <2>1, InHand
  <2>3. e.trade_id = 1 /\ "N" \in Kinds
    BY <2>2 DEF Entry, Kinds
  <2>4. ASSUME NEW i \in Ids
        PROVE  /\ Left(i) = Left(i)' + IF "N" = "T" /\ e.system_id = i THEN e.quantity ELSE 0
               /\ Left(i)' \in Nat
    <3>1. InBook(i)' = InBook(i)
      BY <1>0, <2>1, NoBookChanges, InBookSame
    <3>2. StillIn(i)' = StillIn(i) /\ DueTo(i) = 0 /\ DueTo(i)' = 0
      BY <2>1 DEF StillIn, DueTo, Matching
    <3> QED BY <3>1, <3>2, LeftTypes DEF Left
  <2>5. \A m : m.status = "N" => Tells(m)
    BY <2>1 DEF Tells, TellsNoTrade
  <2> QED BY <2>1, <2>2, <2>3, <2>4, <2>5, AckAccounts
<1>3. CASE TradeNext
  BY <1>3, TradeNextAccounts
<1>4. CASE TellResting
  BY <1>4, TellRestingAccounts
<1>5. CASE Settle
  BY <1>5, SettleAccounts
<1>6. CASE RestOrder
  BY <1>6, RestAccounts
<1>7. CASE UpdateIgnored \/ UpdatePrice \/ UpdateQuantity \/ DeleteResting
  BY <1>7 DEF UpdateIgnored, UpdatePrice, UpdateQuantity, DeleteResting, OnlyCreates
<1> QED BY <1>1, <1>2, <1>3, <1>4, <1>5, <1>6, <1>7 DEF Engine

(* Nothing comes to rest but the request in hand, on its own side. *)
LEMMA RestsGrow ==
  ASSUME EngineInv, [Next]_vars, NEW t \in Sides, NEW i \in Ids, Rests(t, i)'
  PROVE  Rests(t, i) \/ (pc = "rest" /\ t = order.order_type /\ i = order.system_id)
<1>0. BothBooks
  BY DEF EngineInv
<1>1. CASE UNCHANGED books
  BY <1>0, <1>1, NoBookChanges DEF SameSlot, Rests
<1>2. CASE TradeNext
  <2>1. PICK s \in Sides, r \in Ids, n \in Nat : TradesWith(s, r, n)
    BY <1>2, TradeNextEffect
  <2> QED BY <2>1, RestsAfter DEF TradesWith
<1>3. CASE Settle
  <2>1. ASSUME NEW s \in Sides, NEW r \in Ids, Forgets(s, r)
        PROVE  Rests(t, i)
    BY <2>1, RestsAfter DEF Forgets
  <2> QED BY <1>1, <1>3, <2>1, SettleEffect
<1>4. CASE RestOrder
  <2>1. PICK s \in Sides, r \in Ids : Stores(s, r)
    BY <1>4, RestOrderEffect
  <2> QED BY <1>4, <2>1, RestsAfter DEF Stores, RestOrder
<1>5. CASE UpdatePrice \/ DeleteResting
  <2>1. PICK s \in Sides, r \in Ids : Forgets(s, r)
    BY <1>5, OwnDeletionEffect
  <2> QED BY <2>1, RestsAfter DEF Forgets
<1>6. CASE UpdateQuantity
  <2>1. PICK s \in Sides, r \in Ids : Amends(s, r)
    BY <1>6, UpdateQuantityEffect
  <2> QED BY <2>1, RestsAfter DEF Amends
<1> QED BY <1>1, <1>2, <1>3, <1>4, <1>5, <1>6 DEF Next, Engine, StopMatching, EnterLevel,
  TellResting, LeaveLevel, UpdateIgnored, Publish, Finish, Undefined, Arrival, ReadOrder, TakeAck,
  PollEmpty, Stopped, vars

(* The owner still to be told of a trade is on the side the order is not.  *)
PendingOpposite ==
  \A s \in Sides : pc = "told" /\ s = Other(order.order_type) => Rests(s, pending.entry.system_id)

LEMMA PendingOppositeStep ==
  ASSUME EngineInv, PendingOpposite, [Next]_vars
  PROVE  PendingOpposite'
<1>0. BothBooks /\ HandlerTypeOK
  BY DEF EngineInv
<1>1. CASE TradeNext
  <2>1. PICK s \in Sides, r \in Ids, n \in Nat : TradesWith(s, r, n)
    BY <1>1, TradeNextEffect
  <2>2. order \in LOBOrder
    BY <1>0, <1>1, InHand DEF TradeNext
  <2>3. order'.order_type = order.order_type /\ s = Other(order.order_type)
    BY <2>1, <2>2 DEF TradesWith, LOBOrder
  <2>4. Peek(s, r) \in Entry /\ Peek(s, r).system_id = r
    BY <1>0, <2>1, SlotLeads DEF BothBooks, TradesWith
  <2>5. pending'.entry.system_id = r
    BY <2>1, <2>4 DEF TradesWith, Entry
  <2>6. Rests(s, r)'
    BY <2>1 DEF TradesWith, Rests
  <2> QED BY <2>3, <2>5, <2>6 DEF PendingOpposite
<1>2. CASE TakeAck \/ PollEmpty \/ Stopped \/ UNCHANGED vars
  <2>1. UNCHANGED <<books, pc, order, pending>>
    BY <1>2 DEF TakeAck, PollEmpty, Stopped, vars
  <2>2. \A s \in Sides : \A i : Rests(s, i)' = Rests(s, i)
    BY <2>1 DEF books, buyVars, sellVars, Rests, Slot
  <2> QED BY <2>1, <2>2 DEF PendingOpposite
<1>3. CASE Arrival
  BY <1>3, MatchingEngineAssumption DEF Arrival, ReadOrder, Handler, Request, PendingOpposite
<1>4. CASE \/ StopMatching \/ EnterLevel \/ TellResting \/ LeaveLevel \/ Settle \/ RestOrder
           \/ UpdateIgnored \/ UpdatePrice \/ UpdateQuantity \/ DeleteResting \/ Publish
           \/ Finish \/ Undefined
  <2>1. pc' # "told"
    BY <1>4 DEF StopMatching, EnterLevel, TellResting, LeaveLevel, Settle, RestOrder,
      UpdateIgnored, UpdatePrice, UpdateQuantity, DeleteResting, Publish, Finish, Undefined,
      Announce
  <2> QED BY <2>1 DEF PendingOpposite
<1> QED BY <1>1, <1>2, <1>3, <1>4 DEF Next, Engine

-----------------------------------------------------------------------------
(* Whom the engine lets trade with whom: the books never cross, the best   *)
(* prices are exact, and matching follows price and time.                  *)

(* Price a reaches price b for an order of side s: it would trade there.   *)
Reaches(s, a, b) == IF s = "b" THEN a >= b ELSE a <= b

(* Crosses compares the price of the order with the best of the other side.*)
LEMMA CrossesReaches ==
  ASSUME NEW o, o.order_type \in Sides
  PROVE  /\ Crosses(o) = Reaches(o.order_type, PriceIndex[o.price], Best(Other(o.order_type)))
         /\ NoLevel(o) = \/ Best(Other(o.order_type)) >= MaxPrice
                         \/ Level(Other(o.order_type), Best(Other(o.order_type))) = <<>>
<1>1. Crosses(o) = Reaches(o.order_type, PriceIndex[o.price], Best(Other(o.order_type)))
  <2>1. CASE o.order_type = "b"
    BY <2>1 DEF Crosses, IsBuy, Reaches, Best, Other
  <2>2. CASE o.order_type = "s"
    BY <2>2 DEF Crosses, IsBuy, Reaches, Best, Other
  <2> QED BY <2>1, <2>2 DEF Sides
<1>2. /\ OppositeBest(o) = Best(Other(o.order_type))
      /\ OppositeLevel(o, OppositeBest(o)) = Level(Other(o.order_type), OppositeBest(o))
  BY OrderViews
<1> QED BY <1>1, <1>2 DEF NoLevel

(* A step that stores no order leaves every order in its level.            *)
LEMMA LevelsKept ==
  ASSUME EngineInv, [Next]_vars, ~ RestOrder, NEW t \in Sides, NEW i \in Ids, Rests(t, i)'
  PROVE  Rests(t, i) /\ Slot(t, i)'[1] = Slot(t, i)[1]
<1>0. BothBooks
  BY DEF EngineInv
<1>1. ASSUME UNCHANGED books
      PROVE  Rests(t, i) /\ Slot(t, i)' = Slot(t, i)
  BY <1>0, <1>1, NoBookChanges DEF SameSlot, Rests
<1>2. CASE \/ StopMatching \/ EnterLevel \/ TellResting \/ LeaveLevel \/ UpdateIgnored
           \/ Publish \/ Finish \/ Undefined \/ Arrival \/ TakeAck \/ PollEmpty \/ Stopped
           \/ UNCHANGED vars
  <2>1. UNCHANGED books
    BY <1>2 DEF StopMatching, EnterLevel, TellResting, LeaveLevel, UpdateIgnored,
      Publish, Finish, Undefined, Arrival, ReadOrder, TakeAck, PollEmpty, Stopped, vars
  <2> QED BY <1>1, <2>1
<1>3. ASSUME NEW s \in Sides, NEW r \in Ids, OnlyChanges(s, r),
             \/ Rests(s, r) /\ Slot(s, r)'[1] = Slot(s, r)[1]
             \/ Slot(s, r)' = NoSlot
      PROVE  Rests(t, i) /\ Slot(t, i)'[1] = Slot(t, i)[1]
  BY <1>3 DEF OnlyChanges, SameSlot, Rests, NoSlot, Buy!NoSlot
<1>4. CASE TradeNext
  BY <1>3, <1>4, TradeNextEffect DEF TradesWith
<1>5. CASE Settle
  <2>1. CASE UNCHANGED books
    BY <1>1, <2>1
  <2>2. CASE \E s \in Sides, r \in Ids : Forgets(s, r)
    BY <1>3, <2>2 DEF Forgets
  <2> QED BY <1>5, <2>1, <2>2, SettleEffect
<1>6. CASE UpdatePrice \/ DeleteResting
  BY <1>3, <1>6, OwnDeletionEffect DEF Forgets
<1>7. CASE UpdateQuantity
  BY <1>3, <1>7, UpdateQuantityEffect DEF Amends
<1> QED BY <1>2, <1>4, <1>5, <1>6, <1>7 DEF Next, Engine

-----------------------------------------------------------------------------
(* The books do not cross. *)

Uncrossed ==
  \A i, j \in Ids : Rests("b", i) /\ Rests("s", j) => Slot("b", i)[1] < Slot("s", j)[1]

(* An order about to rest reaches no order of the other side.              *)
ReachesNothing ==
  \A s \in Sides, p \in Nat, j \in Ids :
    /\ pc = "rest" /\ s = order.order_type /\ p = PriceIndex[order.price]
    /\ Rests(Other(s), j)
    => ~ Reaches(s, p, Slot(Other(s), j)[1])

LEMMA OtherSide == \A s \in Sides : Other(s) \in Sides /\ Other(s) # s /\ Other(Other(s)) = s
BY DEF Sides, Other

LEMMA UncrossedStep ==
  ASSUME EngineInv, Uncrossed, ReachesNothing, [Next]_vars
  PROVE  Uncrossed' /\ ReachesNothing'
<1>0. /\ BothBooks /\ HandlerTypeOK /\ "b" \in Sides /\ "s" \in Sides
      /\ Other("b") = "s" /\ Other("s") = "b"
  BY DEF EngineInv, Sides, Other
<1>1. ASSUME ~ RestOrder
      PROVE  Uncrossed'
  BY <1>0, <1>1, LevelsKept DEF Uncrossed
<1>2. CASE StopMatching
  <2>1. ASSUME NEW s \in Sides, NEW p \in Nat, NEW j \in Ids, pc' = "rest",
               s = order.order_type, p = PriceIndex[order.price], Rests(Other(s), j)
        PROVE  ~ Reaches(s, p, Slot(Other(s), j)[1])
    <3>1. PICK t \in Sides : t = Other(s) /\ BookOK(t) /\ Rests(t, j)
      BY <1>0, <2>1, OtherSide DEF BothBooks
    <3>2. ~ NoLevel(order)
      BY <2>1, <3>1, CrossesReaches, NoLevelMeansEmpty
    <3>3. ~ Reaches(s, p, Best(t))
      BY <1>2, <2>1, <3>1, <3>2, CrossesReaches DEF StopMatching, MayTrade
    <3>4. /\ Best(t) \in Nat /\ Slot(t, j)[1] \in Nat
          /\ IF t = "b" THEN Slot(t, j)[1] <= Best(t) ELSE Slot(t, j)[1] >= Best(t)
      <4>1. MaxPrice \in Nat
        BY BookConstants
      <4> QED BY <3>1, <4>1, BestBounds, BookTypes, SlotLeads DEF Levels
    <3> QED BY <3>1, <3>3, <3>4 DEF Reaches, Other, Sides
  <2>2. UNCHANGED <<books, order>>
    BY <1>2 DEF StopMatching
  <2>3. \A s \in Sides, j \in Ids : Rests(s, j)' = Rests(s, j) /\ Slot(s, j)' = Slot(s, j)
    BY <1>0, <2>2, NoBookChanges DEF SameSlot, Rests
  <2>4. ReachesNothing'
    BY <2>1, <2>2, <2>3, OtherSide DEF ReachesNothing
  <2> QED BY <1>1, <1>2, <2>4 DEF StopMatching, RestOrder, Announce
<1>3. CASE RestOrder
  <2>1. PICK s \in Sides, r \in Ids : Stores(s, r)
    BY <1>3, RestOrderEffect
  <2>2. pc = "rest" /\ pc' = "publish" /\ order \in LOBOrder /\ PriceIndex[order.price] \in Nat
    BY <1>0, <1>3, InHand DEF RestOrder, Announce
  <2>3. PICK p \in Nat : p = PriceIndex[order.price]
    BY <2>2
  <2>4. /\ s = order.order_type /\ Slot(s, r)'[1] = p /\ OnlyChanges(s, r)
    BY <2>1, <2>3 DEF Stores
  <2>5. \A j \in Ids : Rests(Other(s), j) => ~ Reaches(s, p, Slot(Other(s), j)[1])
    BY <2>2, <2>3, <2>4 DEF ReachesNothing
  <2>6. \A t \in Sides, i \in Ids :
          (t = s /\ i = r) \/ (Rests(t, i)' = Rests(t, i) /\ Slot(t, i)' = Slot(t, i))
    BY <2>4 DEF OnlyChanges, SameSlot, Rests
  <2>7. \A t \in Sides, i \in Ids : Rests(t, i) => Slot(t, i)[1] \in Nat
    BY <1>0, SlotLeads DEF BothBooks, Levels
  <2>8. ASSUME NEW i \in Ids, NEW j \in Ids, Rests("b", i)', Rests("s", j)'
        PROVE  Slot("b", i)'[1] < Slot("s", j)'[1]
    <3>1. CASE s = "b" /\ i = r
      <4>1. Rests("s", j) /\ Slot("s", j)' = Slot("s", j)
        BY <1>0, <2>6, <2>8, <3>1
      <4> QED BY <1>0, <2>4, <2>5, <2>7, <3>1, <4>1 DEF Reaches
    <3>2. CASE s = "s" /\ j = r
      <4>1. Rests("b", i) /\ Slot("b", i)' = Slot("b", i)
        BY <1>0, <2>6, <2>8, <3>2
      <4> QED BY <1>0, <2>4, <2>5, <2>7, <3>2, <4>1 DEF Reaches
    <3>3. CASE ~ (s = "b" /\ i = r) /\ ~ (s = "s" /\ j = r)
      <4>1. /\ Rests("b", i) /\ Slot("b", i)' = Slot("b", i)
            /\ Rests("s", j) /\ Slot("s", j)' = Slot("s", j)
        BY <1>0, <2>6, <2>8, <3>3
      <4> QED BY <4>1 DEF Uncrossed
    <3> QED BY <3>1, <3>2, <3>3
  <2> QED BY <2>2, <2>8 DEF Uncrossed, ReachesNothing
<1>4. CASE \/ EnterLevel \/ TradeNext \/ TellResting \/ LeaveLevel \/ Settle \/ UpdateIgnored
           \/ UpdatePrice \/ UpdateQuantity \/ DeleteResting \/ Publish \/ Finish
           \/ Undefined \/ Arrival
  <2>1. pc' # "rest" /\ ~ RestOrder
    <3>1. CASE Arrival
      <4>1. pc = "idle" /\ pc' \in {"match", "update", "delete"}
        BY <3>1, MatchingEngineAssumption DEF Arrival, ReadOrder, Handler, Request
      <4> QED BY <4>1 DEF RestOrder
    <3> QED BY <1>4, <3>1 DEF EnterLevel, TradeNext, TellResting, LeaveLevel, Settle,
          UpdateIgnored, UpdatePrice, UpdateQuantity, DeleteResting, Publish, Finish,
          Undefined, Announce, RestOrder
  <2> QED BY <1>1, <2>1 DEF ReachesNothing
<1>5. CASE TakeAck \/ PollEmpty \/ Stopped \/ UNCHANGED vars
  <2>1. UNCHANGED <<books, order, pc>>
    BY <1>5 DEF TakeAck, PollEmpty, Stopped, vars
  <2>2. \A s \in Sides, j \in Ids : Rests(s, j)' = Rests(s, j) /\ Slot(s, j)' = Slot(s, j)
    BY <1>0, <2>1, NoBookChanges DEF SameSlot, Rests
  <2> QED BY <1>0, <2>1, <2>2, OtherSide DEF ReachesNothing, Uncrossed
<1> QED BY <1>2, <1>3, <1>4, <1>5 DEF Next, Engine

(* The best bid stays below the best ask: in no state of the engine does a *)
(* resting buy order meet the price of a resting sell order.               *)
THEOREM EngineNotCrossed == Spec => []NotCrossed
<1>1. Init => Uncrossed /\ ReachesNothing
  <2>1. Init => \A s \in Sides, i \in Ids : ~ Rests(s, i)
    BY DEF Init, Buy!BookInit, Sell!BookInit, Buy!NoSlot, Sell!NoSlot, NoSlot, Rests, Slot
  <2> QED BY <2>1 DEF Init, Uncrossed, ReachesNothing, Sides
<1>2. EngineInv /\ Uncrossed /\ ReachesNothing /\ [Next]_vars => Uncrossed' /\ ReachesNothing'
  BY UncrossedStep
<1>3. Uncrossed => NotCrossed
  BY DEF Uncrossed, NotCrossed, PriceTime!NotCrossed, LiveOrders, Rests, Slot,
    Buy!RestingQuantity, Sell!RestingQuantity, Buy!Resting, Sell!Resting,
    NoSlot, Buy!NoSlot, Sell!NoSlot
<1> QED BY <1>1, <1>2, <1>3, EngineInvariant, PTL DEF Spec

-----------------------------------------------------------------------------
(* With positive quantities, what rests can be traded with. *)

(* The one order without quantity is that of the entry just filled, until  *)
(* the loop settles it.                                                    *)
OrdersLive ==
  \A s \in Sides, i \in Ids :
    Rests(s, i) => \/ Peek(s, i).quantity # 0
                   \/ /\ pc \in {"told", "settle"} /\ s = Other(order.order_type)
                      /\ Slot(s, i) = cursor

(* An order that is to rest, or to amend one that does, has quantity.      *)
QuantityInHand == pc \in {"rest", "update"} => order.quantity # 0

LEMMA OrdersLiveStep ==
  ASSUME 0 \notin Quantities, EngineInv, OrdersLive, QuantityInHand, [Next]_vars
  PROVE  OrdersLive' /\ QuantityInHand'
<1>0. BothBooks /\ HandlerTypeOK
  BY DEF EngineInv
<1>1. ASSUME UNCHANGED books
      PROVE  \A s \in Sides, i \in Ids : /\ Rests(s, i)' = Rests(s, i)
                                         /\ Slot(s, i)' = Slot(s, i)
                                         /\ Rests(s, i) => Peek(s, i)' = Peek(s, i)
  BY <1>0, <1>1, NoBookChanges DEF SameSlot, Rests
<1>2. ASSUME UNCHANGED books, pc \notin {"told", "settle"}
      PROVE  OrdersLive'
  BY <1>1, <1>2 DEF OrdersLive
<1>3. ASSUME pc \notin {"told", "settle"}, NEW s \in Sides, NEW r \in Ids, OnlyChanges(s, r),
             Rests(s, r)' => Peek(s, r)'.quantity # 0
      PROVE  OrdersLive'
  BY <1>3 DEF OrdersLive, OnlyChanges, SameSlot, Rests
<1>4. CASE \/ StopMatching \/ EnterLevel \/ LeaveLevel \/ UpdateIgnored \/ Finish
           \/ Undefined \/ Publish \/ Arrival
  <2>1. UNCHANGED books /\ pc \notin {"told", "settle"}
    BY <1>4 DEF StopMatching, EnterLevel, LeaveLevel, UpdateIgnored, Finish,
      Undefined, OutOfBounds, Publish, Arrival, ReadOrder
  <2>2. CASE StopMatching
    <3>1. order.quantity \in Nat
      BY <1>0, <2>2, InHand DEF StopMatching
    <3> QED BY <1>2, <2>1, <2>2, <3>1 DEF StopMatching, QuantityInHand
  <2>3. CASE Arrival
    <3>1. PICK q \in Requests, id \in Ids :
            ReadOrder([system_id |-> id, price |-> q.price, quantity |-> q.quantity,
                       trade_id |-> q.trade_id, order_type |-> q.order_type,
                       req_type |-> q.req_type])
      BY <2>3 DEF Arrival
    <3>2. q.quantity \in Quantities
      BY MatchingEngineAssumption DEF Request
    <3>3. order'.quantity # 0
      BY <3>1, <3>2 DEF ReadOrder
    <3> QED BY <1>2, <2>1, <3>3 DEF QuantityInHand
  <2>4. CASE \/ EnterLevel \/ LeaveLevel \/ UpdateIgnored \/ Finish \/ Undefined \/ Publish
    <3>1. pc' \notin {"rest", "update"}
      BY <2>4 DEF EnterLevel, LeaveLevel, UpdateIgnored, Finish, Undefined, Publish
    <3> QED BY <1>2, <2>1, <3>1 DEF QuantityInHand
  <2> QED BY <1>4, <2>2, <2>3, <2>4
<1>5. CASE TradeNext
  <2>1. PICK s \in Sides, r \in Ids, n \in Nat : TradesWith(s, r, n)
    BY <1>5, TradeNextEffect
  <2>2. /\ pc = "scan" /\ pc' = "told" /\ order \in LOBOrder
        /\ order' = [order EXCEPT !.quantity = @ - n]
        /\ s = Other(order.order_type) /\ OnlyChanges(s, r)
        /\ Slot(s, r)' = cursor'
    BY <1>0, <1>5, <2>1, InHand DEF TradeNext, TradesWith
  <2>3. s = Other(order'.order_type)
    BY <2>2 DEF LOBOrder
  <2>4. ASSUME NEW t \in Sides, NEW i \in Ids, Rests(t, i)', ~ (t = s /\ i = r)
        PROVE  Peek(t, i)'.quantity # 0
    BY <2>2, <2>4 DEF OnlyChanges, SameSlot, Rests, OrdersLive
  <2> QED BY <2>2, <2>3, <2>4 DEF OrdersLive, QuantityInHand
<1>6. CASE TellResting
  <2>1. UNCHANGED <<books, order, cursor>> /\ pc = "told" /\ pc' = "settle"
    BY <1>6 DEF TellResting
  <2> QED BY <1>1, <2>1 DEF OrdersLive, QuantityInHand
<1>7. CASE Settle
  <2>1. pc = "settle" /\ pc' \in {"match", "scan"} /\ UNCHANGED order
    BY <1>7 DEF Settle
  <2>2. PICK s \in Sides, p \in Levels : s = Other(order.order_type) /\ p = cursor[1]
    BY <1>0, <2>1, InHand DEF Other, Sides
  <2>3. Filled = Level(s, p)[cursor[2]]
    <3>1. order.order_type \in Sides
      BY <1>0, <2>1, InHand DEF Sides
    <3> QED BY <2>2, <3>1, OrderViews DEF Filled, LevelInHand
  <2>4. ASSUME NEW i \in Ids, Rests(s, i), Slot(s, i) = cursor
        PROVE  Peek(s, i) = Filled /\ Filled.system_id = i
    BY <1>0, <2>2, <2>3, <2>4, SlotLeads DEF Peek, BothBooks
  <2>5. ASSUME NEW t \in Sides, NEW i \in Ids, Rests(t, i)'
        PROVE  Peek(t, i)'.quantity # 0
    <3>1. CASE Filled.quantity # 0 /\ UNCHANGED books
      BY <1>1, <2>2, <2>4, <2>5, <3>1 DEF OrdersLive
    <3>2. CASE \E u \in Sides, r \in Ids : /\ u = Other(order.order_type)
                                           /\ r = Filled.system_id /\ Forgets(u, r)
      <4>1. PICK r \in Ids : r = Filled.system_id /\ Forgets(s, r)
        BY <2>2, <3>2
      <4>2. Rests(t, i) /\ ~ (t = s /\ i = r) /\ SameSlot(t, i)
        BY <2>5, <4>1 DEF Forgets, OnlyChanges, SameSlot, Rests
      <4> QED BY <2>2, <2>4, <4>1, <4>2 DEF OrdersLive, SameSlot
    <3> QED BY <1>7, <3>1, <3>2, SettleEffect
  <2> QED BY <2>1, <2>5 DEF OrdersLive, QuantityInHand
<1>8. CASE RestOrder
  <2>1. PICK s \in Sides, r \in Ids : Stores(s, r)
    BY <1>8, RestOrderEffect
  <2>2. pc = "rest" /\ pc' = "publish" /\ EntryOf(order).quantity = order.quantity
    BY <1>8 DEF RestOrder, Announce, EntryOf
  <2>3. OnlyChanges(s, r) /\ Peek(s, r)'.quantity # 0
    BY <2>1, <2>2 DEF Stores, QuantityInHand
  <2> QED BY <1>3, <2>2, <2>3 DEF QuantityInHand
<1>9. CASE UpdatePrice \/ DeleteResting
  <2>1. PICK s \in Sides, r \in Ids : Forgets(s, r)
    BY <1>9, OwnDeletionEffect
  <2>2. pc \notin {"told", "settle"} /\ pc' = "publish"
    BY <1>9 DEF UpdatePrice, DeleteResting, Announce
  <2>3. OnlyChanges(s, r) /\ ~ Rests(s, r)'
    BY <2>1 DEF Forgets, Rests
  <2> QED BY <1>3, <2>2, <2>3 DEF QuantityInHand
<1>10. CASE UpdateQuantity
  <2>1. PICK s \in Sides, r \in Ids : Amends(s, r)
    BY <1>10, UpdateQuantityEffect
  <2>2. pc = "update" /\ pc' = "publish"
    BY <1>10 DEF UpdateQuantity, Announce
  <2>3. OnlyChanges(s, r) /\ Peek(s, r)'.quantity # 0
    BY <2>1, <2>2 DEF Amends, QuantityInHand
  <2> QED BY <1>3, <2>2, <2>3 DEF QuantityInHand
<1>11. CASE TakeAck \/ PollEmpty \/ Stopped \/ UNCHANGED vars
  <2>1. UNCHANGED <<books, order, pc, cursor>>
    BY <1>11 DEF TakeAck, PollEmpty, Stopped, vars
  <2> QED BY <1>1, <2>1 DEF OrdersLive, QuantityInHand
<1> QED BY <1>4, <1>5, <1>6, <1>7, <1>8, <1>9, <1>10, <1>11 DEF Next, Engine

(* Where every order is live the best prices are exact.                    *)
LEMMA BestPricesFollow ==
  ASSUME EngineInv, OrdersLive, pc \notin {"told", "settle"}
  PROVE  Buy!BestPriceExact /\ Sell!BestPriceExact
<1>0. BuyBook!BookInv /\ SellBook!BookInv /\ BothBooks /\ "b" \in Sides /\ "s" \in Sides
  BY DEF EngineInv, BothBooks, BookOK, Sides
<1>1. \A s \in Sides, i \in Ids : Rests(s, i) => Peek(s, i).quantity > 0
  <2>1. \A s \in Sides, i \in Ids : Rests(s, i) => Peek(s, i) \in Entry
    BY <1>0, SlotLeads DEF BothBooks
  <2> QED BY <2>1 DEF OrdersLive, Entry
<1>2. BuyBook!EveryOrderLive
  BY <1>0, <1>1 DEF BuyBook!EveryOrderLive, BuyBook!Resting, BuyBook!NoSlot,
    BuyBook!PeekOrder, BuyBook!EntryAt, Rests, Slot, Peek, Level, NoSlot, Buy!NoSlot
<1>3. SellBook!EveryOrderLive
  BY <1>0, <1>1 DEF SellBook!EveryOrderLive, SellBook!Resting, SellBook!NoSlot,
    SellBook!PeekOrder, SellBook!EntryAt, Rests, Slot, Peek, Level, NoSlot, Buy!NoSlot
<1>4. BuyBook!BestPriceExact
  BY <1>0, <1>2, BookConstants, BuyBook!BestPriceFollows
  DEF BuyBook!OrderBookAssumption, BuyBook!IsFiniteSet, IsFiniteSet
<1>5. SellBook!BestPriceExact
  BY <1>0, <1>3, BookConstants, SellBook!BestPriceFollows
  DEF SellBook!OrderBookAssumption, SellBook!IsFiniteSet, IsFiniteSet
<1> QED BY <1>4, <1>5 DEF BuyBook!BestPriceExact, Buy!BestPriceExact, BuyBook!Levels,
      Buy!Levels, BuyBook!Better, Buy!Better, BuyBook!LiveColumns, Buy!LiveColumns,
      BuyBook!Sentinel, Buy!Sentinel, SellBook!BestPriceExact, Sell!BestPriceExact,
      SellBook!Levels, Sell!Levels, SellBook!Better, Sell!Better, SellBook!LiveColumns,
      Sell!LiveColumns, SellBook!Sentinel, Sell!Sentinel

(* With positive quantities both best prices are exact at every point of   *)
(* the handler but the two between a fill and its deletion: each is the    *)
(* most aggressive level of its side that has an entry to trade with.      *)
THEOREM EngineBestPrices ==
  ASSUME 0 \notin Quantities
  PROVE  Spec => []BestPricesExact
<1>1. Init => OrdersLive /\ QuantityInHand
  BY DEF Init, Buy!BookInit, Sell!BookInit, Buy!NoSlot, Sell!NoSlot, NoSlot, Rests, Slot,
    OrdersLive, QuantityInHand
<1>2. EngineInv /\ OrdersLive /\ QuantityInHand /\ [Next]_vars => OrdersLive' /\ QuantityInHand'
  BY OrdersLiveStep
<1>3. EngineInv /\ OrdersLive => BestPricesExact
  BY BestPricesFollow DEF BestPricesExact
<1> QED BY <1>1, <1>2, <1>3, EngineInvariant, PTL DEF Spec

-----------------------------------------------------------------------------
(* The loops of aggresiveMatch visit the other side in order: best level   *)
(* first, and within it no order that rests is behind the cursor.          *)

Scanning == pc \in {"scan", "told", "settle"}

InPosition ==
  \A s \in Sides : Scanning /\ s = Other(order.order_type) =>
    /\ Reaches(order.order_type, PriceIndex[order.price], cursor[1])
    /\ pc = "scan" => order.quantity # 0
    /\ pc # "scan" => \E i \in Ids : Rests(s, i) /\ Slot(s, i) = cursor
    /\ \A i \in Ids : Rests(s, i) =>
         /\ IF s = "b" THEN Slot(s, i)[1] <= cursor[1] ELSE Slot(s, i)[1] >= cursor[1]
         /\ Slot(s, i)[1] = cursor[1] => Slot(s, i)[2] >= cursor[2]
         /\ pc # "scan" /\ Slot(s, i) = cursor /\ order.quantity # 0
              => Peek(s, i).quantity = 0

LEMMA InPositionStep ==
  ASSUME EngineInv, OrdersLive, InPosition, [Next]_vars
  PROVE  InPosition'
<1>0. BothBooks /\ HandlerTypeOK
  BY DEF EngineInv
<1>1. ASSUME UNCHANGED books
      PROVE  \A s \in Sides, i \in Ids : /\ Rests(s, i)' = Rests(s, i)
                                         /\ Slot(s, i)' = Slot(s, i)
                                         /\ Rests(s, i) => Peek(s, i)' = Peek(s, i)
  BY <1>0, <1>1, NoBookChanges DEF SameSlot, Rests
<1>2. CASE \/ StopMatching \/ LeaveLevel \/ RestOrder \/ UpdateIgnored \/ UpdatePrice
           \/ UpdateQuantity \/ DeleteResting \/ Publish \/ Finish \/ Undefined \/ Arrival
  <2>1. pc' \notin {"scan", "told", "settle"}
    <3>1. CASE Arrival
      BY <3>1, MatchingEngineAssumption DEF Arrival, ReadOrder, Handler, Request
    <3> QED BY <1>2, <3>1 DEF StopMatching, LeaveLevel, RestOrder, UpdateIgnored,
          UpdatePrice, UpdateQuantity, DeleteResting, Publish, Finish, Undefined, Announce
  <2> QED BY <2>1 DEF InPosition, Scanning
<1>3. CASE EnterLevel
  <2>1. order.order_type \in Sides /\ order.quantity \in Nat /\ PriceIndex[order.price] \in Nat
    BY <1>0, <1>3, InHand DEF EnterLevel, Sides
  <2>2. PICK s \in Sides : s = Other(order.order_type)
    BY DEF Other, Sides
  <2>3. /\ cursor' = <<Best(s), 1>> /\ pc' = "scan" /\ UNCHANGED <<books, order>>
        /\ order.quantity > 0
        /\ Reaches(order.order_type, PriceIndex[order.price], Best(s))
    BY <1>3, <2>1, <2>2, OrderViews, CrossesReaches DEF EnterLevel, MayTrade
  <2>4. ASSUME NEW i \in Ids, Rests(s, i)
        PROVE  /\ IF s = "b" THEN Slot(s, i)[1] <= Best(s) ELSE Slot(s, i)[1] >= Best(s)
               /\ Slot(s, i)[2] >= 1
    BY <1>0, <2>4, BestBounds, SlotLeads DEF BothBooks
  <2>5. cursor'[1] = Best(s) /\ cursor'[2] = 1
    BY <2>3
  <2>6. Reaches(order.order_type, PriceIndex[order.price], cursor[1])'
    BY <2>3, <2>5 DEF Reaches
  <2>7. \A t \in Sides : t = Other(order.order_type)' => t = s
    BY <2>2, <2>3 DEF Other
  <2> QED BY <1>1, <2>1, <2>3, <2>4, <2>5, <2>6, <2>7 DEF InPosition
<1>4. CASE TradeNext
  <2>1. PICK s \in Sides, r \in Ids, n \in Nat : TradesWith(s, r, n)
    BY <1>4, TradeNextEffect
  <2>2. /\ pc = "scan" /\ pc' = "told" /\ order \in LOBOrder /\ order.quantity \in Nat
        /\ order' = [order EXCEPT !.quantity = @ - n]
        /\ s = Other(order.order_type) /\ OnlyChanges(s, r)
        /\ Rests(s, r) /\ Slot(s, r)' = Slot(s, r) /\ cursor' = Slot(s, r)
        /\ Peek(s, r)' = [Peek(s, r) EXCEPT !.quantity = @ - n]
        /\ cursor'[1] = cursor[1] /\ cursor'[2] >= cursor[2]
        /\ n = Traded(Peek(s, r).quantity, order.quantity)
    BY <1>0, <1>4, <2>1, InHand DEF TradeNext, TradesWith
  <2>3. /\ order'.order_type = order.order_type /\ order'.price = order.price
        /\ order'.quantity = order.quantity - n
    BY <2>2 DEF LOBOrder
  <2>4. \A i \in Ids : Rests(s, i)' => /\ Rests(s, i) /\ Slot(s, i)' = Slot(s, i)
    BY <2>2 DEF OnlyChanges, SameSlot, Rests
  <2>5. ASSUME NEW i \in Ids, Rests(s, i)
        PROVE  /\ IF s = "b" THEN Slot(s, i)[1] <= cursor[1] ELSE Slot(s, i)[1] >= cursor[1]
               /\ Slot(s, i)[1] = cursor[1] => Slot(s, i)[2] >= cursor'[2]
    <3>1. Peek(s, i).quantity # 0
      BY <2>2, <2>5 DEF OrdersLive
    <3>2. Slot(s, i)[1] = cursor[1] => Slot(s, i)[2] >= cursor[2]
      BY <2>2, <2>5 DEF InPosition, Scanning
    <3>3. Slot(s, i)[1] = cursor[1] => cursor'[2] <= Slot(s, i)[2]
      BY <2>1, <2>5, <3>1, <3>2 DEF TradesWith
    <3>4. Slot(s, i)[2] \in Nat /\ Slot(s, r)[2] \in Nat
      BY <1>0, <2>2, <2>5, SlotLeads DEF BothBooks
    <3> QED BY <2>2, <2>5, <3>3, <3>4 DEF InPosition, Scanning
  <2>6. ASSUME NEW i \in Ids, Rests(s, i), Slot(s, i) = cursor', order'.quantity # 0
        PROVE  Peek(s, i)'.quantity = 0
    <3>1. /\ Peek(s, r).system_id = r /\ Peek(s, i).system_id = i
          /\ Peek(s, r) \in Entry
      BY Zenon, <1>0, <2>2, <2>6, SlotLeads DEF BothBooks
    <3>2. Peek(s, i) = Peek(s, r)
      BY <2>2, <2>6 DEF Peek
    <3>3. i = r
      BY <3>1, <3>2
    <3>4. Peek(s, r).quantity \in Nat /\ Peek(s, r)'.quantity = Peek(s, r).quantity - n
      <4>1. PICK e \in Entry : e = Peek(s, r)
        BY <3>1
      <4>2. e.quantity \in Nat /\ [e EXCEPT !.quantity = @ - n].quantity = e.quantity - n
        BY DEF Entry
      <4>3. Peek(s, r)' = [e EXCEPT !.quantity = @ - n]
        BY <2>2, <4>1
      <4> QED BY <4>1, <4>2, <4>3
    <3>5. \A a, q \in Nat : q - Traded(a, q) # 0 => a - Traded(a, q) = 0
      BY DEF Traded
    <3>6. Peek(s, r)'.quantity = 0
      BY <2>2, <2>3, <2>6, <3>4, <3>5
    <3> QED BY <3>3, <3>6
  <2>7. Reaches(order.order_type, PriceIndex[order.price], cursor[1])'
    BY <2>2, <2>3 DEF InPosition, Scanning, Reaches
  <2>8. \A t \in Sides : t = Other(order.order_type)' => t = s
    BY <2>2, <2>3 DEF Other
  <2>9. Rests(s, r)' /\ Slot(s, r)' = cursor'
    BY <2>2 DEF Rests
  <2> QED BY <2>2, <2>4, <2>5, <2>6, <2>7, <2>8, <2>9 DEF InPosition
<1>5. CASE TellResting
  <2>1. UNCHANGED <<books, order, cursor>> /\ pc = "told" /\ pc' = "settle"
    BY <1>5 DEF TellResting
  <2> QED BY <1>1, <2>1 DEF InPosition, Scanning, Reaches, Other
<1>6. CASE Settle
  <2>1. CASE pc' = "match"
    BY <2>1 DEF InPosition, Scanning
  <2>2. CASE pc' = "scan"
    <3>1. /\ pc = "settle" /\ UNCHANGED order /\ order.quantity # 0
          /\ cursor' = <<cursor[1], cursor[2] + 1>>
          /\ cursor = <<cursor[1], cursor[2]>> /\ cursor[2] \in Nat
      BY <1>0, <1>6, <2>2, InHand DEF Settle
    <3>2. PICK s \in Sides, p \in Levels : s = Other(order.order_type) /\ p = cursor[1]
      BY <1>0, <3>1, InHand DEF Other, Sides
    <3>3. Filled = Level(s, p)[cursor[2]]
      <4>1. order.order_type \in Sides
        BY <1>0, <3>1, InHand DEF Sides
      <4> QED BY <3>2, <4>1, OrderViews DEF Filled, LevelInHand
    <3>4. ASSUME NEW i \in Ids, Rests(s, i), Slot(s, i) = cursor
          PROVE  Peek(s, i) = Filled /\ Filled.system_id = i /\ Filled.quantity = 0
      <4>1. Peek(s, i) = Filled /\ Filled.system_id = i
        BY <1>0, <3>2, <3>3, <3>4, SlotLeads DEF Peek, BothBooks
      <4> QED BY <3>1, <3>2, <3>4, <4>1 DEF InPosition, Scanning
    <3>5. ASSUME NEW i \in Ids, Rests(s, i)'
          PROVE  Rests(s, i) /\ Slot(s, i)' = Slot(s, i) /\ Slot(s, i) # cursor
      <4>1. CASE Filled.quantity # 0 /\ UNCHANGED books
        BY <1>1, <3>4, <3>5, <4>1
      <4>2. CASE \E u \in Sides, r \in Ids : /\ u = Other(order.order_type)
                                             /\ r = Filled.system_id /\ Forgets(u, r)
        <5>1. PICK r \in Ids : r = Filled.system_id /\ Forgets(s, r)
          BY <3>2, <4>2
        <5> QED BY <3>4, <3>5, <5>1 DEF Forgets, OnlyChanges, SameSlot, Rests
      <4> QED BY <1>6, <4>1, <4>2, SettleEffect
    <3>6. ASSUME NEW i \in Ids, Rests(s, i)'
          PROVE  /\ IF s = "b" THEN Slot(s, i)'[1] <= cursor[1] ELSE Slot(s, i)'[1] >= cursor[1]
                 /\ Slot(s, i)'[1] = cursor[1] => Slot(s, i)'[2] >= cursor[2] + 1
      <4>1. /\ Rests(s, i) /\ Slot(s, i)' = Slot(s, i) /\ Slot(s, i) # cursor
            /\ Slot(s, i) = <<Slot(s, i)[1], Slot(s, i)[2]>> /\ Slot(s, i)[2] \in Nat
        BY <1>0, <3>5, <3>6, SlotLeads DEF BothBooks
      <4>2. Slot(s, i)[1] = cursor[1] => Slot(s, i)[2] # cursor[2]
        BY <3>1, <4>1
      <4>3. /\ IF s = "b" THEN Slot(s, i)[1] <= cursor[1] ELSE Slot(s, i)[1] >= cursor[1]
            /\ Slot(s, i)[1] = cursor[1] => Slot(s, i)[2] >= cursor[2]
        BY <3>1, <3>2, <4>1 DEF InPosition, Scanning
      <4> QED BY <3>1, <4>1, <4>2, <4>3
    <3>7. cursor'[1] = cursor[1] /\ cursor'[2] = cursor[2] + 1
      BY <3>1
    <3>8. Reaches(order.order_type, PriceIndex[order.price], cursor[1])'
      BY <3>1, <3>2, <3>7 DEF InPosition, Scanning, Reaches
    <3>9. \A t \in Sides : t = Other(order.order_type)' => t = s
      BY <3>1, <3>2 DEF Other
    <3> QED BY <2>2, <3>1, <3>6, <3>7, <3>8, <3>9 DEF InPosition
  <2> QED BY <1>6, <2>1, <2>2 DEF Settle
<1>7. CASE TakeAck \/ PollEmpty \/ Stopped \/ UNCHANGED vars
  <2>1. UNCHANGED <<books, order, pc, cursor>>
    BY <1>7 DEF TakeAck, PollEmpty, Stopped, vars
  <2> QED BY <1>1, <2>1 DEF InPosition, Scanning, Reaches, Other
<1> QED BY <1>2, <1>3, <1>4, <1>5, <1>6, <1>7 DEF Next, Engine

-----------------------------------------------------------------------------
(* The kind of request the handler has at each place, and its quantity     *)
(* where it may start to match.                                            *)

Deleted == pc = "publish" /\ pending.type = "D"

RequestInPlace ==
  /\ pc = "delete" => order.req_type = "d"
  /\ Matching \/ pc = "update" => order.req_type # "d"
  /\ pc \in {"update", "delete"} \/ Deleted => order.quantity \in Quantities

LEMMA RequestInPlaceStep ==
  ASSUME EngineInv, RequestInPlace, [Next]_vars
  PROVE  RequestInPlace'
<1>0. HandlerTypeOK
  BY DEF EngineInv
<1>1. CASE Arrival
  <2>1. PICK q \in Requests, id \in Ids :
          ReadOrder([system_id |-> id, price |-> q.price, quantity |-> q.quantity,
                     trade_id |-> q.trade_id, order_type |-> q.order_type,
                     req_type |-> q.req_type])
    BY <1>1 DEF Arrival
  <2>2. q.quantity \in Quantities /\ q.req_type \in {"c", "u", "d"}
    BY MatchingEngineAssumption DEF Request
  <2>3. /\ order'.quantity = q.quantity /\ order'.req_type = q.req_type
        /\ q.req_type = "c" => pc' = "match"
        /\ q.req_type = "u" => pc' = "update"
        /\ q.req_type = "d" => pc' = "delete"
    BY <2>1, <2>2 DEF ReadOrder, Handler
  <2> QED BY <2>2, <2>3 DEF RequestInPlace, Matching, Deleted
<1>2. CASE TradeNext
  <2>1. PICK s \in Sides, r \in Ids, n \in Nat : TradesWith(s, r, n)
    BY <1>2, TradeNextEffect
  <2>2. /\ pc = "scan" /\ pc' = "told" /\ order \in LOBOrder
        /\ order' = [order EXCEPT !.quantity = @ - n]
    BY <1>0, <1>2, <2>1, InHand DEF TradeNext, TradesWith
  <2>3. order'.req_type = order.req_type
    BY <2>2 DEF LOBOrder
  <2> QED BY <2>2, <2>3 DEF RequestInPlace, Matching, Deleted
<1>3. CASE Publish
  <2>1. /\ pc = "publish" /\ order' = order /\ pc' \in {"match", "finish"}
        /\ pc' = "match" => order.req_type = "u"
    BY <1>3 DEF Publish
  <2> QED BY <2>1 DEF RequestInPlace, Matching, Deleted
<1>4. CASE DeleteResting \/ UpdatePrice \/ UpdateQuantity \/ RestOrder
  <2>1. CASE DeleteResting \/ UpdatePrice \/ UpdateQuantity
    <3>1. pc' = "publish" /\ order' = order
      BY <2>1 DEF DeleteResting, UpdatePrice, UpdateQuantity, Announce
    <3>2. order.quantity \in Quantities
      BY <2>1 DEF DeleteResting, UpdatePrice, UpdateQuantity, RequestInPlace
    <3> QED BY <3>1, <3>2 DEF RequestInPlace, Matching, Deleted
  <2>2. CASE RestOrder
    BY <2>2 DEF RestOrder, Announce, RequestInPlace, Matching, Deleted
  <2> QED BY <1>4, <2>1, <2>2
<1>5. CASE StopMatching \/ EnterLevel \/ TellResting \/ LeaveLevel \/ Settle
  <2>1. Matching /\ order' = order /\ pc' \notin {"update", "delete", "publish"}
    BY <1>5 DEF StopMatching, EnterLevel, TellResting, LeaveLevel, Settle, Matching
  <2> QED BY <2>1 DEF RequestInPlace, Matching, Deleted
<1>6. CASE UpdateIgnored \/ Finish \/ Undefined
  <2>1. pc' \in {"finish", "idle", "undefined"}
    BY <1>6 DEF UpdateIgnored, Finish, Undefined
  <2> QED BY <2>1 DEF RequestInPlace, Matching, Deleted
<1>7. CASE TakeAck \/ PollEmpty \/ Stopped \/ UNCHANGED vars
  <2>1. UNCHANGED <<order, pc, pending>>
    BY <1>7 DEF TakeAck, PollEmpty, Stopped, vars
  <2> QED BY <2>1 DEF RequestInPlace, Matching, Deleted
<1> QED BY <1>1, <1>2, <1>3, <1>4, <1>5, <1>6, <1>7 DEF Next, Engine

-----------------------------------------------------------------------------
(* A request stores at most one entry, so no level is longer than the      *)
(* number of requests read, less one while one may still be stored.        *)

MayStore == Matching \/ pc \in {"update", "delete"} \/ Deleted

LevelsBounded ==
  \A s \in Sides, q \in Levels :
    Len(Level(s, q)) + (IF MayStore THEN 1 ELSE 0) <= reads

LEMMA LevelsBoundedStep ==
  ASSUME EngineInv, LevelsBounded, [Next]_vars
  PROVE  LevelsBounded'
<1>0. BothBooks /\ HandlerTypeOK /\ reads \in Nat
  BY MatchingEngineAssumption DEF EngineInv, QueuesTypeOK
<1>1. \A s \in Sides, q \in Levels : Len(Level(s, q)) \in Nat
  BY <1>0, BookTypes DEF BothBooks
<1>2. ASSUME UNCHANGED books
      PROVE  \A s \in Sides, q \in Levels : Len(Level(s, q))' = Len(Level(s, q))
  BY <1>0, <1>2, NoBookChanges
<1>3. ASSUME \A s \in Sides, q \in Levels : Len(Level(s, q))' = Len(Level(s, q)),
             reads' = reads, MayStore' => MayStore
      PROVE  LevelsBounded'
  BY <1>0, <1>1, <1>3 DEF LevelsBounded
<1>4. ASSUME \A s \in Sides, q \in Levels : /\ Len(Level(s, q))' \in Nat
                                            /\ Len(Level(s, q))' <= Len(Level(s, q)) + 1,
             reads' = reads, MayStore, ~ MayStore'
      PROVE  LevelsBounded'
  BY <1>0, <1>1, <1>4 DEF LevelsBounded
<1>5. CASE \/ StopMatching \/ EnterLevel \/ TellResting \/ LeaveLevel \/ UpdateIgnored
           \/ Publish \/ Finish \/ Undefined
  <2>1. UNCHANGED <<books, reads>> /\ (MayStore' => MayStore)
    BY <1>5 DEF StopMatching, EnterLevel, TellResting, LeaveLevel, UpdateIgnored, Publish,
      Finish, Undefined, OutOfBounds, envVars, MayStore, Matching, Deleted
  <2> QED BY <1>2, <1>3, <2>1
<1>6. CASE TradeNext
  <2>1. PICK s \in Sides, r \in Ids, n \in Nat : TradesWith(s, r, n)
    BY <1>6, TradeNextEffect
  <2>2. reads' = reads /\ MayStore
    BY <1>6 DEF TradeNext, envVars, MayStore, Matching
  <2> QED BY <1>3, <2>1, <2>2 DEF TradesWith
<1>7. CASE Settle
  <2>1. reads' = reads /\ MayStore
    BY <1>7 DEF Settle, envVars, MayStore, Matching
  <2> QED BY <1>2, <1>3, <1>7, <2>1, SettleEffect DEF Forgets
<1>8. CASE UpdatePrice \/ DeleteResting
  <2>1. reads' = reads /\ MayStore
    BY <1>8 DEF UpdatePrice, DeleteResting, envVars, MayStore
  <2> QED BY <1>3, <1>8, <2>1, OwnDeletionEffect DEF Forgets
<1>9. CASE RestOrder \/ UpdateQuantity
  <2>1. reads' = reads /\ MayStore /\ ~ MayStore'
    BY <1>9 DEF RestOrder, UpdateQuantity, Announce, envVars, MayStore, Matching, Deleted
  <2>2. BothBooks' /\ \A s \in Sides, q \in Levels : Len(Level(s, q))' <= Len(Level(s, q)) + 1
    BY <1>9, RestOrderEffect, UpdateQuantityEffect DEF Stores, Amends
  <2>3. ASSUME NEW s \in Sides, NEW q \in Levels
        PROVE  Len(Level(s, q))' \in Nat
    <3>1. (\A p \in Levels : Level(s, p) \in Seq(Entry))'
      <4>1. CASE s = "b"
        BY <2>2, <4>1 DEF BothBooks, BookOK, BuyBook!BookInv, BuyBook!BookShape, Sides,
          BuyBook!Levels, Levels, BuyBook!Entry, Entry, Level
      <4>2. CASE s = "s"
        BY <2>2, <4>2 DEF BothBooks, BookOK, SellBook!BookInv, SellBook!BookShape, Sides,
          SellBook!Levels, Levels, SellBook!Entry, Entry, Level
      <4> QED BY <4>1, <4>2 DEF Sides
    <3> QED BY <3>1
  <2> QED BY <1>4, <2>1, <2>2, <2>3
<1>10. CASE Arrival
  <2>1. UNCHANGED books /\ reads' = reads + 1 /\ pc = "idle"
    BY <1>10 DEF Arrival, ReadOrder
  <2>2. ~ MayStore
    BY <2>1 DEF MayStore, Matching, Deleted
  <2>3. \A s \in Sides, q \in Levels : Len(Level(s, q)) <= reads
    BY <1>0, <1>1, <2>2 DEF LevelsBounded
  <2>4. ASSUME NEW s \in Sides, NEW q \in Levels
        PROVE  Len(Level(s, q))' + (IF MayStore' THEN 1 ELSE 0) <= reads'
    BY <1>0, <1>1, <1>2, <2>1, <2>3
  <2> QED BY <2>4 DEF LevelsBounded
<1>11. CASE TakeAck \/ PollEmpty \/ Stopped \/ UNCHANGED vars
  <2>1. UNCHANGED <<books, reads, pc, pending>>
    BY <1>11 DEF TakeAck, PollEmpty, Stopped, vars, envVars
  <2> QED BY <1>2, <1>3, <2>1 DEF MayStore, Matching, Deleted
<1> QED BY <1>5, <1>6, <1>7, <1>8, <1>9, <1>10, <1>11 DEF Next, Engine

-----------------------------------------------------------------------------
(* The engine's orders as the abstract matching sees them.                 *)

Live(s, i) == Rests(s, i) /\ Peek(s, i).quantity > 0

Seen(s, i) ==
  [system_id |-> i, side |-> s, tick |-> Slot(s, i)[1],
   quantity |-> Peek(s, i).quantity, rank |-> Slot(s, i)[2]]

LEMMA LiveOrdersSeen ==
  /\ \A x : x \in LiveOrders <=> \E s \in Sides, i \in Ids : Live(s, i) /\ x = Seen(s, i)
  /\ \A x : x \in LiveOrders' <=> \E s \in Sides, i \in Ids : Live(s, i)' /\ x = Seen(s, i)'
<1>1. \A x : x \in LiveOrders <=> \E s \in Sides, i \in Ids : Live(s, i) /\ x = Seen(s, i)
  BY DEF LiveOrders, Buy!RestingQuantity, Sell!RestingQuantity, Live, Seen, Sides, Rests,
    Slot, Peek, Level, NoSlot, Buy!NoSlot, Sell!NoSlot, Buy!Resting, Sell!Resting,
    Buy!PeekOrder, Sell!PeekOrder, Buy!EntryAt, Sell!EntryAt
<1>2. \A x : x \in LiveOrders' <=> \E s \in Sides, i \in Ids : Live(s, i)' /\ x = Seen(s, i)'
  BY DEF LiveOrders, Buy!RestingQuantity, Sell!RestingQuantity, Live, Seen, Sides, Rests,
    Slot, Peek, Level, NoSlot, Buy!NoSlot, Sell!NoSlot, Buy!Resting, Sell!Resting,
    Buy!PeekOrder, Sell!PeekOrder, Buy!EntryAt, Sell!EntryAt
<1> QED BY <1>1, <1>2

LEMMA SameOrdersSeen ==
  ASSUME \A s \in Sides, i \in Ids : SameSlot(s, i)
  PROVE  LiveOrders' = LiveOrders
<1>1. \A s \in Sides, i \in Ids : /\ Live(s, i)' = Live(s, i)
                                  /\ Live(s, i) => Seen(s, i)' = Seen(s, i)
  BY DEF SameSlot, Live, Seen, Rests
<1> QED BY <1>1, LiveOrdersSeen

(* A step that names one order replaces what is seen of that order.        *)
LEMMA OneOrderSeen ==
  ASSUME NEW s \in Sides, NEW r \in Ids, OnlyChanges(s, r), ~ Rests(Other(s), r)
  PROVE  LiveOrders' = PriceTime!Without(r) \cup (IF Live(s, r)' THEN {Seen(s, r)'} ELSE {})
<1>1. ASSUME NEW t \in Sides, NEW i \in Ids, ~ (t = s /\ i = r)
      PROVE  Live(t, i)' = Live(t, i) /\ (Live(t, i) => Seen(t, i)' = Seen(t, i))
  BY <1>1 DEF OnlyChanges, SameSlot, Live, Seen, Rests
<1>2. \A t \in Sides : t # s => ~ Live(t, r)
  BY DEF Live, Sides, Other
<1>3. \A t \in Sides, i \in Ids : Seen(t, i).system_id = i
  BY DEF Seen
<1>4. ASSUME NEW x
      PROVE  x \in LiveOrders' <=>
               \/ x \in LiveOrders /\ x.system_id # r
               \/ Live(s, r)' /\ x = Seen(s, r)'
  <2>1. ASSUME x \in LiveOrders'
        PROVE  \/ x \in LiveOrders /\ x.system_id # r
               \/ Live(s, r)' /\ x = Seen(s, r)'
    <3>1. PICK t \in Sides, i \in Ids : Live(t, i)' /\ x = Seen(t, i)'
      BY <2>1, LiveOrdersSeen
    <3>2. CASE t = s /\ i = r
      BY <3>1, <3>2
    <3>3. CASE ~ (t = s /\ i = r)
      <4>1. Live(t, i) /\ x = Seen(t, i) /\ x.system_id = i
        BY <1>1, <1>3, <3>1, <3>3
      <4>2. i # r
        BY <1>2, <3>3, <4>1
      <4> QED BY <4>1, <4>2, LiveOrdersSeen
    <3> QED BY <3>2, <3>3
  <2>2. ASSUME x \in LiveOrders, x.system_id # r
        PROVE  x \in LiveOrders'
    <3>1. PICK t \in Sides, i \in Ids : Live(t, i) /\ x = Seen(t, i)
      BY <2>2, LiveOrdersSeen
    <3>2. i # r
      BY <1>3, <2>2, <3>1
    <3> QED BY <1>1, <3>1, <3>2, LiveOrdersSeen
  <2>3. ASSUME Live(s, r)', x = Seen(s, r)'
        PROVE  x \in LiveOrders'
    BY <2>3, LiveOrdersSeen
  <2> QED BY <2>1, <2>2, <2>3
<1> QED BY <1>4 DEF PriceTime!Without

(* What is seen of an order that rests with quantity.                      *)
LEMMA SeenFields ==
  ASSUME BothBooks, NEW s \in Sides, NEW i \in Ids, Live(s, i)
  PROVE  /\ Seen(s, i) \in LiveOrders
         /\ Seen(s, i).system_id = i /\ Seen(s, i).side = s
         /\ Seen(s, i).tick = Slot(s, i)[1] /\ Seen(s, i).rank = Slot(s, i)[2]
         /\ Seen(s, i).quantity = Peek(s, i).quantity
         /\ Slot(s, i)[1] \in Nat /\ Slot(s, i)[2] \in Nat \ {0}
         /\ Peek(s, i).quantity \in Nat
<1>1. /\ Slot(s, i)[1] \in Levels /\ Slot(s, i)[2] \in Nat \ {0} /\ Peek(s, i) \in Entry
  BY SlotLeads DEF BothBooks, Live
<1> QED BY <1>1, LiveOrdersSeen DEF Seen, Levels, Entry

(* The incoming order as the abstract matching sees it.                    *)
Incoming ==
  [system_id |-> order.system_id, side |-> order.order_type,
   tick |-> PriceIndex[order.price], quantity |-> order.quantity]

LEMMA IncomingSeen ==
  ASSUME EngineInv
  PROVE  /\ Matching => BeingMatched = Incoming
         /\ pc = "undefined" /\ order.req_type # "d" => BeingMatched = Incoming
         /\ pc = "undefined" /\ order.req_type = "d" => BeingMatched = None
         /\ pc \in {"idle", "update", "delete", "publish", "finish"} => BeingMatched = None
         /\ pc # "idle" => Incoming \in PriceTime!IncomingOrder
<1>1. pc # "idle" => Incoming \in PriceTime!IncomingOrder
  <2>1. pc # "idle" => /\ order.system_id \in Ids /\ order.price \in Prices
                       /\ order.quantity \in Nat /\ order.order_type \in {"b", "s"}
    BY InHand DEF EngineInv
  <2> QED BY <2>1 DEF Incoming, PriceTime!IncomingOrder, PriceTime!Sides
<1> QED BY <1>1 DEF BeingMatched, Matching, Incoming

LEMMA IncomingSeenNext ==
  /\ Matching' => BeingMatched' = Incoming'
  /\ pc' = "undefined" /\ order'.req_type # "d" => BeingMatched' = Incoming'
  /\ pc' = "undefined" /\ order'.req_type = "d" => BeingMatched' = None
  /\ pc' \in {"idle", "update", "delete", "publish", "finish"} => BeingMatched' = None
BY DEF BeingMatched, Matching, Incoming

-----------------------------------------------------------------------------
(* Every step of the engine is a step of the abstract matching, or leaves  *)
(* what that sees as it is.                                                *)

PriorityInv ==
  /\ EngineInv /\ OrdersLive /\ QuantityInHand /\ ReachesNothing
  /\ InPosition /\ RequestInPlace /\ LevelsBounded

(* With an id that does not rest, an order comes in.                       *)
LEMMA StartsMatching ==
  ASSUME EngineInv, BeingMatched = None, UNCHANGED books,
         pc' = "match", order' \in LOBOrder, order'.quantity \in Quantities,
         \A s \in Sides, i \in Ids : i = order'.system_id => ~ Rests(s, i)
  PROVE  PriceTime!Arrive
<1>1. LiveOrders' = LiveOrders
  BY NoBookChanges, SameOrdersSeen DEF EngineInv
<1>2. BeingMatched' = Incoming'
  BY IncomingSeenNext DEF Matching
<1>3. PICK id \in Ids, p \in Prices, s \in {"b", "s"}, n \in Quantities :
        /\ id = order'.system_id /\ p = order'.price
        /\ s = order'.order_type /\ n = order'.quantity
  BY DEF LOBOrder
<1>4. BeingMatched' =
        [system_id |-> id, side |-> s, tick |-> PriceIndex[p], quantity |-> n]
  BY <1>2, <1>3 DEF Incoming
<1>5. \A x \in LiveOrders : x.system_id # id
  BY <1>3, LiveOrdersSeen DEF Live, Seen
<1> QED BY <1>1, <1>4, <1>5 DEF PriceTime!Arrive, PriceTime!Sides

LEMMA TradeImplements ==
  ASSUME PriorityInv, TradeNext, None \notin PriceTime!IncomingOrder
  PROVE  PriceTime!Trade
<1>0. EngineInv /\ BothBooks /\ HandlerTypeOK
  BY DEF PriorityInv, EngineInv
<1>1. PICK s \in Sides, r \in Ids, n \in Nat : TradesWith(s, r, n)
  BY <1>0, TradeNextEffect
<1>2. /\ pc = "scan" /\ pc' = "told" /\ order \in LOBOrder /\ order.quantity \in Nat
      /\ order.order_type \in Sides /\ PriceIndex[order.price] \in Nat
      /\ order' = [order EXCEPT !.quantity = @ - n]
      /\ s = Other(order.order_type) /\ OnlyChanges(s, r)
      /\ Rests(s, r) /\ Slot(s, r)' = Slot(s, r) /\ cursor' = Slot(s, r)
      /\ Peek(s, r)' = [Peek(s, r) EXCEPT !.quantity = @ - n] /\ Peek(s, r).quantity # 0
      /\ cursor'[1] = cursor[1]
      /\ n = Traded(Peek(s, r).quantity, order.quantity)
  BY <1>0, <1>1, InHand DEF TradeNext, TradesWith, Sides
<1>3. /\ BeingMatched = Incoming /\ BeingMatched' = Incoming' /\ BeingMatched # None
  BY <1>0, <1>2, IncomingSeen, IncomingSeenNext DEF Matching
<1>4. order.quantity # 0 /\ Reaches(order.order_type, PriceIndex[order.price], cursor[1])
  BY <1>2 DEF PriorityInv, InPosition, Scanning
<1>5. PICK x : x = Seen(s, r)
  OBVIOUS
<1>6. Live(s, r)
  <2>1. Peek(s, r) \in Entry
    BY <1>0, <1>2, SlotLeads DEF BothBooks
  <2> QED BY <1>2, <2>1 DEF Live, Entry
<1>7. /\ x \in LiveOrders /\ x.system_id = r /\ x.side = s
      /\ x.tick = cursor[1] /\ x.rank = Slot(s, r)[2] /\ x.quantity = Peek(s, r).quantity
      /\ x.tick \in Nat /\ x.rank \in Nat /\ x.quantity \in Nat
  BY <1>0, <1>2, <1>5, <1>6, SeenFields
<1>8. x \in PriceTime!Crossed(BeingMatched)
  BY <1>2, <1>3, <1>4, <1>7, OtherSide DEF PriceTime!Crossed, Incoming, Reaches, Sides
<1>9. ASSUME NEW y \in PriceTime!Crossed(BeingMatched)
      PROVE  PriceTime!Precedes(x, y)
  <2>1. y \in LiveOrders /\ y.side # order.order_type
    BY <1>3, <1>9 DEF PriceTime!Crossed, Incoming
  <2>2. PICK t \in Sides, i \in Ids : Live(t, i) /\ y = Seen(t, i)
    BY <2>1, LiveOrdersSeen
  <2>3. t = s
    BY <1>2, <2>1, <2>2 DEF Seen, Sides, Other
  <2>4. /\ y.tick = Slot(s, i)[1] /\ y.rank = Slot(s, i)[2]
        /\ y.tick \in Nat /\ y.rank \in Nat
    BY <1>0, <2>2, <2>3, SeenFields
  <2>5. /\ IF s = "b" THEN y.tick <= x.tick ELSE y.tick >= x.tick
        /\ y.tick = x.tick => y.rank >= cursor[2]
    BY <1>2, <1>7, <2>2, <2>3, <2>4 DEF PriorityInv, InPosition, Scanning, Live
  <2>6. y.tick = x.tick => x.rank <= y.rank
    <3>1. Rests(s, i) /\ Peek(s, i).quantity # 0
      BY <1>0, <2>2, <2>3, SeenFields DEF Live
    <3> QED BY ONLY Zenon, <1>1, <1>2, <1>7, <2>4, <2>5, <3>1 DEF TradesWith
  <2> QED BY <1>7, <2>4, <2>5, <2>6 DEF PriceTime!Precedes, Sides
<1>10. BeingMatched' = [BeingMatched EXCEPT !.quantity = @ - n]
  <2>1. /\ order'.system_id = order.system_id /\ order'.order_type = order.order_type
        /\ order'.price = order.price /\ order'.quantity = order.quantity - n
    BY <1>2 DEF LOBOrder
  <2> QED BY <1>3, <2>1 DEF Incoming
<1>11. LiveOrders' = PriceTime!Without(r) \cup
                       IF n = x.quantity THEN {} ELSE {[x EXCEPT !.quantity = @ - n]}
  <2>1. ~ Rests(Other(s), r)
    BY <1>0, <1>2 DEF EngineInv, IdsHandedOut, Sides, Other
  <2>2. PICK e \in Entry : e = Peek(s, r)
    BY <1>0, <1>2, SlotLeads DEF BothBooks
  <2>3. e.quantity \in Nat /\ [e EXCEPT !.quantity = @ - n].quantity = e.quantity - n
    BY <2>2 DEF Entry
  <2>4. Peek(s, r)'.quantity = Peek(s, r).quantity - n
    BY <1>2, <2>2, <2>3
  <2>5. n <= Peek(s, r).quantity
    BY <1>1 DEF TradesWith
  <2>6. Rests(s, r)'
    BY <1>2 DEF Rests
  <2>7. Live(s, r)' <=> n # x.quantity
    BY <1>7, <2>4, <2>5, <2>6 DEF Live
  <2>8. Seen(s, r)' = [x EXCEPT !.quantity = @ - n]
    BY <1>2, <1>5, <1>7, <2>4 DEF Seen
  <2> QED BY <1>2, <2>1, <2>7, <2>8, OneOrderSeen
<1>12. /\ BeingMatched.quantity = order.quantity /\ BeingMatched.quantity > 0
       /\ n = IF x.quantity < BeingMatched.quantity THEN x.quantity ELSE BeingMatched.quantity
  BY <1>2, <1>3, <1>4, <1>7 DEF Incoming, Traded
<1> QED BY <1>3, <1>7, <1>8, <1>9, <1>10, <1>11, <1>12 DEF PriceTime!Trade

(* A place at the back of a level is a rank behind its queue.              *)
LEMMA BackIsBehind ==
  ASSUME PriorityInv, MayStore, NEW s \in Sides, NEW p \in Levels,
         NEW k, k = Len(Level(s, p)) + 1
  PROVE  k \in 1 .. 2 * MaxRequests /\ PriceTime!Behind(k, PriceTime!Queue(s, p))
<1>0. BothBooks
  BY DEF PriorityInv, EngineInv
<1>1. Len(Level(s, p)) \in Nat
  BY <1>0, BookTypes DEF BothBooks
<1>2. k \in 1 .. 2 * MaxRequests
  <2>1. reads \in 0 .. MaxRequests /\ MaxRequests \in Nat
    BY MatchingEngineAssumption DEF PriorityInv, EngineInv, QueuesTypeOK
  <2>2. Len(Level(s, p)) + 1 <= reads
    BY DEF PriorityInv, LevelsBounded
  <2> QED BY <1>1, <2>1, <2>2
<1>3. ASSUME NEW y \in PriceTime!Queue(s, p)
      PROVE  k > y.rank
  <2>1. y \in LiveOrders /\ y.side = s /\ y.tick = p
    BY <1>3 DEF PriceTime!Queue
  <2>2. PICK t \in Sides, i \in Ids : Live(t, i) /\ y = Seen(t, i)
    BY <2>1, LiveOrdersSeen
  <2>3. t = s /\ Slot(s, i)[1] = p /\ y.rank = Slot(s, i)[2] /\ y.rank \in Nat
    BY <1>0, <2>1, <2>2, SeenFields
  <2>4. Slot(s, i)[2] <= Len(Level(s, p))
    BY <1>0, <2>2, <2>3, SlotLeads DEF BothBooks, Live
  <2> QED BY <1>1, <2>3, <2>4
<1> QED BY <1>2, <1>3 DEF PriceTime!Behind

LEMMA StoreImplements ==
  ASSUME PriorityInv, RestOrder, None \notin PriceTime!IncomingOrder
  PROVE  PriceTime!Rest
<1>0. EngineInv /\ BothBooks /\ HandlerTypeOK
  BY DEF PriorityInv, EngineInv
<1>1. PICK s \in Sides, r \in Ids : Stores(s, r)
  BY <1>0, RestOrderEffect
<1>2. /\ pc = "rest" /\ pc' = "publish" /\ order \in LOBOrder /\ order.quantity \in Nat
      /\ PriceIndex[order.price] \in Nat
  BY <1>0, InHand DEF RestOrder, Announce
<1>3. PICK p \in Levels : p = PriceIndex[order.price]
  BY <1>1 DEF Stores
<1>4. /\ s = order.order_type /\ r = order.system_id /\ OnlyChanges(s, r)
      /\ Slot(s, r)' = <<p, Len(Level(s, p)) + 1>>
      /\ Peek(s, r)' = EntryOf(order)
  BY <1>1, <1>3 DEF Stores
<1>5. /\ BeingMatched = Incoming /\ BeingMatched' = None /\ BeingMatched # None
      /\ order.quantity > 0 /\ MayStore
  BY <1>0, <1>2, IncomingSeen, IncomingSeenNext
  DEF Matching, MayStore, PriorityInv, QuantityInHand
<1>6. /\ BeingMatched.quantity = order.quantity /\ BeingMatched.side = s
      /\ BeingMatched.tick = p /\ BeingMatched.system_id = r
  BY <1>3, <1>4, <1>5 DEF Incoming
<1>7. PriceTime!Crossed(BeingMatched) = {}
  <2> SUFFICES ASSUME NEW y \in PriceTime!Crossed(BeingMatched)
               PROVE  FALSE
    OBVIOUS
  <2>1. y \in LiveOrders /\ y.side # s /\ Reaches(s, p, y.tick)
    BY <1>6 DEF PriceTime!Crossed, Reaches
  <2>2. PICK t \in Sides, i \in Ids : Live(t, i) /\ y = Seen(t, i)
    BY <2>1, LiveOrdersSeen
  <2>3. t = Other(s) /\ y.tick = Slot(t, i)[1]
    BY <2>1, <2>2 DEF Seen, Sides, Other
  <2>4. p \in Nat
    BY <1>2, <1>3
  <2> QED BY <1>2, <1>3, <1>4, <2>1, <2>2, <2>3, <2>4 DEF PriorityInv, ReachesNothing, Live
<1>8. PICK k : k = Len(Level(s, p)) + 1
  OBVIOUS
<1>9. k \in 1 .. 2 * MaxRequests /\ PriceTime!Behind(k, PriceTime!Queue(s, p))
  BY <1>5, <1>8, BackIsBehind
<1>10. LiveOrders' = LiveOrders \cup {[system_id |-> r, side |-> s, tick |-> p,
                                      quantity |-> order.quantity, rank |-> k]}
  <2>1. \A t \in Sides : ~ Rests(t, r)
    BY <1>0, <1>2, <1>4 DEF EngineInv, IncomingAway, Matching
  <2>2. Other(s) \in Sides
    BY OtherSide
  <2>3. LiveOrders' = PriceTime!Without(r) \cup (IF Live(s, r)' THEN {Seen(s, r)'} ELSE {})
    BY <1>4, <2>1, <2>2, OneOrderSeen
  <2>4. PriceTime!Without(r) = LiveOrders
    BY <2>1, LiveOrdersSeen DEF PriceTime!Without, Live, Seen
  <2>5. Peek(s, r)'.quantity = order.quantity
    BY <1>4 DEF EntryOf
  <2>6. Slot(s, r)' # NoSlot
    BY <1>3, <1>4 DEF NoSlot, Buy!NoSlot, Levels
  <2>7. Live(s, r)'
    BY <1>5, <2>5, <2>6 DEF Live, Rests
  <2>8. Seen(s, r)' = [system_id |-> r, side |-> s, tick |-> p,
                       quantity |-> order.quantity, rank |-> k]
    BY <1>4, <1>8, <2>5 DEF Seen
  <2> QED BY <2>3, <2>4, <2>7, <2>8
<1> QED BY <1>5, <1>6, <1>7, <1>9, <1>10 DEF PriceTime!Rest

LEMMA CancelImplements ==
  ASSUME PriorityInv, UpdatePrice \/ DeleteResting
  PROVE  \E x \in LiveOrders : PriceTime!Cancel(x)
<1>0. EngineInv /\ BothBooks
  BY DEF PriorityInv, EngineInv
<1>1. PICK s \in Sides, r \in Ids : Forgets(s, r)
  BY <1>0, OwnDeletionEffect
<1>2. /\ pc \in {"update", "delete"} /\ pc' = "publish"
      /\ Rests(s, r) /\ OnlyChanges(s, r) /\ Slot(s, r)' = NoSlot
  BY <1>1 DEF UpdatePrice, DeleteResting, Announce, Forgets
<1>3. BeingMatched = None /\ BeingMatched' = None
  BY <1>0, <1>2, IncomingSeen, IncomingSeenNext
<1>4. Live(s, r)
  <2>1. Peek(s, r) \in Entry /\ Peek(s, r).quantity # 0
    BY <1>0, <1>2, SlotLeads DEF BothBooks, PriorityInv, OrdersLive
  <2> QED BY <1>2, <2>1 DEF Live, Entry
<1>5. PICK x : x = Seen(s, r)
  OBVIOUS
<1>6. x \in LiveOrders /\ x.system_id = r
  BY <1>0, <1>4, <1>5, SeenFields
<1>7. LiveOrders' = PriceTime!Without(r)
  <2>1. ~ Rests(Other(s), r) /\ ~ Live(s, r)'
    BY <1>0, <1>2 DEF EngineInv, IdsHandedOut, Sides, Other, Live, Rests
  <2> QED BY <1>2, <2>1, OneOrderSeen
<1>8. PriceTime!Cancel(x)
  BY <1>3, <1>6, <1>7 DEF PriceTime!Cancel
<1> QED BY <1>6, <1>8

LEMMA AmendImplements ==
  ASSUME PriorityInv, UpdateQuantity
  PROVE  \E x \in LiveOrders : PriceTime!AmendDown(x) \/ PriceTime!AmendUp(x)
<1>0. EngineInv /\ BothBooks /\ HandlerTypeOK
  BY DEF PriorityInv, EngineInv
<1>1. PICK s \in Sides, r \in Ids : Amends(s, r)
  BY <1>0, UpdateQuantityEffect
<1>2. /\ pc = "update" /\ pc' = "publish" /\ OnlyChanges(s, r)
      /\ Rests(s, r) /\ Rests(s, r)' /\ Slot(s, r)'[1] = Slot(s, r)[1]
      /\ Peek(s, r)'.quantity = order.quantity /\ order.quantity # Peek(s, r).quantity
      /\ order.quantity <= Peek(s, r).quantity => Slot(s, r)' = Slot(s, r)
      /\ order.quantity > Peek(s, r).quantity
           => Slot(s, r)'[2] = Len(Level(s, Slot(s, r)[1])) + 1
      /\ order.quantity \in Nat
  BY <1>0, <1>1, InHand DEF UpdateQuantity, Announce, Amends
<1>3. /\ BeingMatched = None /\ BeingMatched' = None
      /\ order.quantity \in Quantities /\ order.quantity # 0 /\ MayStore
  BY <1>0, <1>2, IncomingSeen, IncomingSeenNext
  DEF PriorityInv, RequestInPlace, QuantityInHand, MayStore
<1>4. Peek(s, r) \in Entry /\ Slot(s, r)[1] \in Levels
  BY <1>0, <1>2, SlotLeads DEF BothBooks
<1>5. Live(s, r) /\ Peek(s, r).quantity \in Nat
  <2>1. Peek(s, r).quantity # 0
    BY <1>2 DEF PriorityInv, OrdersLive
  <2> QED BY <1>2, <1>4, <2>1 DEF Live, Entry
<1>6. PICK x : x = Seen(s, r)
  OBVIOUS
<1>7. /\ x \in LiveOrders /\ x.system_id = r /\ x.side = s /\ x.tick = Slot(s, r)[1]
      /\ x.quantity = Peek(s, r).quantity
  BY <1>0, <1>5, <1>6, SeenFields
<1>8. LiveOrders' = PriceTime!Without(r) \cup {Seen(s, r)'}
  <2>1. ~ Rests(Other(s), r) /\ Live(s, r)'
    BY <1>0, <1>2, <1>3 DEF EngineInv, IdsHandedOut, Sides, Other, Live
  <2> QED BY <1>2, <2>1, OneOrderSeen
<1>9. PICK n \in Quantities : n = order.quantity /\ n # 0 /\ n \in Nat
  BY <1>2, <1>3
<1>10. CASE n < Peek(s, r).quantity
  <2>1. Seen(s, r)' = [x EXCEPT !.quantity = n]
    BY <1>2, <1>5, <1>6, <1>9, <1>10 DEF Seen
  <2>2. PriceTime!AmendDown(x)
    BY <1>3, <1>7, <1>8, <1>9, <1>10, <2>1 DEF PriceTime!AmendDown
  <2> QED BY <1>7, <2>2
<1>11. CASE n > Peek(s, r).quantity
  <2>1. PICK k : k = Len(Level(s, Slot(s, r)[1])) + 1
    OBVIOUS
  <2>2. k \in 1 .. 2 * MaxRequests /\ PriceTime!Behind(k, PriceTime!Queue(x.side, x.tick))
    BY <1>3, <1>4, <1>7, <2>1, BackIsBehind
  <2>3. Slot(s, r)'[2] = k /\ Slot(s, r)'[1] = Slot(s, r)[1]
    BY <1>2, <1>9, <1>11, <2>1
  <2>4. Seen(s, r)' = [x EXCEPT !.quantity = n, !.rank = k]
    <3>1. Seen(s, r)' = [system_id |-> r, side |-> s, tick |-> Slot(s, r)[1],
                         quantity |-> n, rank |-> k]
      BY <1>2, <1>9, <2>3 DEF Seen
    <3>2. PICK z : z = [x EXCEPT !.quantity = n]
      OBVIOUS
    <3>3. z = [system_id |-> r, side |-> s, tick |-> Slot(s, r)[1],
               quantity |-> n, rank |-> Slot(s, r)[2]]
      BY <1>6, <3>2 DEF Seen
    <3>4. [z EXCEPT !.rank = k] = Seen(s, r)'
      BY <3>1, <3>3
    <3>5. [x EXCEPT !.quantity = n, !.rank = k] = [z EXCEPT !.rank = k]
      BY <3>2
    <3> QED BY <3>4, <3>5
  <2>5. PriceTime!AmendUp(x)
    BY <1>3, <1>7, <1>8, <1>9, <1>11, <2>2, <2>4 DEF PriceTime!AmendUp
  <2> QED BY <1>7, <2>5
<1>12. n < Peek(s, r).quantity \/ n > Peek(s, r).quantity
  BY <1>2, <1>5, <1>9
<1> QED BY <1>10, <1>11, <1>12

LEMMA PriorityStep ==
  ASSUME PriorityInv, [Next]_vars, None \notin PriceTime!IncomingOrder
  PROVE  [PriceTime!AbstractNext]_(PriceTime!abstractVars)
<1>0. EngineInv /\ BothBooks /\ HandlerTypeOK
  BY DEF PriorityInv, EngineInv
<1>1. ASSUME LiveOrders' = LiveOrders, BeingMatched' = BeingMatched
      PROVE  [PriceTime!AbstractNext]_(PriceTime!abstractVars)
  BY <1>1 DEF PriceTime!abstractVars
<1>2. ASSUME UNCHANGED books
      PROVE  LiveOrders' = LiveOrders
  BY <1>0, <1>2, NoBookChanges, SameOrdersSeen
<1>3. CASE StopMatching
  <2>1. /\ pc = "match" /\ UNCHANGED <<books, order>> /\ order.quantity \in Nat
        /\ pc' = IF order.quantity > 0 THEN "rest" ELSE "finish"
    BY <1>0, <1>3, InHand DEF StopMatching
  <2>2. /\ BeingMatched = Incoming /\ BeingMatched # None /\ Incoming' = Incoming
        /\ BeingMatched.quantity = order.quantity
    BY <1>0, <2>1, IncomingSeen DEF Matching, Incoming
  <2>3. CASE order.quantity > 0
    BY <1>1, <1>2, <2>1, <2>2, <2>3, IncomingSeenNext DEF Matching
  <2>4. CASE order.quantity = 0
    BY <1>2, <2>1, <2>2, <2>4, IncomingSeenNext DEF PriceTime!AbstractNext, PriceTime!Done
  <2> QED BY <2>1, <2>3, <2>4
<1>4. CASE EnterLevel \/ LeaveLevel \/ TellResting
  <2>1. UNCHANGED <<books, order>> /\ Matching /\ Matching'
    BY <1>4 DEF EnterLevel, LeaveLevel, TellResting, Matching
  <2>2. BeingMatched' = BeingMatched
    BY <1>0, <2>1, IncomingSeen, IncomingSeenNext DEF Incoming
  <2> QED BY <1>1, <1>2, <2>1, <2>2
<1>5. CASE TradeNext
  BY <1>5, TradeImplements DEF PriceTime!AbstractNext
<1>6. CASE Settle
  <2>1. UNCHANGED order /\ pc = "settle" /\ Matching /\ Matching'
    BY <1>6 DEF Settle, Matching
  <2>2. BeingMatched' = BeingMatched
    BY <1>0, <2>1, IncomingSeen, IncomingSeenNext DEF Incoming
  <2>3. ASSUME Filled.quantity = 0,
               NEW s \in Sides, NEW r \in Ids, s = Other(order.order_type),
               r = Filled.system_id, Forgets(s, r)
        PROVE  LiveOrders' = LiveOrders
    <3>1. PICK i \in Ids : Rests(s, i) /\ Slot(s, i) = cursor
      BY <2>1, <2>3 DEF PriorityInv, InPosition, Scanning
    <3>2. PICK p \in Levels : p = cursor[1]
      BY <1>0, <2>1, InHand
    <3>3. Filled = Level(s, p)[cursor[2]]
      <4>1. order.order_type \in Sides
        BY <1>0, <2>1, InHand DEF Sides
      <4> QED BY <2>3, <3>2, <4>1, OrderViews DEF Filled, LevelInHand
    <3>4. Peek(s, i) = Filled /\ Peek(s, i).system_id = i
      BY <1>0, <3>1, <3>2, <3>3, SlotLeads DEF Peek, BothBooks
    <3>5. ~ Live(s, r)
      BY <2>3, <3>4 DEF Live
    <3>6. ~ Live(s, r)' /\ OnlyChanges(s, r) /\ ~ Rests(Other(s), r)
      BY <1>0, <2>3 DEF Forgets, Live, Rests, EngineInv, IdsHandedOut, Sides, Other
    <3>7. LiveOrders' = PriceTime!Without(r)
      BY <3>6, OneOrderSeen
    <3>8. \A t \in Sides : ~ Live(t, r)
      BY <3>5, <3>6 DEF Live, Sides, Other
    <3>9. \A x \in LiveOrders : x.system_id # r
      BY <3>8, LiveOrdersSeen DEF Seen
    <3> QED BY <3>7, <3>9 DEF PriceTime!Without
  <2> QED BY <1>0, <1>1, <1>2, <1>6, <2>2, <2>3, SettleEffect
<1>7. CASE RestOrder
  BY <1>7, StoreImplements DEF PriceTime!AbstractNext
<1>8. CASE UpdatePrice \/ DeleteResting
  BY <1>8, CancelImplements DEF PriceTime!AbstractNext
<1>9. CASE UpdateQuantity
  BY <1>9, AmendImplements DEF PriceTime!AbstractNext
<1>10. CASE Publish
  <2>1. /\ pc = "publish" /\ UNCHANGED <<books, order>> /\ pc' \in {"match", "finish"}
        /\ pc' = "match" => pending.type = "D"
    BY <1>10 DEF Publish
  <2>2. BeingMatched = None
    BY <1>0, <2>1, IncomingSeen
  <2>3. CASE pc' = "finish"
    BY <1>1, <1>2, <2>1, <2>2, <2>3, IncomingSeenNext
  <2>4. CASE pc' = "match"
    <3>1. order' \in LOBOrder /\ order'.quantity \in Quantities
      BY <1>0, <2>1, <2>4, InHand DEF PriorityInv, RequestInPlace, Deleted
    <3>2. \A s \in Sides, i \in Ids : i = order'.system_id => ~ Rests(s, i)
      BY <1>0, <2>1, <2>4 DEF EngineInv, IncomingAway
    <3> QED BY <1>0, <2>1, <2>2, <2>4, <3>1, <3>2, StartsMatching DEF PriceTime!AbstractNext
  <2> QED BY <2>1, <2>3, <2>4
<1>11. CASE UpdateIgnored \/ Finish
  <2>1. /\ UNCHANGED books /\ pc \in {"update", "finish"} /\ pc' \in {"finish", "idle"}
    BY <1>11 DEF UpdateIgnored, Finish
  <2> QED BY <1>0, <1>1, <1>2, <2>1, IncomingSeen, IncomingSeenNext
<1>12. CASE Undefined
  <2>1. /\ UNCHANGED <<books, order>> /\ pc \in {"delete", "rest"} /\ pc' = "undefined"
        /\ pc = "delete" => order.req_type = "d"
        /\ pc = "rest" => order.req_type # "d"
    BY <1>12 DEF Undefined, OutOfBounds, PriorityInv, RequestInPlace, Matching
  <2>2. BeingMatched' = BeingMatched
    BY <1>0, <2>1, IncomingSeen, IncomingSeenNext DEF Incoming, Matching
  <2> QED BY <1>1, <1>2, <2>1, <2>2
<1>13. CASE Arrival
  <2>1. PICK q \in Requests, id \in Ids :
          LET req == [system_id |-> id, price |-> q.price, quantity |-> q.quantity,
                      trade_id |-> q.trade_id, order_type |-> q.order_type,
                      req_type |-> q.req_type]
          IN  /\ q.req_type = "c" => id >= nextId
              /\ ReadOrder(req)
    BY <1>13 DEF Arrival
  <2>2. q \in Request /\ Quantities \subseteq Nat
    BY MatchingEngineAssumption
  <2>3. /\ pc = "idle" /\ UNCHANGED books /\ pc' = Handler[q.req_type]
        /\ order'.system_id = id /\ order'.quantity = q.quantity
        /\ order' \in LOBOrder /\ q.req_type \in {"c", "u", "d"} /\ q.quantity \in Quantities
    BY <2>1, <2>2 DEF ReadOrder, LOBOrder, Request
  <2>4. BeingMatched = None
    BY <1>0, <2>3, IncomingSeen
  <2>5. CASE q.req_type = "c"
    <3>1. nextId \in Nat /\ \A i \in Ids : i \in Nat
      BY <1>0, MatchingEngineAssumption DEF EngineInv, QueuesTypeOK, Ids
    <3>2. \A s \in Sides, i \in Ids : i = order'.system_id => ~ Rests(s, i)
      BY <1>0, <2>1, <2>3, <2>5, <3>1 DEF EngineInv, IdsHandedOut
    <3>3. pc' = "match"
      BY <2>3, <2>5 DEF Handler
    <3> QED BY <1>0, <2>3, <2>4, <3>2, <3>3, StartsMatching DEF PriceTime!AbstractNext
  <2>6. CASE q.req_type # "c"
    <3>1. pc' \in {"update", "delete"}
      BY <2>3, <2>6 DEF Handler
    <3> QED BY <1>1, <1>2, <2>3, <2>4, <3>1, IncomingSeenNext
  <2> QED BY <2>5, <2>6
<1>14. CASE TakeAck \/ PollEmpty \/ Stopped \/ UNCHANGED vars
  <2>1. UNCHANGED <<books, order, pc>>
    BY <1>14 DEF TakeAck, PollEmpty, Stopped, vars
  <2>2. BeingMatched' = BeingMatched
    BY <2>1 DEF BeingMatched
  <2> QED BY <1>1, <1>2, <2>1, <2>2
<1> QED BY <1>3, <1>4, <1>5, <1>6, <1>7, <1>8, <1>9, <1>10, <1>11, <1>12, <1>13, <1>14
        DEF Next, Engine

LEMMA PriorityInvInit ==
  ASSUME Init
  PROVE  PriorityInv /\ PriceTime!AbstractInit
<1>1. \A s \in Sides, i \in Ids : ~ Rests(s, i)
  BY DEF Init, Buy!BookInit, Sell!BookInit, Buy!NoSlot, Sell!NoSlot, NoSlot, Rests, Slot
<1>2. \A s \in Sides, q \in Levels : Level(s, q) = <<>>
  BY DEF Init, Buy!BookInit, Sell!BookInit, Buy!Levels, Sell!Levels, Levels, Level
<1>3. LevelsBounded
  BY <1>2 DEF Init, LevelsBounded, MayStore, Matching, Deleted
<1>4. LiveOrders = {}
  BY <1>1, LiveOrdersSeen DEF Live
<1>5. BeingMatched = None
  BY DEF Init, BeingMatched
<1>6. OrdersLive /\ QuantityInHand /\ ReachesNothing /\ InPosition /\ RequestInPlace
  BY <1>1 DEF Init, OrdersLive, QuantityInHand, ReachesNothing, InPosition, Scanning,
    RequestInPlace, Matching, Deleted
<1> QED BY <1>3, <1>4, <1>5, <1>6, EngineInit DEF PriorityInv, PriceTime!AbstractInit

LEMMA PriorityInvStep ==
  ASSUME 0 \notin Quantities, PriorityInv, Uncrossed, [Next]_vars
  PROVE  PriorityInv' /\ Uncrossed'
BY EngineStep, OrdersLiveStep, UncrossedStep, InPositionStep, RequestInPlaceStep,
  LevelsBoundedStep DEF PriorityInv

(* Price-time priority: with positive quantities the engine implements the *)
(* abstract matching.  Every trade of aggresiveMatch is with the best      *)
(* priced order the incoming one crosses and, at one price, with the one   *)
(* that has waited longest; what is left rests behind its price level, and *)
(* an amendment keeps the place of an order that does not grow.            *)
THEOREM EnginePriceTimePriority ==
  ASSUME 0 \notin Quantities, None \notin PriceTime!IncomingOrder
  PROVE  Spec => PriceTimePriority
<1>1. Init => PriorityInv /\ Uncrossed /\ PriceTime!AbstractInit
  BY PriorityInvInit DEF Init, Uncrossed, Buy!BookInit, Buy!NoSlot, NoSlot, Rests, Slot
<1>2. PriorityInv /\ Uncrossed /\ [Next]_vars => PriorityInv' /\ Uncrossed'
  BY PriorityInvStep
<1>3. PriorityInv /\ [Next]_vars => [PriceTime!AbstractNext]_(PriceTime!abstractVars)
  BY PriorityStep
<1> QED BY <1>1, <1>2, <1>3, PTL DEF Spec, PriceTimePriority, PriceTime!AbstractSpec

=============================================================================
