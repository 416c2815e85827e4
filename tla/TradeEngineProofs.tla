------------------------- MODULE TradeEngineProofs -------------------------
(***************************************************************************)
(* The engine's thread in the whole program is the engine of               *)
(* MatchingEngine: what is proved there of requests that arrive with       *)
(* rising ids holds of those the gateway forwards.                         *)
(*                                                                         *)
(* The argument puts the two halves together.  The gateway's invariant     *)
(* says that the ids in the queue rise and are within the table, and the   *)
(* engine's that its acknowledgements bear the ids of requests it has      *)
(* begun; each is kept by the steps of the other thread, since all that    *)
(* one thread sees of the other are the two queues.  What is left to show  *)
(* is that the request in the engine's hand is the slot at the head of the *)
(* queue, and that the slots behind it are as the client asked.            *)
(*                                                                         *)
(* The last sections add up what the client was told.  Its orders have the *)
(* system ids of their places; what was told of one and what is left of it *)
(* are its quantity, and each trade is told to its buyer and its seller.   *)
(***************************************************************************)
EXTENDS TradeEngine, SequenceTheorems, WellFoundedInduction, TLAPS

GWP == INSTANCE OrderGatewayProofs

MEP == INSTANCE MatchingEngineProofs WITH
  Quantities <- {TestStore[i].quantity % Word : i \in DOMAIN TestStore},
  Traders <- {1}, Requests <- {Asked(TestStore[i]) : i \in DOMAIN TestStore},
  MaxRequests <- Len(TestStore), MaxGap <- Len(TestStore), nextId <- NextId, reads <- Begun

-----------------------------------------------------------------------------
(* The constants of the program are allowed ones of its parts. *)

LEMMA StoreTypes ==
  /\ Len(TestStore) \in Nat /\ DOMAIN TestStore = 1 .. Len(TestStore)
  /\ \A i \in DOMAIN TestStore : TestStore[i] \in GW!UserOrder /\ TestStore[i].trader_id = 1
<1>1. TestStore \in Seq(GW!UserOrder)
  BY Zenon, TradeEngineAssumption
<1> HIDE DEF GW!UserOrder
<1> QED BY <1>1, TradeEngineAssumption

LEMMA GatewayConstants == GWP!OrderGatewayAssumption
<1>1. GWP!UserOrder = GW!UserOrder /\ GWP!LOBOrder = GW!LOBOrder /\ GWP!Handled = GW!Handled
  BY DEF GWP!UserOrder, GW!UserOrder, GWP!LOBOrder, GW!LOBOrder, GWP!Handled, GW!Handled,
    GWP!SystemIds, GW!SystemIds, GWP!Places, GW!Places, GWP!Sources, GW!Sources
<1>2. MakerStore \in Seq(GWP!UserOrder)
  BY DEF MakerStore
<1> QED BY <1>1, <1>2, StoreTypes, TradeEngineAssumption
  DEF GWP!OrderGatewayAssumption, LUTSize, MaxAcks, MakerSlots

LEMMA EngineConstants ==
  /\ MEP!MatchingEngineAssumption
  /\ \A i \in DOMAIN TestStore : Asked(TestStore[i]) \in MEP!Request
<1>1. ASSUME NEW i \in DOMAIN TestStore
      PROVE  /\ TestStore[i].quantity % Word \in Nat
             /\ Asked(TestStore[i]) \in MEP!Request
  <2>1. PICK o \in GW!UserOrder : o = TestStore[i] /\ o.trader_id = 1
    BY StoreTypes
  <2>2. /\ o.quantity \in Nat /\ o.price \in Prices /\ o.order_type \in {"b", "s"}
        /\ o.req_type \in {"c", "u", "d"}
    BY Zenon, <2>1 DEF GW!UserOrder
  <2>3. o.quantity % Word \in Nat
    BY <2>2, TradeEngineAssumption
  <2>4. o.quantity % Word \in {TestStore[j].quantity % Word : j \in DOMAIN TestStore}
    BY Zenon, <2>1
  <2> QED BY <2>1, <2>2, <2>3, <2>4 DEF Asked, MEP!Request
<1>2. MEP!LOBOrder = ME!LOBOrder /\ MEP!Change = ME!Change
  BY DEF MEP!LOBOrder, ME!LOBOrder, MEP!Change, ME!Change, MEP!Ids, ME!Ids, MEP!Kinds,
    ME!Kinds, MEP!Entry, ME!Entry
<1>3. MaxOrders \in Nat
  BY StoreTypes DEF MaxOrders
<1> QED BY <1>1, <1>2, <1>3, StoreTypes, TradeEngineAssumption DEF MEP!MatchingEngineAssumption

-----------------------------------------------------------------------------
(* The same definitions under the constants and variables of the program,  *)
(* of its parts and of the modules of theorems about these.                *)

(* A step of the engine that begins no request. *)
LEMMA EngineOfProofs ==
  ASSUME ME!Engine, UNCHANGED <<NextId, Begun>>
  PROVE  MEP!Engine
<1> USE DEF ME!Ack, ME!Announce, ME!Crosses, ME!EntryOf, ME!Filled, ME!IsBuy,
  ME!LevelInHand, ME!Levels, ME!LiveAhead, ME!MayTrade, ME!NextLive, ME!NoLevel,
  ME!NoSlot, ME!OnBook, ME!OppositeBest, ME!OppositeLevel, ME!OutOfBounds, ME!OwnEntry,
  ME!RestsInOwnBook, ME!books, ME!buyVars, ME!envVars, ME!outVars, ME!sellVars,
  ME!Buy!Better, ME!Buy!CreateOrder, ME!Buy!DeleteOrder, ME!Buy!Enlarge, ME!Buy!EntryAt,
  ME!Buy!Glides, ME!Buy!Levels, ME!Buy!NoSlot, ME!Buy!PeekOrder, ME!Buy!Reduce,
  ME!Buy!Resting, ME!Buy!TakeQuantity, ME!Buy!UpdateOrderQuantity, ME!Sell!Better,
  ME!Sell!CreateOrder, ME!Sell!DeleteOrder, ME!Sell!Enlarge, ME!Sell!EntryAt,
  ME!Sell!Glides, ME!Sell!Levels, ME!Sell!NoSlot, ME!Sell!PeekOrder, ME!Sell!Reduce,
  ME!Sell!Resting, ME!Sell!TakeQuantity, ME!Sell!UpdateOrderQuantity, MEP!Ack,
  MEP!Announce, MEP!Crosses, MEP!EntryOf, MEP!Filled, MEP!IsBuy, MEP!LevelInHand,
  MEP!Levels, MEP!LiveAhead, MEP!MayTrade, MEP!NextLive, MEP!NoLevel, MEP!NoSlot,
  MEP!OnBook, MEP!OppositeBest, MEP!OppositeLevel, MEP!OutOfBounds, MEP!OwnEntry,
  MEP!RestsInOwnBook, MEP!books, MEP!buyVars, MEP!envVars, MEP!outVars, MEP!sellVars,
  MEP!Buy!Better, MEP!Buy!CreateOrder, MEP!Buy!DeleteOrder, MEP!Buy!Enlarge,
  MEP!Buy!EntryAt, MEP!Buy!Glides, MEP!Buy!Levels, MEP!Buy!NoSlot, MEP!Buy!PeekOrder,
  MEP!Buy!Reduce, MEP!Buy!Resting, MEP!Buy!TakeQuantity, MEP!Buy!UpdateOrderQuantity,
  MEP!Sell!Better, MEP!Sell!CreateOrder, MEP!Sell!DeleteOrder, MEP!Sell!Enlarge,
  MEP!Sell!EntryAt, MEP!Sell!Glides, MEP!Sell!Levels, MEP!Sell!NoSlot,
  MEP!Sell!PeekOrder, MEP!Sell!Reduce, MEP!Sell!Resting, MEP!Sell!TakeQuantity,
  MEP!Sell!UpdateOrderQuantity
<1>1. ME!StopMatching => MEP!StopMatching
  BY Zenon DEF ME!StopMatching, MEP!StopMatching
<1>2. ME!EnterLevel => MEP!EnterLevel
  BY Zenon DEF ME!EnterLevel, MEP!EnterLevel
<1>3. ME!TradeNext => MEP!TradeNext
  BY Zenon DEF ME!TradeNext, MEP!TradeNext
<1>4. ME!TellResting => MEP!TellResting
  BY Zenon DEF ME!TellResting, MEP!TellResting
<1>5. ME!LeaveLevel => MEP!LeaveLevel
  BY Zenon DEF ME!LeaveLevel, MEP!LeaveLevel
<1>6. ME!Settle => MEP!Settle
  BY Zenon DEF ME!Settle, MEP!Settle
<1>7. ME!RestOrder => MEP!RestOrder
  BY Zenon DEF ME!RestOrder, MEP!RestOrder
<1>8. ME!UpdateIgnored => MEP!UpdateIgnored
  BY Zenon DEF ME!UpdateIgnored, MEP!UpdateIgnored
<1>9. ME!UpdatePrice => MEP!UpdatePrice
  BY Zenon DEF ME!UpdatePrice, MEP!UpdatePrice
<1>10. ME!UpdateQuantity => MEP!UpdateQuantity
  BY Zenon DEF ME!UpdateQuantity, MEP!UpdateQuantity
<1>11. ME!DeleteResting => MEP!DeleteResting
  BY Zenon DEF ME!DeleteResting, MEP!DeleteResting
<1>12. ME!Publish => MEP!Publish
  BY Zenon DEF ME!Publish, MEP!Publish
<1>13. ME!Finish => MEP!Finish
  BY DEF ME!Finish, MEP!Finish
<1>14. ME!Undefined => MEP!Undefined
  BY DEF ME!Undefined, MEP!Undefined
<1> QED BY <1>1, <1>2, <1>3, <1>4, <1>5, <1>6, <1>7, <1>8, <1>9, <1>10, <1>11, <1>12,
  <1>13, <1>14 DEF ME!Engine, MEP!Engine

(* And of the engine that the property names. *)
LEMMA EngineOfThread ==
  ASSUME MEP!Engine
  PROVE  Thread!Engine
<1> USE DEF MEP!Ack, MEP!Announce, MEP!Crosses, MEP!EntryOf, MEP!Filled, MEP!IsBuy,
  MEP!LevelInHand, MEP!Levels, MEP!LiveAhead, MEP!MayTrade, MEP!NextLive, MEP!NoLevel,
  MEP!NoSlot, MEP!OnBook, MEP!OppositeBest, MEP!OppositeLevel, MEP!OutOfBounds,
  MEP!OwnEntry, MEP!RestsInOwnBook, MEP!books, MEP!buyVars, MEP!envVars, MEP!outVars,
  MEP!sellVars, MEP!Buy!Better, MEP!Buy!CreateOrder, MEP!Buy!DeleteOrder,
  MEP!Buy!Enlarge, MEP!Buy!EntryAt, MEP!Buy!Glides, MEP!Buy!Levels, MEP!Buy!NoSlot,
  MEP!Buy!PeekOrder, MEP!Buy!Reduce, MEP!Buy!Resting, MEP!Buy!TakeQuantity,
  MEP!Buy!UpdateOrderQuantity, MEP!Sell!Better, MEP!Sell!CreateOrder,
  MEP!Sell!DeleteOrder, MEP!Sell!Enlarge, MEP!Sell!EntryAt, MEP!Sell!Glides,
  MEP!Sell!Levels, MEP!Sell!NoSlot, MEP!Sell!PeekOrder, MEP!Sell!Reduce,
  MEP!Sell!Resting, MEP!Sell!TakeQuantity, MEP!Sell!UpdateOrderQuantity, Thread!Ack,
  Thread!Announce, Thread!Crosses, Thread!EntryOf, Thread!Filled, Thread!IsBuy,
  Thread!LevelInHand, Thread!Levels, Thread!LiveAhead, Thread!MayTrade, Thread!NextLive,
  Thread!NoLevel, Thread!NoSlot, Thread!OnBook, Thread!OppositeBest,
  Thread!OppositeLevel, Thread!OutOfBounds, Thread!OwnEntry, Thread!RestsInOwnBook,
  Thread!books, Thread!buyVars, Thread!envVars, Thread!outVars, Thread!sellVars,
  Thread!Buy!Better, Thread!Buy!CreateOrder, Thread!Buy!DeleteOrder, Thread!Buy!Enlarge,
  Thread!Buy!EntryAt, Thread!Buy!Glides, Thread!Buy!Levels, Thread!Buy!NoSlot,
  Thread!Buy!PeekOrder, Thread!Buy!Reduce, Thread!Buy!Resting, Thread!Buy!TakeQuantity,
  Thread!Buy!UpdateOrderQuantity, Thread!Sell!Better, Thread!Sell!CreateOrder,
  Thread!Sell!DeleteOrder, Thread!Sell!Enlarge, Thread!Sell!EntryAt, Thread!Sell!Glides,
  Thread!Sell!Levels, Thread!Sell!NoSlot, Thread!Sell!PeekOrder, Thread!Sell!Reduce,
  Thread!Sell!Resting, Thread!Sell!TakeQuantity, Thread!Sell!UpdateOrderQuantity
<1>1. MEP!StopMatching => Thread!StopMatching
  BY Zenon DEF MEP!StopMatching, Thread!StopMatching
<1>2. MEP!EnterLevel => Thread!EnterLevel
  BY Zenon DEF MEP!EnterLevel, Thread!EnterLevel
<1>3. MEP!TradeNext => Thread!TradeNext
  BY Zenon DEF MEP!TradeNext, Thread!TradeNext
<1>4. MEP!TellResting => Thread!TellResting
  BY Zenon DEF MEP!TellResting, Thread!TellResting
<1>5. MEP!LeaveLevel => Thread!LeaveLevel
  BY Zenon DEF MEP!LeaveLevel, Thread!LeaveLevel
<1>6. MEP!Settle => Thread!Settle
  BY Zenon DEF MEP!Settle, Thread!Settle
<1>7. MEP!RestOrder => Thread!RestOrder
  BY Zenon DEF MEP!RestOrder, Thread!RestOrder
<1>8. MEP!UpdateIgnored => Thread!UpdateIgnored
  BY Zenon DEF MEP!UpdateIgnored, Thread!UpdateIgnored
<1>9. MEP!UpdatePrice => Thread!UpdatePrice
  BY Zenon DEF MEP!UpdatePrice, Thread!UpdatePrice
<1>10. MEP!UpdateQuantity => Thread!UpdateQuantity
  BY Zenon DEF MEP!UpdateQuantity, Thread!UpdateQuantity
<1>11. MEP!DeleteResting => Thread!DeleteResting
  BY Zenon DEF MEP!DeleteResting, Thread!DeleteResting
<1>12. MEP!Publish => Thread!Publish
  BY Zenon DEF MEP!Publish, Thread!Publish
<1>13. MEP!Finish => Thread!Finish
  BY DEF MEP!Finish, Thread!Finish
<1>14. MEP!Undefined => Thread!Undefined
  BY DEF MEP!Undefined, Thread!Undefined
<1> QED BY <1>1, <1>2, <1>3, <1>4, <1>5, <1>6, <1>7, <1>8, <1>9, <1>10, <1>11, <1>12,
  <1>13, <1>14 DEF MEP!Engine, Thread!Engine

LEMMA GatewayOfProofs ==
  ASSUME GW!Gateway
  PROVE  GWP!Gateway
<1> USE DEF GW!AfterSource, GW!AssignSystemId, GW!GatewayMoves, GW!HasRequest,
  GW!HasRoom, GW!HeadOf, GW!Request, GW!Slots, GW!Sources, GW!Store, GW!SystemToOrderId,
  GW!idVars, GW!outVars, GWP!AfterSource, GWP!AssignSystemId, GWP!GatewayMoves,
  GWP!HasRequest, GWP!HasRoom, GWP!HeadOf, GWP!Request, GWP!Slots, GWP!Sources,
  GWP!Store, GWP!SystemToOrderId, GWP!idVars, GWP!outVars
<1>1. GW!GatewayLooksForStart => GWP!GatewayLooksForStart
  BY DEF GW!GatewayLooksForStart, GWP!GatewayLooksForStart
<1>2. GW!GatewayLooksForEnd => GWP!GatewayLooksForEnd
  BY DEF GW!GatewayLooksForEnd, GWP!GatewayLooksForEnd
<1>3. GW!NextRound => GWP!NextRound
  BY DEF GW!NextRound, GWP!NextRound
<1>4. GW!NothingToTake => GWP!NothingToTake
  BY DEF GW!NothingToTake, GWP!NothingToTake
<1>5. GW!Take => GWP!Take
  BY DEF GW!Take, GWP!Take
<1>6. GW!TakeOutOfIds => GWP!TakeOutOfIds
  BY Zenon DEF GW!TakeOutOfIds, GWP!TakeOutOfIds
<1>7. GW!Forward => GWP!Forward
  BY Zenon DEF GW!Forward, GWP!Forward
<1>8. GW!LogSent => GWP!LogSent
  BY DEF GW!LogSent, GWP!LogSent
<1>9. GW!Release => GWP!Release
  BY DEF GW!Release, GWP!Release
<1>10. GW!NoAckRelayed => GWP!NoAckRelayed
  BY DEF GW!NoAckRelayed, GWP!NoAckRelayed
<1>11. GW!RelayAck => GWP!RelayAck
  BY DEF GW!RelayAck, GWP!RelayAck
<1>12. GW!ReleaseAck => GWP!ReleaseAck
  BY DEF GW!ReleaseAck, GWP!ReleaseAck
<1>13. GW!Report => GWP!Report
  BY DEF GW!Report, GWP!Report
<1> QED BY <1>1, <1>2, <1>3, <1>4, <1>5, <1>6, <1>7, <1>8, <1>9, <1>10, <1>11, <1>12,
  <1>13 DEF GW!Gateway, GWP!Gateway

LEMMA AlphaOfProofs == GW!Alpha => GWP!Alpha
BY DEF GW!Alpha, GWP!Alpha, GW!AlphaLooksForStart, GWP!AlphaLooksForStart, GW!AlphaLooksForEnd,
  GWP!AlphaLooksForEnd, GW!AlphaSends, GWP!AlphaSends, GW!AlphaReturns, GWP!AlphaReturns,
  GW!AlphaMoves, GWP!AlphaMoves, GW!Send, GWP!Send, GW!SlotFree, GWP!SlotFree, GW!Slots,
  GWP!Slots, GW!Store, GWP!Store, GW!idVars, GWP!idVars, GW!outVars, GWP!outVars

LEMMA InitOfProofs ==
  /\ GW!InitThreads => GWP!InitThreads
  /\ ME!Init /\ NextId = 0 /\ Begun = 0 => MEP!Init
  /\ MEP!Init => Thread!Init
<1>1. GW!InitThreads => GWP!InitThreads
  BY DEF GW!InitThreads, GWP!InitThreads, GW!Sources, GWP!Sources, GW!SystemIds, GWP!SystemIds
<1> USE DEF ME!NoSlot, MEP!NoSlot, Thread!NoSlot, ME!Ids, MEP!Ids, Thread!Ids,
  ME!Buy!BookInit, ME!Sell!BookInit, MEP!Buy!BookInit, MEP!Sell!BookInit,
  Thread!Buy!BookInit, Thread!Sell!BookInit, ME!Buy!NoSlot, ME!Sell!NoSlot,
  MEP!Buy!NoSlot, MEP!Sell!NoSlot, Thread!Buy!NoSlot, Thread!Sell!NoSlot,
  ME!Buy!Levels, ME!Sell!Levels, MEP!Buy!Levels, MEP!Sell!Levels,
  Thread!Buy!Levels, Thread!Sell!Levels, ME!Buy!Sentinel, ME!Sell!Sentinel,
  MEP!Buy!Sentinel, MEP!Sell!Sentinel, Thread!Buy!Sentinel, Thread!Sell!Sentinel
<1>2. ME!Init /\ NextId = 0 /\ Begun = 0 => MEP!Init
  BY DEF ME!Init, MEP!Init
<1>3. MEP!Init => Thread!Init
  BY DEF Thread!Init, MEP!Init
<1> QED BY <1>1, <1>2, <1>3

LEMMA NextOfThread ==
  ASSUME [MEP!Next]_MEP!vars
  PROVE  [Thread!Next]_Thread!vars
<1> USE DEF MEP!books, Thread!books, MEP!buyVars, Thread!buyVars, MEP!sellVars, Thread!sellVars,
  MEP!outVars, Thread!outVars, MEP!envVars, Thread!envVars, MEP!vars, Thread!vars
<1>1. MEP!Arrival => Thread!Arrival
  BY Zenon DEF MEP!Arrival, Thread!Arrival, MEP!ReadOrder, Thread!ReadOrder, MEP!Handler, Thread!Handler,
    MEP!Ids, Thread!Ids, MEP!RestsInOwnBook, Thread!RestsInOwnBook, MEP!OwnEntry, Thread!OwnEntry,
    MEP!IsBuy, Thread!IsBuy, MEP!Buy!Resting, MEP!Sell!Resting, Thread!Buy!Resting,
    Thread!Sell!Resting, MEP!Buy!NoSlot, MEP!Sell!NoSlot, Thread!Buy!NoSlot, Thread!Sell!NoSlot,
    MEP!Buy!PeekOrder, MEP!Sell!PeekOrder, Thread!Buy!PeekOrder, Thread!Sell!PeekOrder,
    MEP!Buy!EntryAt, MEP!Sell!EntryAt, Thread!Buy!EntryAt, Thread!Sell!EntryAt
<1>2. MEP!TakeAck => Thread!TakeAck
  BY DEF MEP!TakeAck, Thread!TakeAck
<1>3. MEP!PollEmpty \/ MEP!Stopped => Thread!PollEmpty \/ Thread!Stopped
  BY DEF MEP!PollEmpty, Thread!PollEmpty, MEP!Stopped, Thread!Stopped
<1>4. UNCHANGED MEP!vars => UNCHANGED Thread!vars
  OBVIOUS
<1> QED BY <1>1, <1>2, <1>3, <1>4, EngineOfThread DEF MEP!Next, Thread!Next

-----------------------------------------------------------------------------
(* The invariant. *)

(* The engine has a request in hand while it handles one: the slot at the  *)
(* head of its queue, with what the matching has left of its quantity.     *)
SlotInHand ==
  /\ (pc # "idle") = (engine = "handling")
  /\ engine = "handling" => lob.read < Len(lob.sent) /\ order = InSlot(AtHead)

(* No slot is touched before its request is begun. *)
Content(e) ==
  [price |-> e.price, quantity |-> e.quantity, trade_id |-> e.trade_id,
   order_type |-> e.order_type, req_type |-> e.req_type]

StillAsAsked ==
  \A m \in DOMAIN lob.sent :
    m > Begun => \E i \in DOMAIN TestStore : Content(lob.sent[m]) = Asked(TestStore[i])

ProgramInv ==
  /\ GWP!GatewayInv /\ MEP!EngineInv /\ MEP!PendingHandedOut
  /\ SlotInHand /\ StillAsAsked

(* The queue to the engine and the part of it that was begun. *)
LEMMA QueueTypes ==
  ASSUME GWP!GatewayInv, SlotInHand
  PROVE  /\ lob = [sent |-> lob.sent, read |-> lob.read]
         /\ lob.sent \in Seq(GWP!LOBOrder) /\ lob.read \in Nat /\ lob.read <= Len(lob.sent)
         /\ Len(lob.sent) \in Nat /\ DOMAIN lob.sent = 1 .. Len(lob.sent)
         /\ Begun \in 0 .. Len(lob.sent)
         /\ engine = "handling" => Begun = lob.read + 1
         /\ engine # "handling" => Begun = lob.read
<1>1. /\ lob = [sent |-> lob.sent, read |-> lob.read]
      /\ lob.sent \in Seq(GWP!LOBOrder) /\ lob.read \in Nat /\ lob.read <= Len(lob.sent)
  BY DEF GWP!GatewayInv, GWP!ThreadTypes
<1>2. Len(lob.sent) \in Nat /\ DOMAIN lob.sent = 1 .. Len(lob.sent)
  BY <1>1
<1>3. /\ engine = "handling" => Begun = lob.read + 1
      /\ engine # "handling" => Begun = lob.read
  BY <1>1 DEF Begun
<1>4. Begun \in 0 .. Len(lob.sent)
  BY <1>1, <1>2, <1>3 DEF SlotInHand
<1> QED BY <1>1, <1>2, <1>3, <1>4

(* The ids of what was begun are older than NextId. *)
LEMMA NextIdTypes ==
  ASSUME GWP!GatewayInv, SlotInHand
  PROVE  /\ NextId \in 0 .. Len(TestStore) /\ NextId <= next_system_id
         /\ \A m \in DOMAIN lob.sent : m > Begun => NextId <= lob.sent[m].system_id
<1>1. /\ \A m \in DOMAIN lob.sent :
           /\ lob.sent[m].system_id \in 0 .. Len(TestStore) - 1
           /\ lob.sent[m].system_id < next_system_id
      /\ \A m, n \in DOMAIN lob.sent : m < n => lob.sent[m].system_id < lob.sent[n].system_id
      /\ next_system_id \in 0 .. Len(TestStore)
  <2>1. \A m \in DOMAIN lob.sent : lob.sent[m] \in GWP!LOBOrder
    BY QueueTypes
  <2>2. \A m \in DOMAIN lob.sent : lob.sent[m].system_id \in 0 .. Len(TestStore) - 1
    BY <2>1 DEF GWP!LOBOrder, GWP!SystemIds, LUTSize
  <2> QED BY <2>2 DEF GWP!GatewayInv, GWP!IdsLead, GWP!ThreadTypes, LUTSize
<1>2. CASE Begun = 0
  BY <1>1, <1>2, StoreTypes DEF NextId
<1>3. CASE Begun # 0
  <2>1. Begun \in DOMAIN lob.sent
    BY <1>3, QueueTypes
  <2>2. PICK id \in 0 .. Len(TestStore) - 1 : id = lob.sent[Begun].system_id
    BY <1>1, <2>1
  <2>3. NextId = id + 1
    BY <1>3, <2>2 DEF NextId
  <2>4. \A m \in DOMAIN lob.sent : m > Begun => id < lob.sent[m].system_id
    BY <1>1, <2>1, <2>2
  <2>5. id < next_system_id
    BY <1>1, <2>1, <2>2
  <2>6. PICK n, next : /\ n = Len(TestStore) /\ n \in Nat
                       /\ next = next_system_id /\ next \in 0 .. n
    BY Zenon, <1>1, StoreTypes
  <2>7. id \in 0 .. n - 1 /\ NextId = id + 1 /\ id < next
    BY ONLY Zenon, <2>2, <2>3, <2>5, <2>6
  <2>8. NextId \in 0 .. n /\ NextId <= next
    BY ONLY <2>6, <2>7
  <2>9. ASSUME NEW m \in DOMAIN lob.sent, m > Begun PROVE NextId <= lob.sent[m].system_id
    <3>1. PICK j \in 0 .. n - 1 : j = lob.sent[m].system_id
      BY Zenon, <1>1, <2>6
    <3>2. id < j
      BY Zenon, <2>4, <2>9, <3>1
    <3>3. NextId <= j
      BY ONLY <2>6, <2>7, <3>2
    <3> QED BY Zenon, <3>1, <3>3
  <2> QED BY Zenon, <2>6, <2>8, <2>9
<1> QED BY Zenon, <1>2, <1>3

LEMMA ProgramInit == Init => ProgramInv
<1> SUFFICES ASSUME Init PROVE ProgramInv
  OBVIOUS
<1>1. /\ lob = [sent |-> <<>>, read |-> 0] /\ engine = "wait" /\ pc = "idle" /\ pending = None
      /\ acks = [sent |-> <<>>, read |-> 0, lost |-> {}]
  BY DEF Init, GW!InitThreads, ME!Init
<1>2. Begun = 0 /\ NextId = 0
  BY <1>1 DEF Begun, NextId
<1>3. GWP!GatewayInv
  BY <1>1, InitOfProofs, GatewayConstants, GWP!GatewayInit
  DEF Init, GWP!OrderGatewayAssumption
<1>4. MEP!EngineInv
  BY <1>2, InitOfProofs, EngineConstants, MEP!EngineInit DEF Init, MEP!MatchingEngineAssumption
<1> QED BY <1>1, <1>3, <1>4 DEF ProgramInv, MEP!PendingHandedOut, SlotInHand, StillAsAsked

-----------------------------------------------------------------------------
(* The steps. *)

(* What each must keep; the invariant of the engine follows. *)
Kept == GWP!GatewayInv' /\ [MEP!Next]_MEP!vars /\ SlotInHand' /\ StillAsAsked'

(* The slots stay as they are, but for the quantity in one begun. *)
SlotsKept ==
  \A m \in DOMAIN lob.sent :
    /\ m \in DOMAIN lob'.sent
    /\ lob'.sent[m].system_id = lob.sent[m].system_id
    /\ m > Begun => lob'.sent[m] = lob.sent[m]
    /\ lob'.sent[m].from = lob.sent[m].from
    /\ lob'.sent[m].order_type = lob.sent[m].order_type

(* The engine takes a step in its handler. *)
Handled == MEP!Engine /\ UNCHANGED <<Begun, NextId>> /\ DOMAIN lob'.sent = DOMAIN lob.sent

LEMMA KeptSuffices ==
  ASSUME ProgramInv, Kept
  PROVE  ProgramInv'
<1>1. MEP!EngineInv'
  BY EngineConstants, MEP!EngineStep DEF ProgramInv, Kept, MEP!MatchingEngineAssumption
<1>2. MEP!PendingHandedOut'
  BY EngineConstants, MEP!PendingStep DEF ProgramInv, Kept, MEP!MatchingEngineAssumption
<1> QED BY <1>1, <1>2 DEF ProgramInv, Kept

(* A step that touches neither the engine's variables nor its queues. *)
LEMMA EngineStands ==
  ASSUME ProgramInv, UNCHANGED <<lob, acks, bookVars, pc, order, cursor, pending, feed>>,
         (engine' = "handling") = (engine = "handling")
  PROVE  [MEP!Next]_MEP!vars /\ SlotInHand' /\ StillAsAsked'
<1>1. Begun' = Begun
  BY DEF Begun
<1>2. NextId' = NextId
  BY <1>1 DEF NextId
<1>3. UNCHANGED MEP!vars
  BY <1>1, <1>2 DEF bookVars, MEP!vars, MEP!books, MEP!buyVars, MEP!sellVars, MEP!outVars,
    MEP!envVars
<1>4. SlotInHand'
  BY DEF ProgramInv, SlotInHand, AtHead
<1>5. StillAsAsked'
  BY <1>1 DEF ProgramInv, StillAsAsked
<1> QED BY <1>3, <1>4, <1>5

(* What neither the engine nor its queues are touched by: the other        *)
(* threads, but for the gateway, and the engine's thread out of its        *)
(* handler.                                                                *)
LEMMA OthersStep ==
  ASSUME ProgramInv,
         \/ Main \/ NewThreads \/ Logger \/ UNCHANGED vars
         \/ EngineLooksForStart \/ EngineLooksForEnd \/ NextPoll \/ NothingToRead \/ Report
  PROVE  Kept
<1> USE DEF startVars, gatewayVars, engineVars, queueVars, vars, Elsewhere
<1>1. /\ UNCHANGED <<gateway, requests, inHand, sentLog, next_system_id, LUT, lob, dropped,
                     acks, userAcks, bookVars, pc, order, cursor, pending, feed>>
      /\ (engine' = "handling") = (engine = "handling")
  <2>1. CASE Main
    BY <2>1 DEF Main, Create, Created, Set, Join, GW!MainSets, GW!idVars, GW!outVars
  <2>2. CASE NewThreads \/ Logger \/ UNCHANGED vars
    BY <2>2 DEF NewThreads, Logger
  <2>3. CASE \/ EngineLooksForStart \/ EngineLooksForEnd \/ NextPoll \/ NothingToRead \/ Report
    BY <2>3 DEF EngineLooksForStart, EngineLooksForEnd, NextPoll, NothingToRead, Report, EngineMoves
  <2> QED BY <2>1, <2>2, <2>3
<1>2. GWP!GatewayInv'
  BY <1>1, GatewayConstants, GWP!OtherStep
  DEF ProgramInv, GWP!OrderGatewayAssumption, GWP!idVars, GWP!outVars
<1> QED BY <1>1, <1>2, EngineStands DEF Kept

LEMMA AlphaStep ==
  ASSUME ProgramInv, Alpha
  PROVE  Kept
<1>1. GWP!GatewayInv'
  BY AlphaOfProofs, GatewayConstants, GWP!AlphaStep
  DEF Alpha, ProgramInv, GWP!OrderGatewayAssumption
<1>2. UNCHANGED <<lob, acks, engineVars>>
  BY DEF Alpha, GW!Alpha, GW!AlphaLooksForStart, GW!AlphaLooksForEnd, GW!AlphaSends,
    GW!AlphaReturns, GW!AlphaMoves, GW!Send, GW!outVars
<1> QED BY <1>1, <1>2, EngineStands DEF Kept, engineVars

(* A request that the gateway forwards goes behind those the engine has    *)
(* begun.                                                                  *)
LEMMA ForwardStep ==
  ASSUME ProgramInv, GWP!InHand, UNCHANGED <<acks, engineVars>>,
         lob' = [lob EXCEPT !.sent = Append(@, GWP!Request(inHand.source))], GWP!GatewayInv'
  PROVE  Kept
<1> DEFINE r == GWP!Request(inHand.source)
<1>1. PICK k \in Nat : k = Len(lob.sent)
  BY QueueTypes DEF ProgramInv
<1>2. /\ GWP!ThreadTypes /\ GWP!HandOK /\ inHand.source \in GWP!Sources /\ r \in GWP!LOBOrder
  BY GatewayConstants, GWP!RequestTypes
  DEF ProgramInv, GWP!GatewayInv, GWP!OrderGatewayAssumption, GWP!Handled
<1>3. PICK i \in DOMAIN TestStore : Content(r) = Asked(TestStore[i])
  <2>1. GWP!HasRequest(inHand.source)
    BY <1>2 DEF GWP!HandOK
  <2>2. /\ requests[inHand.source].read + 1 \in 1 .. Len(GWP!Store[inHand.source])
        /\ GWP!HeadOf(inHand.source)
             = GWP!Store[inHand.source][requests[inHand.source].read + 1]
    BY Zenon, <1>2, <2>1, GatewayConstants, GWP!OrderInHand DEF GWP!OrderGatewayAssumption
  <2>3. inHand.source = "sniper"
    BY <1>2, <2>2 DEF GWP!Sources, GWP!Store, MakerStore
  <2>4. PICK i \in DOMAIN TestStore : GWP!HeadOf("sniper") = TestStore[i]
    BY <2>2, <2>3, StoreTypes DEF GWP!Store
  <2> QED BY <2>3, <2>4 DEF GWP!Request, Content, Asked
<1> HIDE DEF r
<1>4. /\ lob'.sent = Append(lob.sent, r) /\ lob'.read = lob.read
  BY QueueTypes DEF ProgramInv, r
<1>5. /\ DOMAIN lob.sent = 1 .. k /\ DOMAIN lob'.sent = 1 .. k + 1 /\ Len(lob'.sent) = k + 1
      /\ lob'.sent[k + 1] = r /\ \A m \in 1 .. k : lob'.sent[m] = lob.sent[m]
  <2>1. lob.sent \in Seq(GWP!LOBOrder)
    BY QueueTypes DEF ProgramInv
  <2>2. PICK q \in Seq(GWP!LOBOrder) : q = Append(lob.sent, r)
    BY <1>2, <2>1, AppendProperties
  <2>3. /\ DOMAIN lob.sent = 1 .. k /\ DOMAIN q = 1 .. k + 1 /\ Len(q) = k + 1
        /\ q[k + 1] = r /\ \A m \in 1 .. k : q[m] = lob.sent[m]
    BY <1>1, <1>2, <2>1, <2>2, AppendProperties
  <2> QED BY <1>4, <2>2, <2>3
<1>6. Begun \in 0 .. k /\ Begun' = Begun
  BY <1>1, <1>4, QueueTypes DEF ProgramInv, Begun, engineVars
<1>7. NextId' = NextId
  BY <1>5, <1>6 DEF NextId
<1>8. UNCHANGED MEP!vars
  BY <1>6, <1>7 DEF engineVars, bookVars, MEP!vars, MEP!books, MEP!buyVars, MEP!sellVars,
    MEP!outVars, MEP!envVars
<1>9. SlotInHand'
  <2>1. ASSUME engine = "handling"
        PROVE  lob'.read < Len(lob'.sent) /\ lob'.sent[lob'.read + 1] = lob.sent[lob.read + 1]
    <3>1. lob.read + 1 \in 1 .. k /\ lob.read \in Nat
      BY <1>1, <2>1, QueueTypes DEF ProgramInv, SlotInHand
    <3> QED BY <1>4, <1>5, <3>1
  <2> QED BY <2>1 DEF ProgramInv, SlotInHand, AtHead, engineVars
<1>10. StillAsAsked'
  <2>1. ASSUME NEW m \in 1 .. k + 1, m > Begun
        PROVE  \E j \in DOMAIN TestStore : Content(lob'.sent[m]) = Asked(TestStore[j])
    <3>1. CASE m = k + 1
      BY <1>3, <1>5, <3>1
    <3>2. CASE m # k + 1
      <4>1. m \in 1 .. k
        BY <1>1, <3>2
      <4> QED BY <1>5, <2>1, <4>1 DEF ProgramInv, StillAsAsked
    <3> QED BY <3>1, <3>2
  <2> QED BY <1>5, <1>6, <2>1 DEF StillAsAsked
<1> QED BY <1>8, <1>9, <1>10 DEF Kept

LEMMA GatewayStep ==
  ASSUME ProgramInv, Gateway
  PROVE  Kept
<1>1. GWP!Gateway /\ UNCHANGED engineVars
  BY GatewayOfProofs DEF Gateway
<1>2. GWP!GatewayInv'
  BY <1>1, GatewayConstants, GWP!GatewayStep DEF ProgramInv, GWP!OrderGatewayAssumption
<1>3. CASE UNCHANGED <<lob, acks>>
  BY <1>1, <1>2, <1>3, EngineStands DEF Kept, engineVars
<1>4. CASE GWP!Forward
  <2>1. CASE gateway' = "log"
    BY <1>1, <1>2, <1>4, <2>1, ForwardStep DEF GWP!Forward, GWP!InHand
  <2>2. CASE gateway' = "release"
    BY <1>3, <1>4, <2>2 DEF GWP!Forward
  <2> QED BY <1>4, <2>1, <2>2 DEF GWP!Forward
<1>5. CASE GWP!ReleaseAck
  <2>1. UNCHANGED <<lob, engineVars>> /\ acks' = [acks EXCEPT !.read = @ + 1]
    BY <1>1, <1>5 DEF GWP!ReleaseAck
  <2>2. acks.read < Len(acks.sent)
    <3>1. Len(userAcks) = acks.read + 1 /\ Len(userAcks) <= Len(acks.sent)
      BY <1>5 DEF GWP!ReleaseAck, ProgramInv, GWP!GatewayInv, GWP!AcksRelayed
    <3>2. acks.read \in Nat /\ Len(acks.sent) \in Nat
      BY DEF ProgramInv, GWP!GatewayInv, GWP!ThreadTypes
    <3> QED BY <3>1, <3>2
  <2>3. Begun' = Begun
    BY <2>1 DEF Begun, engineVars
  <2>4. NextId' = NextId
    BY <2>1, <2>3 DEF NextId
  <2>5. MEP!TakeAck
    BY <2>1, <2>2, <2>3, <2>4 DEF MEP!TakeAck, MEP!books, MEP!buyVars, MEP!sellVars, MEP!envVars,
      engineVars, bookVars
  <2>6. SlotInHand' /\ StillAsAsked'
    BY <2>1, <2>3 DEF ProgramInv, SlotInHand, AtHead, StillAsAsked, engineVars
  <2> QED BY <1>2, <2>5, <2>6 DEF Kept, MEP!Next
<1> QED BY <1>1, <1>3, <1>4, <1>5 DEF GWP!Gateway, GWP!GatewayLooksForStart,
  GWP!GatewayLooksForEnd, GWP!NextRound, GWP!NothingToTake, GWP!GatewayMoves, GWP!Take,
  GWP!TakeOutOfIds, GWP!LogSent, GWP!Release, GWP!NoAckRelayed, GWP!RelayAck, GWP!Report,
  GWP!outVars

(* The request that the engine begins is one that may arrive: its id is    *)
(* younger than those before it, and its content is what the client asked. *)
LEMMA ReadOrderStep ==
  ASSUME ProgramInv, ReadOrder
  PROVE  Kept
<1>1. PICK k \in Nat : k = lob.read + 1
  BY QueueTypes DEF ProgramInv
<1>2. /\ engine = "poll" /\ engine' = "handling" /\ k \in DOMAIN lob.sent
      /\ Begun = k - 1 /\ UNCHANGED <<lob, acks, feed, gatewayVars>>
      /\ ME!ReadOrder(InSlot(lob.sent[k]))
  BY <1>1, QueueTypes DEF ProgramInv, ReadOrder, AtHead, ME!ReadOrder, ME!outVars
<1>3. Begun' = k /\ NextId' = lob.sent[k].system_id + 1
  <2>1. Begun' = k
    BY <1>1, <1>2 DEF Begun
  <2>2. k # 0
    BY <1>2, QueueTypes DEF ProgramInv
  <2> QED BY <1>2, <2>1, <2>2 DEF NextId
<1>4. PICK e \in GWP!LOBOrder : e = lob.sent[k]
  BY <1>2, QueueTypes DEF ProgramInv
<1>5. /\ e.system_id \in 0 .. Len(TestStore) - 1 /\ e.req_type \in {"c", "u", "d"}
      /\ NextId \in 0 .. Len(TestStore) /\ NextId <= e.system_id
      /\ Len(TestStore) \in Nat
  BY <1>1, <1>2, <1>4, NextIdTypes, StoreTypes
  DEF GWP!LOBOrder, GWP!SystemIds, LUTSize, ProgramInv
<1>6. PICK i \in DOMAIN TestStore : Content(e) = Asked(TestStore[i])
  BY <1>1, <1>2, <1>4 DEF ProgramInv, StillAsAsked
<1>7. PICK q \in {Asked(TestStore[j]) : j \in DOMAIN TestStore} : q = Content(e)
  BY <1>6
<1>8. PICK req : req = [system_id |-> e.system_id, price |-> q.price, quantity |-> q.quantity,
                        trade_id |-> q.trade_id, order_type |-> q.order_type,
                        req_type |-> q.req_type]
  OBVIOUS
<1>9. req = InSlot(e) /\ req.system_id = e.system_id
  BY <1>7, <1>8 DEF Content, InSlot
<1>10. ~ MEP!RestsInOwnBook(req)
  <2>1. ~ MEP!Rests("b", e.system_id) /\ ~ MEP!Rests("s", e.system_id)
    <3>1. e.system_id \in MEP!Ids /\ ~ (e.system_id < NextId)
      BY <1>5 DEF MEP!Ids, MaxOrders
    <3> QED BY <3>1 DEF ProgramInv, MEP!EngineInv, MEP!IdsHandedOut, MEP!Sides
  <2> QED BY <1>9, <2>1 DEF MEP!RestsInOwnBook, MEP!Rests, MEP!Slot, MEP!NoSlot, MEP!Buy!NoSlot,
    MEP!Sell!NoSlot, MEP!Buy!Resting, MEP!Sell!Resting
<1>11. MEP!ReadOrder(req)
  BY <1>2, <1>4, <1>9 DEF ME!ReadOrder, MEP!ReadOrder, ME!Handler, MEP!Handler, ME!books, MEP!books,
    ME!buyVars, MEP!buyVars, ME!sellVars, MEP!sellVars, ME!outVars, MEP!outVars
<1>12. MEP!Arrival
  <2>1. Begun < Len(TestStore) /\ Begun' = Begun + 1
    <3>1. k <= e.system_id + 1
      BY <1>2, <1>4 DEF ProgramInv, GWP!GatewayInv, GWP!IdsLead
    <3> QED BY <1>2, <1>3, <1>5, <3>1
  <2>2. /\ e.system_id \in MEP!Ids /\ e.system_id <= NextId + Len(TestStore)
        /\ e.system_id >= NextId /\ NextId' = e.system_id + 1
    BY <1>3, <1>4, <1>5 DEF MEP!Ids, MaxOrders
  <2> QED BY <1>7, <1>8, <1>10, <1>11, <2>1, <2>2 DEF MEP!Arrival
<1>13. GWP!GatewayInv'
  BY <1>2, GatewayConstants, GWP!OtherStep
  DEF ProgramInv, gatewayVars, GWP!OrderGatewayAssumption, GWP!idVars, GWP!outVars
<1>14. SlotInHand'
  <2>1. lob.read < Len(lob.sent) /\ order' = InSlot(AtHead) /\ pc' # "idle"
    <3>1. ME!Handler[InSlot(e).req_type] # "idle"
      BY <1>5 DEF InSlot, ME!Handler
    <3> QED BY <1>2, <1>4, <3>1 DEF ReadOrder, ME!ReadOrder
  <2> QED BY <1>2, <2>1 DEF SlotInHand, AtHead
<1>15. StillAsAsked'
  <2>1. \A m \in DOMAIN lob.sent : m > k => m > Begun
    BY <1>1, <1>2, QueueTypes DEF ProgramInv
  <2> QED BY <1>2, <1>3, <2>1 DEF ProgramInv, StillAsAsked
<1> QED BY <1>12, <1>13, <1>14, <1>15 DEF Kept, MEP!Next

(* What the gateway sees of a step of the engine leaves its invariant. *)
LEMMA HandlerSeen ==
  ASSUME ProgramInv, MEP!Engine, GWP!LobTouched,
         UNCHANGED <<next_system_id, gateway, requests, inHand, sentLog, LUT, dropped, userAcks>>
  PROVE  GWP!GatewayInv'
<1>1. MEP!AcksGrow
  BY EngineConstants, MEP!EngineSeen DEF ProgramInv, MEP!MatchingEngineAssumption
<1>2. MEP!QueuesTypeOK'
  BY EngineConstants, MEP!EngineStep
  DEF ProgramInv, MEP!MatchingEngineAssumption, MEP!Next, MEP!EngineInv
<1>3. {"sent", "read"} \subseteq DOMAIN acks'
  BY <1>2 DEF MEP!QueuesTypeOK
<1>4. ASSUME NEW a \in MEP!AckMessage, a.system_id < NextId
      PROVE  a \in GWP!LOBAck /\ a.system_id < next_system_id
  <2>1. a \in GWP!LOBAck
    BY DEF MEP!AckMessage, GWP!LOBAck, MEP!Ids, GWP!SystemIds, MaxOrders, LUTSize, MEP!Kinds,
      GWP!Statuses
  <2>2. a.system_id \in 0 .. Len(TestStore) - 1
    BY DEF MEP!AckMessage, MEP!Ids, MaxOrders
  <2>3. NextId \in Nat /\ next_system_id \in Nat /\ NextId <= next_system_id
    BY NextIdTypes DEF ProgramInv, GWP!GatewayInv, GWP!ThreadTypes
  <2>4. a.system_id < next_system_id
    BY <1>4, <2>2, <2>3
  <2> QED BY <2>1, <2>4
<1>5. GWP!AcksTouched
  BY <1>1, <1>3, <1>4 DEF MEP!AcksGrow, GWP!AcksTouched
<1> QED BY <1>5, GatewayConstants, GWP!EngineStep
  DEF ProgramInv, GWP!OrderGatewayAssumption, GWP!idVars

(* A step of the handler changes nothing of the queue but the quantity in  *)
(* the slot at its head, until it releases it.                             *)
LEMMA HandleStep ==
  ASSUME ProgramInv, Handle
  PROVE  Kept /\ Handled /\ SlotsKept
<1>1. PICK k \in Nat : k = lob.read + 1
  BY QueueTypes DEF ProgramInv
<1>2. /\ engine = "handling" /\ Begun = k /\ k \in DOMAIN lob.sent /\ lob.read < Len(lob.sent)
      /\ order = InSlot(lob.sent[k])
  <2>1. engine = "handling"
    BY DEF Handle
  <2>2. lob.read < Len(lob.sent) /\ order = InSlot(lob.sent[k])
    BY <1>1, <2>1 DEF ProgramInv, SlotInHand, AtHead
  <2> QED BY <1>1, <2>1, <2>2, QueueTypes DEF ProgramInv
<1>3. UNCHANGED <<next_system_id, gateway, requests, inHand, sentLog, LUT, dropped, userAcks>>
  <2>1. UNCHANGED next_system_id
    BY DEF Handle, ME!Engine, ME!StopMatching, ME!EnterLevel, ME!TradeNext, ME!TellResting,
      ME!LeaveLevel, ME!Settle, ME!RestOrder, ME!UpdateIgnored, ME!UpdatePrice, ME!UpdateQuantity,
      ME!DeleteResting, ME!Publish, ME!Finish, ME!Undefined, ME!envVars
  <2> QED BY <2>1 DEF Handle
<1>4. PICK e \in GWP!LOBOrder : e = lob.sent[k]
  BY <1>2, QueueTypes DEF ProgramInv
<1>5. CASE order' = None
  <2>1. lob' = [lob EXCEPT !.read = @ + 1] /\ engine' = "loop"
    BY <1>5 DEF Handle
  <2>2. lob'.sent = lob.sent /\ lob'.read = k
    BY <1>1, <2>1, QueueTypes DEF ProgramInv
  <2>3. Begun' = Begun
    BY <1>1, <1>2, <2>1, <2>2 DEF Begun
  <2>4. MEP!Engine
    BY <2>2, <2>3, EngineOfProofs DEF Handle, NextId
  <2>5. GWP!LobTouched
    BY <1>2, <2>1 DEF GWP!LobTouched
  <2>6. pc' = "idle"
    BY <2>4, <1>5, EngineConstants, MEP!EngineStep
    DEF ProgramInv, MEP!MatchingEngineAssumption, MEP!Next, MEP!EngineInv, MEP!HandlerTypeOK
  <2>7. SlotInHand' /\ StillAsAsked'
    BY <2>1, <2>2, <2>3, <2>6 DEF ProgramInv, SlotInHand, StillAsAsked
  <2>8. NextId' = NextId
    BY <2>2, <2>3 DEF NextId
  <2>9. Handled /\ SlotsKept
    BY <2>2, <2>3, <2>4, <2>8 DEF Handled, SlotsKept
  <2> QED BY <1>3, <2>4, <2>5, <2>7, <2>9, HandlerSeen DEF Kept, MEP!Next
<1>6. CASE order' # None
  <2>1. /\ lob' = [lob EXCEPT !.sent[lob.read + 1].quantity = order'.quantity]
        /\ engine' = engine
    BY <1>6 DEF Handle
  <2>2. PICK f : f = [e EXCEPT !.quantity = order'.quantity]
    OBVIOUS
  <2>3. lob'.sent = [lob.sent EXCEPT ![k] = f] /\ lob'.read = lob.read
    <3>1. lob' = [lob EXCEPT !.sent = [lob.sent EXCEPT ![k].quantity = order'.quantity]]
      BY <1>1, <2>1
    <3>2. [lob.sent EXCEPT ![k].quantity = order'.quantity] = [lob.sent EXCEPT ![k] = f]
      BY <1>2, <1>4, <2>2
    <3>3. lob = [sent |-> lob.sent, read |-> lob.read]
      BY QueueTypes DEF ProgramInv
    <3> QED BY <3>1, <3>2, <3>3
  <2>4. /\ DOMAIN lob'.sent = DOMAIN lob.sent /\ lob'.sent[k] = f
        /\ \A m \in DOMAIN lob.sent : m # k => lob'.sent[m] = lob.sent[m]
    BY <1>2, <2>3, QueueTypes DEF ProgramInv
  <2>5. f.system_id = e.system_id
    BY <2>2 DEF GWP!LOBOrder
  <2>6. Begun' = Begun
    BY <2>1, <2>3 DEF Begun
  <2>7. NextId' = NextId
    BY <1>2, <1>4, <2>4, <2>5, <2>6 DEF NextId
  <2>8. MEP!Engine
    BY <2>6, <2>7, EngineOfProofs DEF Handle
  <2>9. PICK n \in 0 .. order.quantity : order' = [order EXCEPT !.quantity = n]
    BY <1>6, <2>8, EngineConstants, MEP!EngineSeen
    DEF ProgramInv, MEP!MatchingEngineAssumption, MEP!RequestShrinks
  <2>10. /\ order' = [InSlot(e) EXCEPT !.quantity = n] /\ order'.quantity = n
         /\ n \in 0 .. e.quantity
    BY <1>2, <1>4, <2>9 DEF InSlot
  <2>11. f = [e EXCEPT !.quantity = n] /\ order' = InSlot(f)
    BY Zenon, <2>2, <2>10 DEF GWP!LOBOrder, InSlot
  <2>12. GWP!LobTouched
    BY <1>1, <1>2, <1>4, <2>1, <2>10 DEF GWP!LobTouched
  <2>13. GWP!GatewayInv'
    BY <1>3, <2>8, <2>7, <2>12, HandlerSeen
  <2>14. SlotInHand'
    <3>1. pc' # "idle"
      BY <2>8, <1>6, EngineConstants, MEP!EngineStep
      DEF ProgramInv, MEP!MatchingEngineAssumption, MEP!Next, MEP!EngineInv, MEP!HandlerTypeOK
    <3>2. lob'.read < Len(lob'.sent)
      <4>1. Len(lob'.sent) \in Nat /\ DOMAIN lob'.sent = 1 .. Len(lob'.sent)
        BY <2>13 DEF GWP!GatewayInv, GWP!ThreadTypes
      <4> QED BY <1>1, <1>2, <2>3, <2>4, <4>1
    <3> QED BY <1>1, <1>2, <2>1, <2>3, <2>4, <2>11, <3>1, <3>2 DEF SlotInHand, AtHead
  <2>15. StillAsAsked'
    <3>1. \A m \in DOMAIN lob.sent : m > Begun => lob'.sent[m] = lob.sent[m]
      BY <1>2, <2>4, QueueTypes DEF ProgramInv
    <3> QED BY <2>4, <2>6, <3>1 DEF ProgramInv, StillAsAsked
  <2>16. Handled
    BY <2>4, <2>6, <2>7, <2>8 DEF Handled
  <2>17. SlotsKept
    <3>1. f.system_id = e.system_id /\ f.from = e.from /\ f.order_type = e.order_type
      BY <2>11 DEF GWP!LOBOrder
    <3> QED BY <1>2, <1>4, <2>4, <3>1, QueueTypes DEF SlotsKept, ProgramInv
  <2> QED BY <2>8, <2>13, <2>14, <2>15, <2>16, <2>17 DEF Kept, MEP!Next
<1> QED BY <1>5, <1>6

LEMMA ProgramStep ==
  ASSUME ProgramInv, [Next]_vars
  PROVE  Kept
BY OthersStep, AlphaStep, GatewayStep, ReadOrderStep, HandleStep DEF Next, Engine

LEMMA ProgramInvariant == Spec => []ProgramInv
<1>1. ProgramInv /\ [Next]_vars => ProgramInv'
  BY ProgramStep, KeptSuffices
<1> QED BY <1>1, ProgramInit, PTL DEF Spec

-----------------------------------------------------------------------------
(* The theorems. *)

(* In the program the engine's thread is the engine of MatchingEngine, for *)
(* any orders of the client and any sizes of the rings.                    *)
THEOREM ProgramRunsEngine == Spec => EngineImplemented
<1>1. Init => Thread!Init
  <2>1. Init => ME!Init /\ Begun = 0 /\ NextId = 0
    BY DEF Init, GW!InitThreads, Begun, NextId
  <2> QED BY <2>1, InitOfProofs
<1>2. ProgramInv /\ [Next]_vars => [Thread!Next]_Thread!vars
  BY ProgramStep, NextOfThread DEF Kept
<1> QED BY <1>1, <1>2, ProgramInvariant, PTL DEF Spec, EngineImplemented, Thread!Spec

LEMMA EngineOfProgram == Spec => MEP!Spec
<1>1. Init => MEP!Init
  BY InitOfProofs DEF Init, GW!InitThreads, Begun, NextId
<1>2. ProgramInv /\ [Next]_vars => [MEP!Next]_MEP!vars
  BY ProgramStep DEF Kept
<1> QED BY <1>1, <1>2, ProgramInvariant, PTL DEF Spec, MEP!Spec

(* What is proved of the engine holds in the program: between any two      *)
(* statements of the handlers the books agree with their tables and do not *)
(* cross, and while the engine has no request the market data hides        *)
(* nothing that rests and the acknowledgements of an order, sent or        *)
(* dropped as the gateway's pace has it, add up to what rests of it.       *)
THEOREM ProgramViewsAgree ==
  Spec => [](/\ Thread!BooksConsistent /\ Thread!NotCrossed
             /\ Thread!FeedNeverUnderstates /\ Thread!ClientView)
<1> USE DEF MEP!Ids, Thread!Ids, MEP!Buy!RestingQuantity, MEP!Sell!RestingQuantity,
  Thread!Buy!RestingQuantity, Thread!Sell!RestingQuantity, MEP!Buy!Resting, MEP!Sell!Resting,
  Thread!Buy!Resting, Thread!Sell!Resting, MEP!Buy!PeekOrder, MEP!Sell!PeekOrder,
  Thread!Buy!PeekOrder, Thread!Sell!PeekOrder, MEP!Buy!EntryAt, MEP!Sell!EntryAt,
  Thread!Buy!EntryAt, Thread!Sell!EntryAt, MEP!Buy!NoSlot, MEP!Sell!NoSlot, Thread!Buy!NoSlot,
  Thread!Sell!NoSlot, MEP!Buy!Levels, MEP!Sell!Levels, Thread!Buy!Levels, Thread!Sell!Levels,
  MEP!Buy!LiveColumns, MEP!Sell!LiveColumns, Thread!Buy!LiveColumns, Thread!Sell!LiveColumns,
  MEP!Buy!SlotsLeadHome, MEP!Sell!SlotsLeadHome, Thread!Buy!SlotsLeadHome,
  Thread!Sell!SlotsLeadHome, MEP!Buy!EntriesInTheirLevel, MEP!Sell!EntriesInTheirLevel,
  Thread!Buy!EntriesInTheirLevel, Thread!Sell!EntriesInTheirLevel,
  MEP!Buy!LiveEntriesIndexed, MEP!Sell!LiveEntriesIndexed, Thread!Buy!LiveEntriesIndexed,
  Thread!Sell!LiveEntriesIndexed
<1>1. MEP!Spec => /\ []MEP!BooksConsistent /\ []MEP!NotCrossed
                  /\ []MEP!FeedNeverUnderstates /\ []MEP!ClientView
  BY EngineConstants, MEP!EngineBooksConsistent, MEP!EngineNotCrossed, MEP!EngineFeedCovers,
    MEP!EngineClientView, PTL
  DEF MEP!MatchingEngineAssumption
<1>2. MEP!BooksConsistent => Thread!BooksConsistent
  <2>1. MEP!Buy!IndexConsistent => Thread!Buy!IndexConsistent
    BY DEF MEP!Buy!IndexConsistent, Thread!Buy!IndexConsistent
  <2>2. MEP!Sell!IndexConsistent => Thread!Sell!IndexConsistent
    BY DEF MEP!Sell!IndexConsistent, Thread!Sell!IndexConsistent
  <2>3. MEP!Buy!CountsMatchLUT => Thread!Buy!CountsMatchLUT
    BY DEF MEP!Buy!CountsMatchLUT, Thread!Buy!CountsMatchLUT, MEP!Buy!Cardinality,
      Thread!Buy!Cardinality
  <2>4. MEP!Sell!CountsMatchLUT => Thread!Sell!CountsMatchLUT
    BY DEF MEP!Sell!CountsMatchLUT, Thread!Sell!CountsMatchLUT, MEP!Sell!Cardinality,
      Thread!Sell!Cardinality
  <2> QED BY <2>1, <2>2, <2>3, <2>4 DEF MEP!BooksConsistent, Thread!BooksConsistent
<1>3. MEP!FeedNeverUnderstates => Thread!FeedNeverUnderstates
  BY Zenon DEF MEP!FeedNeverUnderstates, Thread!FeedNeverUnderstates, MEP!Announced, Thread!Announced,
    MEP!IsLastMessage, Thread!IsLastMessage, MEP!InBook, Thread!InBook
<1>4. MEP!ClientView => Thread!ClientView
  BY Zenon DEF MEP!ClientView, Thread!ClientView, MEP!OwnedBySniper, Thread!OwnedBySniper,
    MEP!OpenByAcks, Thread!OpenByAcks, MEP!InBook, Thread!InBook
<1>5. MEP!NotCrossed => Thread!NotCrossed
  BY Zenon DEF MEP!NotCrossed, Thread!NotCrossed, MEP!PriceTime!NotCrossed, Thread!PriceTime!NotCrossed,
    MEP!LiveOrders, Thread!LiveOrders
<1> QED BY EngineOfProgram, <1>1, <1>2, <1>3, <1>4, <1>5, PTL

(* Matching in the program is by price and time, provided the client sends *)
(* no order whose quantity, cut to its word, is zero.                      *)
THEOREM ProgramPriceTimePriority ==
  ASSUME \A i \in DOMAIN TestStore : TestStore[i].quantity % Word # 0,
         None \notin Thread!PriceTime!IncomingOrder
  PROVE  Spec => Thread!PriceTimePriority
<1> USE DEF MEP!Ids, Thread!Ids, MEP!PriceTime!Crossed, Thread!PriceTime!Crossed,
  MEP!PriceTime!Precedes, Thread!PriceTime!Precedes, MEP!PriceTime!Queue,
  Thread!PriceTime!Queue, MEP!PriceTime!Behind, Thread!PriceTime!Behind,
  MEP!PriceTime!Without, Thread!PriceTime!Without, MEP!PriceTime!Sides, Thread!PriceTime!Sides
<1>1. MEP!Spec => MEP!PriceTimePriority
  <2>1. 0 \notin {TestStore[i].quantity % Word : i \in DOMAIN TestStore}
    OBVIOUS
  <2>2. None \notin MEP!PriceTime!IncomingOrder
    BY DEF MEP!PriceTime!IncomingOrder, Thread!PriceTime!IncomingOrder
  <2> QED BY <2>1, <2>2, EngineConstants, MEP!EnginePriceTimePriority
    DEF MEP!MatchingEngineAssumption
<1>2. /\ Thread!LiveOrders = MEP!LiveOrders /\ Thread!BeingMatched = MEP!BeingMatched
      /\ Thread!LiveOrders' = MEP!LiveOrders' /\ Thread!BeingMatched' = MEP!BeingMatched'
  BY DEF MEP!LiveOrders, Thread!LiveOrders, MEP!BeingMatched, Thread!BeingMatched,
    MEP!Buy!RestingQuantity, MEP!Sell!RestingQuantity, Thread!Buy!RestingQuantity,
    Thread!Sell!RestingQuantity, MEP!Buy!Resting, MEP!Sell!Resting, Thread!Buy!Resting,
    Thread!Sell!Resting, MEP!Buy!PeekOrder, MEP!Sell!PeekOrder, Thread!Buy!PeekOrder,
    Thread!Sell!PeekOrder, MEP!Buy!EntryAt, MEP!Sell!EntryAt, Thread!Buy!EntryAt,
    Thread!Sell!EntryAt, MEP!Buy!NoSlot, MEP!Sell!NoSlot, Thread!Buy!NoSlot, Thread!Sell!NoSlot
<1>3. MEP!PriceTime!AbstractInit => Thread!PriceTime!AbstractInit
  BY <1>2 DEF MEP!PriceTime!AbstractInit, Thread!PriceTime!AbstractInit
<1>4. ASSUME [MEP!PriceTime!AbstractNext]_MEP!PriceTime!abstractVars
      PROVE  [Thread!PriceTime!AbstractNext]_Thread!PriceTime!abstractVars
  <2>1. MEP!PriceTime!Arrive => Thread!PriceTime!Arrive
    BY <1>2 DEF MEP!PriceTime!Arrive, Thread!PriceTime!Arrive
  <2>2. MEP!PriceTime!Trade => Thread!PriceTime!Trade
    BY Zenon, <1>2 DEF MEP!PriceTime!Trade, Thread!PriceTime!Trade
  <2>3. MEP!PriceTime!Done => Thread!PriceTime!Done
    BY <1>2 DEF MEP!PriceTime!Done, Thread!PriceTime!Done
  <2>4. MEP!PriceTime!Rest => Thread!PriceTime!Rest
    BY <1>2 DEF MEP!PriceTime!Rest, Thread!PriceTime!Rest
  <2>5. \A r : MEP!PriceTime!AmendDown(r) => Thread!PriceTime!AmendDown(r)
    BY Zenon, <1>2 DEF MEP!PriceTime!AmendDown, Thread!PriceTime!AmendDown
  <2>6. \A r : MEP!PriceTime!AmendUp(r) => Thread!PriceTime!AmendUp(r)
    BY <1>2 DEF MEP!PriceTime!AmendUp, Thread!PriceTime!AmendUp
  <2>7. \A r : MEP!PriceTime!Cancel(r) => Thread!PriceTime!Cancel(r)
    BY <1>2 DEF MEP!PriceTime!Cancel, Thread!PriceTime!Cancel
  <2> QED BY <1>2, <1>4, <2>1, <2>2, <2>3, <2>4, <2>5, <2>6, <2>7
    DEF MEP!PriceTime!AbstractNext, Thread!PriceTime!AbstractNext,
      MEP!PriceTime!abstractVars, Thread!PriceTime!abstractVars
<1>5. MEP!PriceTimePriority => Thread!PriceTimePriority
  BY <1>3, <1>4, PTL DEF MEP!PriceTimePriority, Thread!PriceTimePriority,
    MEP!PriceTime!AbstractSpec, Thread!PriceTime!AbstractSpec
<1> QED BY EngineOfProgram, <1>1, <1>5

(* What is shown of the gateway with an engine that acknowledges at will   *)
(* holds with the engine of the program: each order is forwarded once and  *)
(* in its place or dropped, and each acknowledgement of the engine reaches *)
(* the client under the id of its order.                                   *)
THEOREM ProgramRelays == Spec => [](GW!ForwardedOnceInOrder /\ GW!AcksReachTheirOrder)
<1>1. ProgramInv => GW!ForwardedOnceInOrder
  <2>1. ProgramInv => GWP!ForwardedOnceInOrder
    BY DEF ProgramInv, GWP!GatewayInv
  <2>2. GWP!ForwardedFrom = GW!ForwardedFrom /\ GWP!Places = GW!Places
        /\ \A s : GWP!Taken(s) = GW!Taken(s)
    BY DEF GWP!ForwardedFrom, GW!ForwardedFrom, GWP!Taken, GW!Taken, GWP!Places, GW!Places,
      GWP!Sources, GW!Sources, GWP!Store, GW!Store
  <2>3. GWP!ForwardedOnceInOrder => GW!ForwardedOnceInOrder
    BY Zenon, <2>2 DEF GWP!ForwardedOnceInOrder, GW!ForwardedOnceInOrder
  <2> QED BY Zenon, <2>1, <2>3
<1>2. ASSUME ProgramInv
      PROVE  GW!AcksReachTheirOrder
  <2>1. GWP!AcksReachTheirOrder
    BY <1>2, GatewayConstants, GWP!AcksTold DEF ProgramInv, GWP!OrderGatewayAssumption
  <2> QED BY Zenon, <2>1 DEF GWP!AcksReachTheirOrder, GW!AcksReachTheirOrder, GWP!Store, GW!Store
<1> QED BY <1>1, <1>2, ProgramInvariant, PTL

(* Threads are made one after the other, and what a thread is at agrees    *)
(* with where its creation is.                                             *)
LEMMA StartTypes ==
  ASSUME Start!StartTypeOK, NEW t \in Threads,
         Start!Create(t) \/ Start!SetThreadCore(t) \/ Start!CallFunction(t) \/ Start!Return(t)
  PROVE  /\ Start!StartTypeOK'
         /\ \A u \in Threads : Runs(u) => Runs(u)'
<1>1. CASE Start!Create(t)
  BY <1>1 DEF Start!Create, Start!StartTypeOK, Runs
<1>2. CASE Start!SetThreadCore(t)
  BY <1>2 DEF Start!SetThreadCore, Start!StartTypeOK, Runs
<1>3. CASE Start!CallFunction(t)
  BY <1>3 DEF Start!CallFunction, Start!StartTypeOK, Runs
<1>4. CASE Start!Return(t)
  BY <1>4 DEF Start!Return, Start!StartTypeOK, Runs
<1> QED BY <1>1, <1>2, <1>3, <1>4

(* The gateway's variables have in the program the types they have with    *)
(* an engine that acknowledges at will.                                    *)
LEMMA GatewayTypes ==
  ASSUME GWP!ThreadTypes, alpha \in {"wait", "check", "send", "done"}
  PROVE  GW!ThreadTypeOK
<1>1. /\ GWP!Handled = GW!Handled /\ GWP!SystemIds = GW!SystemIds
      /\ GWP!Places = GW!Places /\ GWP!Sources = GW!Sources /\ GWP!Store = GW!Store
  BY DEF GWP!Handled, GW!Handled, GWP!SystemIds, GW!SystemIds, GWP!Places, GW!Places,
    GWP!Sources, GW!Sources, GWP!Store, GW!Store
<1>2. GWP!LOBOrder = GW!LOBOrder
  BY Zenon, <1>1 DEF GWP!LOBOrder, GW!LOBOrder
<1>3. GWP!UserAck = GW!UserAck
  BY Zenon DEF GWP!UserAck, GW!UserAck, GWP!Statuses, GW!Statuses
<1> QED BY Zenon, <1>1, <1>2, <1>3 DEF GWP!ThreadTypes, GW!ThreadTypeOK

(* Every variable of the program has its type: of main, of the creation of *)
(* its threads, of the gateway and the client, of the engine with its      *)
(* queues, and of the logger.  A thread that is anywhere but in its first  *)
(* loop was made, and the engine has a request in its handler exactly      *)
(* while it has not released its slot.                                     *)
THEOREM ProgramTypeCorrect == Spec => []ProgramTypeOK
<1> DEFINE Made ==
      /\ engine # "wait" => Runs("engine")
      /\ gateway # "wait" => Runs("gateway")
      /\ alpha # "wait" => Runs("alpha")
      /\ logger # "opening" => Runs("logger")
<1> DEFINE MainTypes ==
      /\ main \in 0 .. Ended
      /\ flags \subseteq Flags
      /\ Start!StartTypeOK
      /\ engine \in {"wait", "check", "loop", "poll", "handling", "report", "done", "undefined"}
      /\ alpha \in {"wait", "check", "send", "done"}
      /\ logger \in {"opening", "loop", "done"}
      /\ Made
<1> USE DEF startVars, gatewayVars, engineVars, queueVars, vars, Elsewhere
<1>1. Init => MainTypes
  <2>1. Init => Start!StartTypeOK
    BY DEF Init, Start!Init, Start!StartTypeOK
  <2> QED BY <2>1 DEF Init, GW!InitThreads, Ended, Program
<1>2. ASSUME MainTypes, [Next]_vars
      PROVE  MainTypes'
  <2>1. ASSUME UNCHANGED startVars
        PROVE  Start!StartTypeOK' /\ \A t \in Threads : Runs(t)' = Runs(t)
    BY <1>2, <2>1 DEF Start!StartTypeOK, Runs
  <2>2. Threads = {"engine", "gateway", "alpha", "logger"}
    BY DEF Threads
  <2>3. CASE Create \/ Created
    <3>1. Statement("create") /\ Arg \in Threads
      BY <2>3 DEF Create, Created, Statement, Arg, Program, Threads
    <3>2. Start!Create(Arg) \/ Start!Return(Arg)
      BY <2>3 DEF Create, Created
    <3>3. Start!StartTypeOK' /\ \A t \in Threads : Runs(t) => Runs(t)'
      BY <1>2, <3>1, <3>2, StartTypes
    <3>4. main' \in 0 .. Ended
      BY <1>2, <2>3, <3>1 DEF Create, Created, Statement, Ended, Program
    <3>5. UNCHANGED <<flags, engine, gateway, alpha, logger>>
      BY <2>3 DEF Create, Created
    <3> QED BY <1>2, <2>2, <3>3, <3>4, <3>5
  <2>4. CASE Set
    <3>1. main' = main + 1 /\ flags' = flags \cup {Arg} /\ main \in 1 .. 15
          /\ UNCHANGED <<startVars, engine, gateway, alpha, logger>>
      BY <2>4 DEF Set, GW!MainSets, Statement, Program
    <3>2. Arg \in Flags
      BY <2>4 DEF Set, Statement, Arg, Flags
    <3>3. main' \in 0 .. Ended
      BY <3>1 DEF Ended, Program
    <3> QED BY <1>2, <2>1, <2>2, <3>1, <3>2, <3>3
  <2>5. CASE Join
    <3>1. UNCHANGED <<startVars, flags, engine, gateway, alpha, logger>>
      BY <2>5 DEF Join
    <3>2. main' \in 0 .. Ended
      BY <2>5 DEF Join, Statement, Ended, Program, Undefined
    <3> QED BY <1>2, <2>1, <2>2, <3>1, <3>2
  <2>6. CASE NewThreads
    <3>1. PICK t \in Threads : Start!SetThreadCore(t) \/ Start!CallFunction(t)
      BY <2>6 DEF NewThreads
    <3>2. Start!StartTypeOK' /\ \A u \in Threads : Runs(u) => Runs(u)'
      BY <1>2, <3>1, StartTypes
    <3>3. UNCHANGED <<main, flags, engine, gateway, alpha, logger>>
      BY <2>6 DEF NewThreads
    <3> QED BY <1>2, <2>2, <3>2, <3>3
  <2>7. CASE Logger
    <3>1. Runs("logger") /\ logger' \in {"loop", "done"}
          /\ UNCHANGED <<startVars, main, flags, engine, gateway, alpha>>
      BY <2>7 DEF Logger
    <3> QED BY <1>2, <2>1, <2>2, <3>1
  <2>8. CASE Engine
    <3>1. Runs("engine") /\ UNCHANGED <<startVars, main, flags, gateway, alpha, logger>>
      BY <2>8 DEF Engine, EngineLooksForStart, EngineLooksForEnd, NextPoll, NothingToRead,
        Report, EngineMoves, ReadOrder, Handle
    <3>2. engine' \in {"wait", "check", "loop", "poll", "handling", "report", "done", "undefined"}
      BY <1>2, <2>8 DEF Engine, EngineLooksForStart, EngineLooksForEnd, NextPoll, NothingToRead,
        Report, EngineMoves, ReadOrder, Handle
    <3> QED BY <1>2, <2>1, <2>2, <3>1, <3>2
  <2>9. CASE Gateway
    <3>1. Runs("gateway") /\ UNCHANGED <<startVars, main, flags, engine, alpha, logger>>
      BY <2>9 DEF Gateway, GW!Gateway, GW!GatewayLooksForStart, GW!GatewayLooksForEnd,
        GW!NextRound, GW!NothingToTake, GW!GatewayMoves, GW!Take, GW!TakeOutOfIds, GW!Forward,
        GW!LogSent, GW!Release, GW!NoAckRelayed, GW!RelayAck, GW!ReleaseAck, GW!Report
    <3> QED BY <1>2, <2>1, <2>2, <3>1
  <2>10. CASE Alpha
    <3>1. Runs("alpha") /\ UNCHANGED <<startVars, main, flags, engine, gateway, logger>>
      BY <2>10 DEF Alpha, GW!Alpha, GW!AlphaLooksForStart, GW!AlphaLooksForEnd, GW!AlphaSends,
        GW!AlphaReturns, GW!AlphaMoves, GW!Send
    <3>2. alpha' \in {"wait", "check", "send", "done"}
      BY <1>2, <2>10 DEF Alpha, GW!Alpha, GW!AlphaLooksForStart, GW!AlphaLooksForEnd,
        GW!AlphaSends, GW!AlphaReturns, GW!AlphaMoves, GW!Send
    <3> QED BY <1>2, <2>1, <2>2, <3>1, <3>2
  <2>11. CASE UNCHANGED vars
    BY <1>2, <2>1, <2>2, <2>11
  <2> QED BY <1>2, <2>3, <2>4, <2>5, <2>6, <2>7, <2>8, <2>9, <2>10, <2>11 DEF Next, Main
<1>3. ASSUME ProgramInv, MainTypes
      PROVE  ProgramTypeOK
  <2>1. MEP!HandlerTypeOK /\ MEP!QueuesTypeOK /\ MEP!Buy!BookTypeOK /\ MEP!Sell!BookTypeOK
    BY <1>3, EngineConstants, MEP!BooksKept
    DEF ProgramInv, MEP!EngineInv, MEP!MatchingEngineAssumption
  <2>2. ME!HandlerTypeOK
    BY <2>1 DEF MEP!HandlerTypeOK, ME!HandlerTypeOK, MEP!LOBOrder, ME!LOBOrder, MEP!Change, ME!Change,
      MEP!Kinds, ME!Kinds, MEP!Entry, ME!Entry, MEP!Ids, ME!Ids, MEP!Levels, ME!Levels, MEP!NoSlot,
      ME!NoSlot, MEP!Buy!NoSlot, ME!Buy!NoSlot
  <2>3. ME!QueuesTypeOK
    <3>1. next_system_id \in 0 .. MaxOrders /\ 0 \in 0 .. Len(TestStore)
      BY <1>3, StoreTypes DEF ProgramInv, GWP!GatewayInv, GWP!ThreadTypes, LUTSize, MaxOrders
    <3> QED BY <2>1, <3>1 DEF MEP!QueuesTypeOK, ME!QueuesTypeOK, MEP!Ids, ME!Ids, MEP!Kinds, ME!Kinds
  <2>4. ME!Buy!BookTypeOK /\ ME!Sell!BookTypeOK
    BY <2>1 DEF MEP!Buy!BookTypeOK, ME!Buy!BookTypeOK, MEP!Sell!BookTypeOK, ME!Sell!BookTypeOK,
      MEP!Buy!Levels, ME!Buy!Levels, MEP!Sell!Levels, ME!Sell!Levels, MEP!Buy!Entry, ME!Buy!Entry,
      MEP!Sell!Entry, ME!Sell!Entry, MEP!Buy!NoSlot, ME!Buy!NoSlot, MEP!Sell!NoSlot,
      ME!Sell!NoSlot, MEP!Ids, ME!Ids
  <2>5. GW!ThreadTypeOK
    BY <1>3, GatewayTypes DEF ProgramInv, GWP!GatewayInv
  <2>6. \A t \in Threads : Place[t] \in {"wait", "opening"} \/ Runs(t)
    BY <1>3 DEF Threads, Place
  <2>7. ME!EngineTypeOK
    BY <2>2, <2>3, <2>4 DEF ME!EngineTypeOK
  <2>8. (pc # "idle") = (engine = "handling")
    BY <1>3 DEF ProgramInv, SlotInHand
  <2> QED BY <1>3, <2>5, <2>6, <2>7, <2>8 DEF ProgramTypeOK
<1> QED BY <1>1, <1>2, <1>3, ProgramInvariant, PTL DEF Spec

-----------------------------------------------------------------------------
(* Sums of sequences of numbers.                                           *)

LEMMA InductionOnNat ==
  ASSUME NEW S, 0 \in S, \A n \in Nat : n \in S => n + 1 \in S
  PROVE  Nat \subseteq S
<1>1. SUFFICES ASSUME Nat \ S # {} PROVE FALSE
  OBVIOUS
<1>2. PICK R : R = OpToRel(<, Nat)
  OBVIOUS
<1>3. \A a, b \in Nat : a < b => <<a, b>> \in R
  BY Zenon, <1>2 DEF OpToRel
<1>4. IsWellFoundedOn(R, Nat)
  BY <1>2, NatLessThanWellFounded
<1>5. PICK m \in Nat \ S : \A k \in Nat \ S : ~ (<<k, m>> \in R)
  <2> DEFINE T == Nat \ S
  <2>1. T \subseteq Nat /\ T # {}
    BY <1>1
  <2> HIDE DEF T
  <2>2. \E x \in T : \A y \in T : ~ (<<y, x>> \in R)
    BY <1>4, <2>1, WFMin
  <2> QED BY <2>2 DEF T
<1>6. m # 0 /\ m - 1 \in Nat /\ m - 1 < m
  BY <1>5
<1>7. m - 1 \in S
  BY <1>3, <1>5, <1>6
<1> QED BY <1>5, <1>6, <1>7

(* f adds up w, number by number. *)
AddsWeights(f, w, L) ==
  f = [k \in 0 .. L |-> IF k = 0 THEN 0 ELSE f[k - 1] + w[k]]

LEMMA SumsExist ==
  ASSUME NEW w, NEW L \in Nat, \A k \in 1 .. L : w[k] \in Int
  PROVE  \E f : AddsWeights(f, w, L)
<1> DEFINE S == {n \in Nat : n <= L => \E f : AddsWeights(f, w, n)}
<1>1. 0 \in S
  <2>1. PICK f : f = [k \in 0 .. 0 |-> 0]
    OBVIOUS
  <2>2. AddsWeights(f, w, 0)
    BY <2>1 DEF AddsWeights
  <2> QED BY <2>2
<1>2. ASSUME NEW n \in Nat, n \in S
      PROVE  n + 1 \in S
  <2>1. SUFFICES ASSUME n + 1 <= L PROVE \E f : AddsWeights(f, w, n + 1)
    OBVIOUS
  <2>2. PICK g : AddsWeights(g, w, n)
    BY <1>2, <2>1
  <2>3. PICK f : f = [k \in 0 .. n + 1 |-> IF k = n + 1 THEN g[n] + w[n + 1] ELSE g[k]]
    OBVIOUS
  <2>4. \A k \in 0 .. n : g[k] = IF k = 0 THEN 0 ELSE g[k - 1] + w[k]
    BY <2>2 DEF AddsWeights
  <2>5. \A k \in 0 .. n + 1 : f[k] = IF k = 0 THEN 0 ELSE f[k - 1] + w[k]
    BY <2>3, <2>4
  <2>6. AddsWeights(f, w, n + 1)
    BY <2>3, <2>5 DEF AddsWeights
  <2> QED BY <2>6
<1> HIDE DEF S
<1>3. L \in S
  BY <1>1, <1>2, InductionOnNat
<1> QED BY <1>3 DEF S

LEMMA SumsUnique ==
  ASSUME NEW f, NEW g, NEW w, NEW L \in Nat, NEW K \in Nat, NEW v,
         AddsWeights(f, w, L), AddsWeights(g, v, K), \A k \in 1 .. L : k <= K => w[k] = v[k]
  PROVE  \A k \in 0 .. L : k <= K => f[k] = g[k]
<1> DEFINE S == {n \in Nat : n <= L /\ n <= K => f[n] = g[n]}
<1>1. /\ \A k \in 0 .. L : f[k] = IF k = 0 THEN 0 ELSE f[k - 1] + w[k]
      /\ \A k \in 0 .. K : g[k] = IF k = 0 THEN 0 ELSE g[k - 1] + v[k]
  BY DEF AddsWeights
<1>2. 0 \in S
  BY <1>1
<1>3. ASSUME NEW n \in Nat, n \in S
      PROVE  n + 1 \in S
  BY <1>1, <1>3
<1> HIDE DEF S
<1>4. Nat \subseteq S
  BY <1>2, <1>3, InductionOnNat
<1> QED BY <1>4 DEF S

(* x is the sum of the first L weights. *)
SumsTo(w, L, x) == \E f : AddsWeights(f, w, L) /\ f[L] = x

LEMMA SumExists ==
  ASSUME NEW w, NEW L \in Nat, \A k \in 1 .. L : w[k] \in Int
  PROVE  \E x : SumsTo(w, L, x)
BY SumsExist DEF SumsTo

LEMMA SumUnique ==
  ASSUME NEW w, NEW v, NEW L \in Nat, \A k \in 1 .. L : w[k] = v[k],
         NEW x, NEW y, SumsTo(w, L, x), SumsTo(v, L, y)
  PROVE  x = y
<1>1. PICK f : AddsWeights(f, w, L) /\ f[L] = x
  BY DEF SumsTo
<1>2. PICK g : AddsWeights(g, v, L) /\ g[L] = y
  BY DEF SumsTo
<1>3. \A k \in 0 .. L : k <= L => f[k] = g[k]
  BY <1>1, <1>2, SumsUnique
<1> QED BY <1>1, <1>2, <1>3

LEMMA SumOfNone ==
  ASSUME NEW w, NEW x, SumsTo(w, 0, x)
  PROVE  x = 0
BY DEF SumsTo, AddsWeights

(* One weight more. *)
LEMMA SumShortened ==
  ASSUME NEW v, NEW L \in Nat, NEW M, M = L + 1, NEW y, SumsTo(v, M, y)
  PROVE  \E x : SumsTo(v, L, x) /\ y = x + v[M]
<1>1. PICK f : AddsWeights(f, v, L + 1) /\ f[L + 1] = y
  BY DEF SumsTo
<1>2. \A k \in 0 .. L + 1 : f[k] = IF k = 0 THEN 0 ELSE f[k - 1] + v[k]
  BY <1>1 DEF AddsWeights
<1>3. PICK g : g = [k \in 0 .. L |-> f[k]]
  OBVIOUS
<1>4. \A k \in 0 .. L : g[k] = IF k = 0 THEN 0 ELSE g[k - 1] + v[k]
  BY <1>2, <1>3
<1>5. AddsWeights(g, v, L)
  BY <1>3, <1>4 DEF AddsWeights
<1>6. y = g[L] + v[L + 1]
  <2>1. f[L + 1] = f[L] + v[L + 1] /\ g[L] = f[L]
    BY <1>2, <1>3
  <2> QED BY <1>1, <2>1
<1> QED BY <1>5, <1>6 DEF SumsTo

(* The number z is a sum of the first l weights and the next. *)
OneMore(v, l, z) == \E t : SumsTo(v, l, t) /\ z = t + v[l + 1]

LEMMA SumOfOneMore ==
  ASSUME NEW l \in Nat, NEW m, m = l + 1
  PROVE  \A v, z : SumsTo(v, m, z) => OneMore(v, l, z)
BY SumShortened DEF OneMore

LEMMA SumOfSame ==
  ASSUME NEW w, NEW v, NEW L \in Nat, \A k \in 1 .. L : v[k] = w[k], NEW x, SumsTo(v, L, x)
  PROVE  SumsTo(w, L, x)
<1>1. PICK f : AddsWeights(f, v, L) /\ f[L] = x
  BY DEF SumsTo
<1>2. /\ f = [k \in 0 .. L |-> IF k = 0 THEN 0 ELSE f[k - 1] + v[k]]
      /\ \A k \in 0 .. L : f[k] = IF k = 0 THEN 0 ELSE f[k - 1] + v[k]
  BY Zenon, <1>1 DEF AddsWeights
<1>3. \A k \in 0 .. L : f[k] = IF k = 0 THEN 0 ELSE f[k - 1] + w[k]
  BY <1>2
<1>4. AddsWeights(f, w, L)
  BY <1>2, <1>3 DEF AddsWeights
<1> QED BY <1>1, <1>4 DEF SumsTo

(* Fewer of the weights, none of them negative. *)
LEMMA SumOfFewer ==
  ASSUME NEW w, NEW v, NEW L \in Nat, NEW K \in 0 .. L, \A k \in 1 .. L : w[k] \in Nat,
         \A k \in 1 .. K : v[k] = w[k], NEW x, NEW y, SumsTo(v, K, x), SumsTo(w, L, y)
  PROVE  x \in Nat /\ y \in Nat /\ x <= y
<1>1. PICK f : AddsWeights(f, v, K) /\ f[K] = x
  BY DEF SumsTo
<1>2. PICK g : AddsWeights(g, w, L) /\ g[L] = y
  BY DEF SumsTo
<1>3. \A k \in 0 .. L : g[k] = IF k = 0 THEN 0 ELSE g[k - 1] + w[k]
  BY <1>2 DEF AddsWeights
<1>4. f[K] = g[K]
  <2>1. \A k \in 0 .. K : k <= L => f[k] = g[k]
    BY <1>1, <1>2, SumsUnique
  <2> QED BY <2>1
<1>5. \A k \in 0 .. L : g[k] \in Nat /\ (k >= K => g[K] \in Nat /\ g[K] <= g[k])
  <2> DEFINE S == {n \in Nat : n <= L => g[n] \in Nat /\ (n >= K => g[K] \in Nat /\ g[K] <= g[n])}
  <2>1. 0 \in S
    <3>1. g[0] = 0
      BY <1>3
    <3>2. 0 >= K => K = 0
      OBVIOUS
    <3> QED BY <3>1, <3>2
  <2>2. ASSUME NEW n \in Nat, n \in S
        PROVE  n + 1 \in S
    <3>1. SUFFICES ASSUME n + 1 <= L
                   PROVE  g[n + 1] \in Nat /\ (n + 1 >= K => g[K] \in Nat /\ g[K] <= g[n + 1])
      OBVIOUS
    <3>2. PICK a, b, c, d : a = g[n] /\ b = g[n + 1] /\ c = g[K] /\ d = w[n + 1]
      OBVIOUS
    <3>3. a \in Nat /\ (n >= K => c \in Nat /\ c <= a)
      BY <2>2, <3>1, <3>2
    <3>4. b = a + d /\ d \in Nat
      BY <1>3, <3>1, <3>2
    <3>5. b \in Nat /\ a <= b
      BY <3>3, <3>4
    <3>6. n + 1 >= K => c \in Nat /\ c <= b
      <4>1. CASE n + 1 = K
        BY <3>2, <3>5, <4>1
      <4>2. CASE n >= K
        BY <3>3, <3>5, <4>2
      <4>3. n + 1 >= K => n + 1 = K \/ n >= K
        OBVIOUS
      <4> QED BY <4>1, <4>2, <4>3
    <3> QED BY <3>2, <3>5, <3>6
  <2> HIDE DEF S
  <2>3. Nat \subseteq S
    BY <2>1, <2>2, InductionOnNat
  <2> QED BY <2>3 DEF S
<1> QED BY <1>1, <1>2, <1>4, <1>5

(* Weights that are the sums of two others. *)
AddedUp(w, v, u, L) == \A k \in 1 .. L : v[k] \in Int /\ u[k] \in Int /\ w[k] = v[k] + u[k]

LEMMA SumOfSums ==
  ASSUME NEW w, NEW v, NEW u, NEW L \in Nat, AddedUp(w, v, u, L),
         NEW x, NEW y, NEW z, SumsTo(w, L, x), SumsTo(v, L, y), SumsTo(u, L, z)
  PROVE  y \in Int /\ z \in Int /\ x = y + z
<1>1. PICK f, g, h : /\ AddsWeights(f, w, L) /\ f[L] = x
                     /\ AddsWeights(g, v, L) /\ g[L] = y
                     /\ AddsWeights(h, u, L) /\ h[L] = z
  BY DEF SumsTo
<1>2. /\ \A k \in 0 .. L : f[k] = IF k = 0 THEN 0 ELSE f[k - 1] + w[k]
      /\ \A k \in 0 .. L : g[k] = IF k = 0 THEN 0 ELSE g[k - 1] + v[k]
      /\ \A k \in 0 .. L : h[k] = IF k = 0 THEN 0 ELSE h[k - 1] + u[k]
  BY <1>1 DEF AddsWeights
<1> DEFINE S == {n \in Nat : n <= L => g[n] \in Int /\ h[n] \in Int /\ f[n] = g[n] + h[n]}
<1>3. 0 \in S
  BY <1>2
<1>4. ASSUME NEW n \in Nat, n \in S
      PROVE  n + 1 \in S
  <2>1. SUFFICES ASSUME n + 1 <= L
                 PROVE  g[n + 1] \in Int /\ h[n + 1] \in Int /\ f[n + 1] = g[n + 1] + h[n + 1]
    OBVIOUS
  <2>2. g[n] \in Int /\ h[n] \in Int /\ f[n] = g[n] + h[n]
    BY <1>4, <2>1
  <2>3. /\ f[n + 1] = f[n] + w[n + 1] /\ g[n + 1] = g[n] + v[n + 1]
        /\ h[n + 1] = h[n] + u[n + 1]
    BY <1>2, <2>1
  <2>4. v[n + 1] \in Int /\ u[n + 1] \in Int /\ w[n + 1] = v[n + 1] + u[n + 1]
    BY <2>1 DEF AddedUp
  <2> QED BY <2>2, <2>3, <2>4
<1> HIDE DEF S
<1>5. L \in S
  BY <1>3, <1>4, InductionOnNat
<1> QED BY <1>1, <1>5 DEF S

(* A single weight that is not zero. *)
LEMMA SumOfOne ==
  ASSUME NEW w, NEW L \in Nat, NEW n \in 1 .. L, NEW z \in Int,
         \A k \in 1 .. L : w[k] = IF k = n THEN z ELSE 0
  PROVE  SumsTo(w, L, z)
<1>1. PICK f : f = [k \in 0 .. L |-> IF k < n THEN 0 ELSE z]
  OBVIOUS
<1>2. ASSUME NEW k \in 0 .. L
      PROVE  f[k] = IF k = 0 THEN 0 ELSE f[k - 1] + w[k]
  <2>1. CASE k = 0
    BY <1>1, <2>1
  <2>2. CASE k # 0 /\ k < n
    BY <1>1, <2>2
  <2>3. CASE k = n
    BY <1>1, <2>3
  <2>4. CASE k > n
    BY <1>1, <2>4
  <2> QED BY <2>1, <2>2, <2>3, <2>4
<1>3. AddsWeights(f, w, L)
  BY <1>1, <1>2 DEF AddsWeights
<1>4. f[L] = z
  BY <1>1
<1> QED BY <1>3, <1>4 DEF SumsTo

LEMMA SumOfZeros ==
  ASSUME NEW w, NEW L \in Nat, \A k \in 1 .. L : w[k] = 0
  PROVE  SumsTo(w, L, 0)
<1>1. PICK f : f = [k \in 0 .. L |-> 0]
  OBVIOUS
<1>2. \A k \in 0 .. L : f[k] = IF k = 0 THEN 0 ELSE f[k - 1] + w[k]
  BY <1>1
<1>3. AddsWeights(f, w, L) /\ f[L] = 0
  BY <1>1, <1>2 DEF AddsWeights
<1> QED BY <1>3 DEF SumsTo

(* Weights of the opposite sign. *)
Opposite(w, v, L) == \A k \in 1 .. L : w[k] \in Int /\ v[k] = - w[k]

LEMMA SumOfNegatives ==
  ASSUME NEW w, NEW v, NEW L \in Nat, Opposite(w, v, L),
         NEW x, NEW y, SumsTo(w, L, x), SumsTo(v, L, y)
  PROVE  x \in Int /\ y = - x
<1>1. PICK u : u = [k \in 1 .. L |-> 0]
  OBVIOUS
<1>2. SumsTo(u, L, 0)
  <2>1. \A k \in 1 .. L : u[k] = 0
    BY <1>1
  <2> QED BY <2>1, SumOfZeros
<1>3. AddedUp(u, w, v, L)
  <2>1. \A k \in 1 .. L : w[k] \in Int /\ v[k] \in Int /\ u[k] = w[k] + v[k]
    BY <1>1 DEF Opposite
  <2> QED BY <2>1 DEF AddedUp
<1>4. PICK z : z = 0
  OBVIOUS
<1>5. SumsTo(u, L, z)
  BY <1>2, <1>4
<1>6. x \in Int /\ y \in Int /\ z = x + y
  BY <1>3, <1>5, SumOfSums
<1> QED BY <1>4, <1>6

(* The sums of a table of N rows and L columns, by rows and by columns, are *)
(* the same.                                                                *)
IsTable(w, N, L) == \A n \in 1 .. N : \A k \in 1 .. L : w[n][k] \in Int

SumsOfRows(r, w, N, L) == \A n \in 1 .. N : SumsTo(w[n], L, r[n])

SumsOfColumns(c, w, N, L) ==
  \A k \in 1 .. L : c[k] \in Int /\ SumsTo([n \in 1 .. N |-> w[n][k]], N, c[k])

LEMMA SumByColumns ==
  ASSUME NEW w, NEW N \in Nat, NEW L \in Nat, IsTable(w, N, L),
         NEW r, SumsOfRows(r, w, N, L), NEW c, SumsOfColumns(c, w, N, L),
         NEW x, NEW y, SumsTo(r, N, x), SumsTo(c, L, y)
  PROVE  x = y
<1> USE DEF IsTable, SumsOfRows, SumsOfColumns
<1> DEFINE P(l) == \A q, a, b :
                     (\A n \in 1 .. N : SumsTo(w[n], l, q[n])) /\ SumsTo(q, N, a) /\ SumsTo(c, l, b)
                       => a \in Int /\ a = b
           S == {l \in Nat : l <= L => P(l)}
<1>1. 0 \in S
  <2>1. ASSUME NEW q, NEW a, NEW b, \A n \in 1 .. N : SumsTo(w[n], 0, q[n]),
               SumsTo(q, N, a), SumsTo(c, 0, b)
        PROVE  a \in Int /\ a = b
    <3>1. b = 0
      BY <2>1, SumOfNone
    <3>2. \A n \in 1 .. N : q[n] = 0
      BY <2>1, SumOfNone
    <3>3. SumsTo(q, N, 0)
      BY <3>2, SumOfZeros
    <3>4. a = 0
      BY <2>1, <3>3, SumUnique
    <3> QED BY <3>1, <3>4
  <2> QED BY <2>1
<1>2. ASSUME NEW l \in Nat, l \in S
      PROVE  l + 1 \in S
  <2>1. SUFFICES ASSUME l + 1 <= L PROVE P(l + 1)
    OBVIOUS
  <2>2. P(l)
    BY <1>2, <2>1
  <2>a. ASSUME NEW v, NEW z, SumsTo(v, l + 1, z)
        PROVE  \E t : SumsTo(v, l, t) /\ z = t + v[l + 1]
    <3>1. PICK m : m = l + 1
      OBVIOUS
    <3>2. \A u, t : SumsTo(u, m, t) => OneMore(u, l, t)
      BY <3>1, SumOfOneMore
    <3> QED BY <2>a, <3>1, <3>2 DEF OneMore
  <2> SUFFICES ASSUME NEW q, NEW a, NEW b, \A n \in 1 .. N : SumsTo(w[n], l + 1, q[n]),
                      SumsTo(q, N, a), SumsTo(c, l + 1, b)
               PROVE  a \in Int /\ a = b
    OBVIOUS
  <2>3. l + 1 \in 1 .. L /\ \A k \in 1 .. l : k \in 1 .. L
    BY <2>1
  <2>4. ASSUME NEW n \in 1 .. N
        PROVE  \E t : SumsTo(w[n], l, t) /\ q[n] = t + w[n][l + 1]
    BY <2>a
  <2>5. PICK p : p = [n \in 1 .. N |-> CHOOSE t : SumsTo(w[n], l, t) /\ q[n] = t + w[n][l + 1]]
    OBVIOUS
  <2>6. \A n \in 1 .. N : SumsTo(w[n], l, p[n]) /\ q[n] = p[n] + w[n][l + 1]
    BY <2>4, <2>5
  <2>7. PICK d : SumsTo(c, l, d) /\ b = d + c[l + 1]
    <3>1. PICK m : m = l + 1 /\ SumsTo(c, m, b)
      OBVIOUS
    <3>2. \E t : SumsTo(c, l, t) /\ b = t + c[m]
      BY ONLY SMT, <3>1, SumShortened
    <3> QED BY <3>1, <3>2
  <2>8. \A n \in 1 .. N : p[n] \in Int
    <3>1. ASSUME NEW n \in 1 .. N
          PROVE  p[n] \in Int
      <4>1. PICK v : v = [k \in 1 .. l |-> - w[n][k]]
        OBVIOUS
      <4>2. \A k \in 1 .. l : w[n][k] \in Int /\ v[k] \in Int /\ v[k] = - w[n][k]
        BY <2>3, <4>1
      <4>3. PICK t : SumsTo(v, l, t)
        BY <4>2, SumExists
      <4>4. PICK z : z = w[n]
        OBVIOUS
      <4>5. Opposite(z, v, l)
        BY <4>2, <4>4 DEF Opposite
      <4>6. SumsTo(z, l, p[n])
        BY <2>6, <4>4
      <4> QED BY <4>3, <4>5, <4>6, SumOfNegatives
    <3> QED BY <3>1
  <2>9. PICK e : SumsTo(p, N, e)
    BY <2>8, SumExists
  <2>10. e \in Int /\ e = d
    BY <2>2, <2>6, <2>7, <2>9
  <2>11. PICK u : u = [n \in 1 .. N |-> w[n][l + 1]]
    OBVIOUS
  <2>12. AddedUp(q, p, u, N)
    <3>1. \A n \in 1 .. N : p[n] \in Int /\ u[n] \in Int /\ q[n] = p[n] + u[n]
      BY <2>3, <2>6, <2>8, <2>11
    <3> QED BY <3>1 DEF AddedUp
  <2>13. SumsTo(u, N, c[l + 1]) /\ c[l + 1] \in Int
    BY <2>3, <2>11
  <2>14. a = e + c[l + 1]
    <3>1. PICK z : z = c[l + 1]
      OBVIOUS
    <3>2. SumsTo(u, N, z)
      BY <2>13, <3>1
    <3>3. a = e + z
      BY <2>9, <2>12, <3>2, SumOfSums
    <3> QED BY <3>1, <3>3
  <2> QED BY <2>7, <2>10, <2>13, <2>14
<1> HIDE DEF S
<1>3. L \in S
  BY <1>1, <1>2, InductionOnNat
<1> QED BY <1>3 DEF S

-----------------------------------------------------------------------------
(* The accounts of the client, all of whose orders are creations.          *)

(* What a step is to the engine. *)
Quiet ==
  /\ UNCHANGED <<bookVars, pc, order, pending, Begun>>
  /\ acks'.sent = acks.sent /\ acks'.lost = acks.lost

Begins ==
  /\ pc = "idle" /\ UNCHANGED <<bookVars, lob, acks>>
  /\ Begun' = Begun + 1 /\ Begun + 1 \in DOMAIN lob.sent
  /\ order' = InSlot(lob.sent[Begun + 1]) /\ pc' = MEP!Handler[order'.req_type]

LEMMA QuietWhenUntouched ==
  ASSUME ProgramInv, UNCHANGED <<lob, bookVars, pc, order, pending>>,
         acks'.sent = acks.sent, acks'.lost = acks.lost,
         (engine' = "handling") = (engine = "handling")
  PROVE  SlotsKept /\ Quiet
BY DEF SlotsKept, Quiet, Begun

LEMMA StepKinds ==
  ASSUME ProgramInv, [Next]_vars
  PROVE  SlotsKept /\ (Quiet \/ Begins \/ Handled)
<1> USE DEF startVars, gatewayVars, engineVars, queueVars, vars, Elsewhere
<1>1. CASE \/ Main \/ NewThreads \/ Logger \/ UNCHANGED vars
           \/ EngineLooksForStart \/ EngineLooksForEnd \/ NextPoll \/ NothingToRead \/ Report
  <2>1. CASE Main
    BY <2>1, QuietWhenUntouched DEF Main, Create, Created, Set, Join, GW!MainSets, GW!idVars, GW!outVars
  <2>2. CASE NewThreads \/ Logger \/ UNCHANGED vars
    BY <2>2, QuietWhenUntouched DEF NewThreads, Logger
  <2>3. CASE \/ EngineLooksForStart \/ EngineLooksForEnd \/ NextPoll \/ NothingToRead \/ Report
    BY <2>3, QuietWhenUntouched
    DEF EngineLooksForStart, EngineLooksForEnd, NextPoll, NothingToRead, Report, EngineMoves
  <2> QED BY <1>1, <2>1, <2>2, <2>3
<1>2. CASE Alpha
  BY Zenon, <1>2, QuietWhenUntouched
  DEF Alpha, GW!Alpha, GW!AlphaLooksForStart, GW!AlphaLooksForEnd, GW!AlphaSends,
    GW!AlphaReturns, GW!AlphaMoves, GW!Send, GW!outVars
<1>3. CASE Gateway
  <2>1. GWP!Gateway /\ UNCHANGED engineVars
    BY <1>3, GatewayOfProofs DEF Gateway
  <2>2. CASE UNCHANGED <<lob, acks>>
    BY <2>1, <2>2, QuietWhenUntouched
  <2>3. CASE GWP!Forward
    <3>1. CASE gateway' = "log"
      <4>1. PICK r : /\ lob' = [lob EXCEPT !.sent = Append(@, r)]
                     /\ UNCHANGED acks /\ r = GWP!Request(inHand.source)
        BY <2>3, <3>1 DEF GWP!Forward
      <4>2. lob'.sent = Append(lob.sent, r) /\ lob'.read = lob.read
        BY <4>1, QueueTypes DEF ProgramInv
      <4>3. \A m \in DOMAIN lob.sent : m \in DOMAIN lob'.sent /\ lob'.sent[m] = lob.sent[m]
        <5>1. /\ Len(Append(lob.sent, r)) = Len(lob.sent) + 1
              /\ DOMAIN Append(lob.sent, r) = 1 .. Len(lob.sent) + 1
              /\ \A m \in 1 .. Len(lob.sent) : Append(lob.sent, r)[m] = lob.sent[m]
          BY QueueTypes DEF ProgramInv
        <5> QED BY <4>2, <5>1, QueueTypes DEF ProgramInv
      <4>4. Begun' = Begun
        BY <2>1, <4>2 DEF Begun
      <4> QED BY <2>1, <4>1, <4>3, <4>4 DEF SlotsKept, Quiet
    <3>2. CASE gateway' = "release"
      BY <2>2, <2>3, <3>2 DEF GWP!Forward
    <3> QED BY <2>3, <3>1, <3>2 DEF GWP!Forward
  <2>4. CASE GWP!ReleaseAck
    <3>1. UNCHANGED lob /\ acks' = [acks EXCEPT !.read = @ + 1]
      BY <2>4 DEF GWP!ReleaseAck
    <3>2. acks'.sent = acks.sent /\ acks'.lost = acks.lost
      BY <3>1 DEF ProgramInv, MEP!EngineInv, MEP!QueuesTypeOK
    <3> QED BY <2>1, <3>1, <3>2, QuietWhenUntouched
  <2> QED BY <2>1, <2>2, <2>3, <2>4 DEF GWP!Gateway, GWP!GatewayLooksForStart,
    GWP!GatewayLooksForEnd, GWP!NextRound, GWP!NothingToTake, GWP!GatewayMoves, GWP!Take,
    GWP!TakeOutOfIds, GWP!LogSent, GWP!Release, GWP!NoAckRelayed, GWP!RelayAck, GWP!Report,
    GWP!outVars
<1>4. CASE ReadOrder
  <2>1. /\ engine = "poll" /\ engine' = "handling" /\ UNCHANGED lob
        /\ lob.read < Len(lob.sent) /\ ME!ReadOrder(InSlot(AtHead))
    BY <1>4 DEF ReadOrder
  <2>2. Begun = lob.read /\ Begun' = lob.read + 1 /\ lob.read + 1 \in DOMAIN lob.sent
    BY <2>1, QueueTypes DEF ProgramInv, Begun
  <2>3. /\ pc = "idle" /\ UNCHANGED <<bookVars, acks>>
        /\ order' = InSlot(lob.sent[Begun + 1])
    BY <2>1, <2>2 DEF ME!ReadOrder, ME!books, ME!buyVars, ME!sellVars, ME!outVars, bookVars, AtHead
  <2>4. pc' = MEP!Handler[order'.req_type]
    BY <2>1 DEF ME!ReadOrder, ME!Handler, MEP!Handler
  <2>5. Begins
    BY <2>1, <2>2, <2>3, <2>4 DEF Begins
  <2> QED BY <2>1, <2>5 DEF SlotsKept
<1>5. CASE Handle
  BY <1>5, HandleStep
<1> QED BY <1>1, <1>2, <1>3, <1>4, <1>5 DEF Next, Engine

(* Only the sniper's orders come, so that they are numbered by their       *)
(* places, dropped or not.                                                 *)
HandNumbered ==
  /\ next_system_id = requests.sniper.read + IF inHand = None THEN 0 ELSE 1
  /\ inHand # None => inHand.source = "sniper" /\ inHand.system_id = requests.sniper.read
  /\ \A id \in GWP!SystemIds : id < next_system_id => LUT[id] = TestStore[id + 1].order_id

SlotsNumbered ==
  \A m \in DOMAIN lob.sent :
    /\ lob.sent[m].from = <<"sniper", lob.sent[m].system_id + 1>>
    /\ lob.sent[m].order_type = TestStore[lob.sent[m].system_id + 1].order_type
    /\ m > Begun => lob.sent[m].quantity = TestStore[lob.sent[m].system_id + 1].quantity % Word

LEMMA HandNumberedStep ==
  ASSUME ProgramInv, HandNumbered, [Next]_vars
  PROVE  HandNumbered'
<1> USE DEF startVars, gatewayVars, engineVars, queueVars, vars, Elsewhere
<1>0. GWP!ThreadTypes /\ requests.sniper.read \in Nat
  BY DEF ProgramInv, GWP!GatewayInv, GWP!ThreadTypes, GWP!Sources
<1>1. CASE UNCHANGED <<next_system_id, inHand, LUT>> /\ requests'.sniper.read = requests.sniper.read
  BY <1>1 DEF HandNumbered
<1>2. CASE Main \/ NewThreads \/ Logger \/ UNCHANGED vars
  BY <1>1, <1>2 DEF Main, Create, Created, Set, Join, GW!MainSets, GW!idVars, GW!outVars,
    NewThreads, Logger
<1>3. CASE Engine
  <2>1. CASE ReadOrder
    BY Zenon, <1>1, <2>1 DEF ReadOrder
  <2>2. CASE Handle
    BY <1>1, <2>2 DEF Handle, ME!Engine, ME!StopMatching, ME!EnterLevel, ME!TradeNext,
      ME!TellResting, ME!LeaveLevel, ME!Settle, ME!RestOrder, ME!UpdateIgnored, ME!UpdatePrice,
      ME!UpdateQuantity, ME!DeleteResting, ME!Publish, ME!Finish, ME!Undefined, ME!envVars
  <2> QED BY <1>1, <1>3, <2>1, <2>2 DEF Engine, EngineLooksForStart, EngineLooksForEnd, NextPoll,
    NothingToRead, Report, EngineMoves
<1>4. CASE Alpha
  <2>1. CASE UNCHANGED requests
    BY <1>1, <1>4, <2>1 DEF Alpha, GW!Alpha, GW!AlphaLooksForStart, GW!AlphaLooksForEnd,
      GW!AlphaSends, GW!AlphaReturns, GW!AlphaMoves, GW!Send, GW!idVars
  <2>2. CASE GW!Send("sniper")
    BY <1>0, <1>1, <2>2 DEF GW!Send, GW!idVars, GWP!ThreadTypes, GWP!Sources
  <2> QED BY <1>4, <2>1, <2>2 DEF Alpha, GW!Alpha, GW!AlphaLooksForStart, GW!AlphaLooksForEnd,
    GW!AlphaSends, GW!AlphaReturns, GW!AlphaMoves
<1>5. CASE Gateway
  <2>1. GWP!Gateway
    BY <1>5, GatewayOfProofs DEF Gateway
  <2>2. CASE GWP!Take
    <3>1. /\ gateway \in GWP!Sources /\ GWP!HasRequest(gateway) /\ inHand = None
          /\ next_system_id < LUTSize /\ UNCHANGED requests
          /\ next_system_id' = next_system_id + 1
          /\ LUT' = [LUT EXCEPT ![next_system_id] = GWP!HeadOf(gateway).order_id]
          /\ inHand' = [source |-> gateway, system_id |-> next_system_id]
      BY <1>0, <2>2 DEF GWP!Take, GWP!AssignSystemId, GWP!ThreadTypes, GWP!Sources
    <3>2. requests[gateway].read + 1 \in 1 .. Len(GWP!Store[gateway])
      BY <1>0, <3>1, GatewayConstants, GWP!OrderInHand DEF GWP!OrderGatewayAssumption
    <3>3. gateway = "sniper"
      BY <3>1, <3>2 DEF GWP!Sources, GWP!Store, MakerStore
    <3>4. next_system_id = requests.sniper.read /\ next_system_id \in GWP!SystemIds
          /\ LUT \in [GWP!SystemIds -> Nat] /\ LUTSize \in Nat
      <4>1. next_system_id \in Nat /\ LUT \in [GWP!SystemIds -> Nat]
        BY <1>0 DEF GWP!ThreadTypes
      <4>2. requests.sniper.read \in Nat
        BY <1>0 DEF GWP!ThreadTypes, GWP!Sources
      <4>3. next_system_id = requests.sniper.read + 0
        BY <3>1 DEF HandNumbered
      <4> QED BY <3>1, <4>1, <4>2, <4>3, StoreTypes DEF GWP!SystemIds, LUTSize
    <3>5. GWP!HeadOf(gateway) = TestStore[next_system_id + 1]
      BY <3>3, <3>4 DEF GWP!HeadOf, GWP!Store
    <3>6. \A id \in GWP!SystemIds : id < next_system_id' => LUT'[id] = TestStore[id + 1].order_id
      <4>1. SUFFICES ASSUME NEW id \in GWP!SystemIds, id < next_system_id + 1
                     PROVE  LUT'[id] = TestStore[id + 1].order_id
        BY <3>1
      <4>2. CASE id = next_system_id
        BY <3>1, <3>4, <3>5, <4>2
      <4>3. CASE id # next_system_id
        <5>1. id < next_system_id
          BY <3>4, <4>1, <4>3 DEF GWP!SystemIds
        <5> QED BY <3>1, <3>4, <4>3, <5>1 DEF HandNumbered
      <4> QED BY <4>2, <4>3
    <3>7. inHand' # None
      <4>1. inHand' \in GWP!Handled
        BY <3>1, <3>4 DEF GWP!Handled
      <4> QED BY <4>1, GatewayConstants DEF GWP!OrderGatewayAssumption
    <3> QED BY <3>1, <3>3, <3>4, <3>6, <3>7 DEF HandNumbered
  <2>3. CASE GWP!Release
    <3>1. /\ inHand # None /\ inHand' = None /\ UNCHANGED <<next_system_id, LUT>>
          /\ requests' = [requests EXCEPT ![inHand.source].read = @ + 1]
      BY <1>0, <2>3 DEF GWP!Release, GWP!ThreadTypes, GWP!idVars
    <3>2. requests'.sniper.read = requests.sniper.read + 1
      BY Zenon, <1>0, <3>1 DEF HandNumbered, GWP!ThreadTypes, GWP!Sources
    <3> QED BY <1>0, <3>1, <3>2 DEF HandNumbered
  <2> QED BY <1>1, <2>1, <2>2, <2>3 DEF GWP!Gateway, GWP!GatewayLooksForStart,
    GWP!GatewayLooksForEnd, GWP!NextRound, GWP!NothingToTake, GWP!GatewayMoves,
    GWP!TakeOutOfIds, GWP!Forward, GWP!LogSent, GWP!NoAckRelayed, GWP!RelayAck, GWP!ReleaseAck,
    GWP!Report, GWP!idVars
<1> QED BY <1>2, <1>3, <1>4, <1>5 DEF Next

LEMMA SlotsNumberedStep ==
  ASSUME ProgramInv, HandNumbered, SlotsNumbered, [Next]_vars
  PROVE  SlotsNumbered'
<1>1. SlotsKept
  BY StepKinds
<1>2. Begun' >= Begun /\ Begun \in Nat /\ Begun' \in Nat
  <2>1. ProgramInv'
    BY ProgramStep, KeptSuffices
  <2>2. Begun \in Nat
    BY QueueTypes DEF ProgramInv
  <2>3. Begun' = Begun \/ Begun' = Begun + 1
    BY StepKinds DEF Quiet, Begins, Handled
  <2> QED BY <2>2, <2>3
<1>3. ASSUME NEW m \in DOMAIN lob'.sent, m \in DOMAIN lob.sent
      PROVE  /\ lob'.sent[m].from = <<"sniper", lob'.sent[m].system_id + 1>>
             /\ lob'.sent[m].order_type = TestStore[lob'.sent[m].system_id + 1].order_type
             /\ m > Begun' =>
                  lob'.sent[m].quantity = TestStore[lob'.sent[m].system_id + 1].quantity % Word
  <2>1. m > Begun' => m > Begun
    BY <1>2, <1>3, QueueTypes DEF ProgramInv
  <2> QED BY <1>1, <1>3, <2>1 DEF SlotsKept, SlotsNumbered
<1>4. CASE DOMAIN lob'.sent = DOMAIN lob.sent
  BY Zenon, <1>3, <1>4 DEF SlotsNumbered
<1>5. CASE GWP!Forward /\ gateway' = "log"
  <2>1. PICK r : /\ lob' = [lob EXCEPT !.sent = Append(@, r)]
                 /\ r = GWP!Request(inHand.source) /\ gateway = "forward"
    BY <1>5 DEF GWP!Forward
  <2>2. inHand # None /\ inHand.source = "sniper" /\ inHand.system_id = requests.sniper.read
    BY <2>1 DEF ProgramInv, GWP!GatewayInv, GWP!ThreadTypes, HandNumbered
  <2>3. /\ r.from = <<"sniper", r.system_id + 1>>
        /\ r.order_type = TestStore[r.system_id + 1].order_type
        /\ r.quantity = TestStore[r.system_id + 1].quantity % Word
    BY <2>1, <2>2 DEF GWP!Request, GWP!HeadOf, GWP!Store
  <2>4. PICK k \in Nat : k = Len(lob.sent)
    BY QueueTypes DEF ProgramInv
  <2>5. lob'.sent = Append(lob.sent, r)
    BY <2>1, QueueTypes DEF ProgramInv
  <2>6. DOMAIN lob'.sent = 1 .. k + 1 /\ lob'.sent[k + 1] = r /\ DOMAIN lob.sent = 1 .. k
    BY <2>4, <2>5, QueueTypes DEF ProgramInv
  <2>7. \A m \in 1 .. k + 1 : m = k + 1 \/ m \in 1 .. k
    BY <2>4
  <2> QED BY <1>3, <2>3, <2>6, <2>7 DEF SlotsNumbered
<1>6. CASE Gateway
  <2>1. GWP!Gateway
    BY <1>6, GatewayOfProofs DEF Gateway
  <2>2. UNCHANGED lob \/ (GWP!Forward /\ gateway' = "log")
    BY <2>1 DEF GWP!Gateway, GWP!GatewayLooksForStart, GWP!GatewayLooksForEnd, GWP!NextRound,
      GWP!NothingToTake, GWP!GatewayMoves, GWP!Take, GWP!TakeOutOfIds, GWP!Forward, GWP!LogSent,
      GWP!Release, GWP!NoAckRelayed, GWP!RelayAck, GWP!ReleaseAck, GWP!Report, GWP!outVars
  <2> QED BY <1>4, <1>5, <2>2
<1>7. CASE Handle
  BY <1>4, <1>7, HandleStep DEF Handled
<1> QED BY <1>4, <1>6, <1>7
  DEF Next, Engine, startVars, gatewayVars, engineVars, queueVars, vars, Elsewhere, Main, Create,
    Created, Set, Join, GW!MainSets, GW!outVars, NewThreads, Logger, EngineLooksForStart,
    EngineLooksForEnd, NextPoll, NothingToRead, Report, EngineMoves, ReadOrder, Alpha, GW!Alpha,
    GW!AlphaLooksForStart, GW!AlphaLooksForEnd, GW!AlphaSends, GW!AlphaReturns, GW!AlphaMoves, GW!Send

(* The request in the engine's hand is the order of its number. *)
LEMMA OrderNumbered ==
  ASSUME ProgramInv, SlotsNumbered, pc # "idle"
  PROVE  order.order_type = TestStore[order.system_id + 1].order_type
<1>1. engine = "handling" /\ order = InSlot(lob.sent[lob.read + 1])
  BY DEF ProgramInv, SlotInHand, AtHead
<1>2. lob.read + 1 \in DOMAIN lob.sent
  BY <1>1, QueueTypes DEF ProgramInv, SlotInHand
<1> QED BY <1>1, <1>2 DEF SlotsNumbered, InSlot

(* What rests is on the side its order asked for. *)
SidesNumbered ==
  \A s \in MEP!Sides, i \in MEP!Ids : MEP!Rests(s, i) => TestStore[i + 1].order_type = s

LEMMA SidesNumberedStep ==
  ASSUME ProgramInv, SlotsNumbered, SidesNumbered, [Next]_vars
  PROVE  SidesNumbered'
<1>1. SUFFICES ASSUME NEW s \in MEP!Sides, NEW i \in MEP!Ids, MEP!Rests(s, i)'
               PROVE  TestStore[i + 1].order_type = s
  BY DEF SidesNumbered, MEP!Sides, MEP!Ids
<1>2. MEP!EngineInv /\ [MEP!Next]_MEP!vars
  BY ProgramStep DEF ProgramInv, Kept
<1>3. MEP!Rests(s, i) \/ (pc = "rest" /\ s = order.order_type /\ i = order.system_id)
  BY <1>1, <1>2, EngineConstants, MEP!RestsGrow DEF MEP!MatchingEngineAssumption
<1> QED BY <1>3, OrderNumbered DEF SidesNumbered

(* What the acknowledgements sent add up to, if g is what each is worth.   *)
Adds(g, x) ==
  \E w, L : w = [k \in DOMAIN acks.sent |-> g[acks.sent[k]]] /\ L = Len(acks.sent) /\ SumsTo(w, L, x)

LEMMA AddsSame ==
  ASSUME acks'.sent = acks.sent, NEW g, NEW x, Adds(g, x)'
  PROVE  Adds(g, x)
BY DEF Adds

LEMMA AddsOne ==
  ASSUME acks.sent \in Seq(MEP!AckMessage), NEW m \in MEP!AckMessage,
         acks'.sent = Append(acks.sent, m), NEW g, NEW y, Adds(g, y)'
  PROVE  \E x : Adds(g, x) /\ y = x + g[m]
<1>1. PICK v, M : /\ v = [k \in DOMAIN acks'.sent |-> g[acks'.sent[k]]]
                  /\ M = Len(acks'.sent) /\ SumsTo(v, M, y)
  BY DEF Adds
<1>2. PICK L \in Nat : L = Len(acks.sent)
  OBVIOUS
<1>3. /\ M = L + 1 /\ DOMAIN acks.sent = 1 .. L /\ DOMAIN acks'.sent = 1 .. L + 1
      /\ acks'.sent[L + 1] = m /\ \A k \in 1 .. L : acks'.sent[k] = acks.sent[k]
  BY <1>1, <1>2
<1>4. PICK x : SumsTo(v, L, x) /\ y = x + v[M]
  <2>1. OneMore(v, L, y)
    BY <1>1, <1>3, SumOfOneMore
  <2> QED BY <1>3, <2>1 DEF OneMore
<1>5. PICK w : w = [k \in DOMAIN acks.sent |-> g[acks.sent[k]]]
  OBVIOUS
<1>6. \A k \in 1 .. L : v[k] = w[k]
  BY <1>1, <1>3, <1>5
<1>7. SumsTo(w, L, x)
  BY <1>4, <1>6, SumOfSame
<1>8. v[M] = g[m]
  BY <1>1, <1>3
<1> QED BY <1>2, <1>4, <1>5, <1>7, <1>8 DEF Adds

LEMMA AddsNothing ==
  ASSUME acks.sent = <<>>, NEW g, NEW x, Adds(g, x)
  PROVE  x = 0
BY SumOfNone DEF Adds

(* The quantity of the order with number i, as far as it is forwarded, and *)
(* what the engine owes it: all of it, once it has begun it.               *)
Quantity(i) == TestStore[i + 1].quantity % Word

Owes(i) == IF \E m \in 1 .. Begun : lob.sent[m].system_id = i THEN Quantity(i) ELSE 0

Traded(i) == [m \in MEP!AckMessage |-> MEP!TradedBy(m, i)]

(* What was told as traded of an order and what is left of it, in the book *)
(* or in the engine's hand, are what the engine owes it, unless some       *)
(* acknowledgement was lost.                                               *)
Accounts ==
  \A i \in MEP!Ids : \A g, x : g = Traded(i) /\ Adds(g, x) =>
    /\ x \in Nat /\ x + MEP!Left(i) <= Owes(i)
    /\ acks.lost = {} => x + MEP!Left(i) = Owes(i)

(* What the engine's invariants say besides. *)
ClientParts == MEP!CursorLeads /\ MEP!OnlyCreates /\ MEP!PendingOpposite

LEMMA OwesTypes == \A i \in MEP!Ids : Quantity(i) \in Nat /\ Owes(i) \in Nat
<1>1. ASSUME NEW i \in MEP!Ids
      PROVE  Quantity(i) \in Nat /\ Owes(i) \in Nat
  <2>1. i + 1 \in DOMAIN TestStore
    BY StoreTypes DEF MEP!Ids, MaxOrders
  <2>2. TestStore[i + 1].quantity \in Nat
    BY <2>1, StoreTypes DEF GW!UserOrder
  <2>3. Quantity(i) \in Nat
    BY <2>2, TradeEngineAssumption DEF Quantity
  <2> QED BY <2>3 DEF Owes
<1> QED BY <1>1

LEMMA LeftCounts == ProgramInv => \A i \in MEP!Ids : MEP!Left(i) \in Nat
BY EngineConstants, MEP!LeftTypes DEF ProgramInv, MEP!MatchingEngineAssumption

LEMMA LeftCountsNext ==
  ASSUME ProgramInv, [Next]_vars
  PROVE  \A i \in MEP!Ids : MEP!Left(i)' \in Nat
<1>1. ProgramInv'
  BY ProgramStep, KeptSuffices
<1>2. (\A i \in MEP!Ids : MEP!Left(i) \in Nat)'
  BY <1>1, LeftCounts, PTL
<1> QED BY <1>2 DEF MEP!Ids

LEMMA OwesSame ==
  ASSUME ProgramInv, SlotsKept, Begun' = Begun, NEW i
  PROVE  Owes(i)' = Owes(i)
<1>1. \A m \in 1 .. Begun : m \in DOMAIN lob.sent
  BY QueueTypes DEF ProgramInv
<1> QED BY <1>1 DEF Owes, SlotsKept

LEMMA InBookStands ==
  ASSUME UNCHANGED bookVars, NEW i
  PROVE  MEP!InBook(i)' = MEP!InBook(i)
BY DEF bookVars, MEP!InBook, MEP!Buy!RestingQuantity, MEP!Sell!RestingQuantity, MEP!Buy!Resting,
  MEP!Sell!Resting, MEP!Buy!PeekOrder, MEP!Sell!PeekOrder, MEP!Buy!EntryAt, MEP!Sell!EntryAt,
  MEP!Buy!NoSlot, MEP!Sell!NoSlot

LEMMA BeginsGains ==
  ASSUME ProgramInv, SlotsNumbered, Begins, MEP!OnlyCreates', NEW i \in MEP!Ids
  PROVE  \E d \in Nat : MEP!Left(i)' = MEP!Left(i) + d /\ Owes(i)' = Owes(i) + d
<1>1. PICK k \in Nat \ {0} : k = Begun + 1 /\ Begun = k - 1 /\ Begun \in Nat
  <2>1. PICK b \in Nat : b = Begun
    BY QueueTypes DEF ProgramInv
  <2>2. b + 1 \in Nat \ {0} /\ b = (b + 1) - 1
    OBVIOUS
  <2> QED BY <2>1, <2>2
<1>2. PICK e \in GWP!LOBOrder : e = lob.sent[k] /\ k \in DOMAIN lob.sent
  BY <1>1, QueueTypes DEF ProgramInv, Begins
<1>3. order' = InSlot(e) /\ pc' = "match" /\ pc = "idle" /\ UNCHANGED <<lob, bookVars>>
  <2>1. order' = InSlot(e) /\ pc' = MEP!Handler[e.req_type] /\ e.req_type \in {"c", "u", "d"}
    BY <1>1, <1>2 DEF Begins, InSlot, GWP!LOBOrder
  <2> QED BY <2>1 DEF MEP!OnlyCreates, MEP!Handler, Begins
<1>4. /\ MEP!Left(i) = MEP!InBook(i) + 0 + 0
      /\ MEP!Left(i)' = MEP!InBook(i) + (IF e.system_id = i THEN e.quantity ELSE 0) + 0
  <2>1. MEP!StillIn(i) = 0 /\ MEP!DueTo(i) = 0
    BY <1>3 DEF MEP!StillIn, MEP!DueTo, MEP!Matching
  <2>2. MEP!StillIn(i)' = (IF e.system_id = i THEN e.quantity ELSE 0) /\ MEP!DueTo(i)' = 0
    BY <1>3 DEF MEP!StillIn, MEP!DueTo, MEP!Matching, InSlot
  <2> QED BY <1>3, <2>1, <2>2, InBookStands DEF MEP!Left
<1>5. e.quantity \in Nat /\ MEP!InBook(i) \in Nat
  <2>1. e.quantity \in Nat
    BY TradeEngineAssumption DEF GWP!LOBOrder
  <2>2. MEP!InBook(i) \in Nat
    BY EngineConstants, MEP!LeftTypes DEF ProgramInv, MEP!MatchingEngineAssumption
  <2> QED BY <2>1, <2>2
<1>6. CASE e.system_id = i
  <2>1. Owes(i) = 0
    <3>1. \A m \in 1 .. Begun : m \in DOMAIN lob.sent /\ m < k
      BY <1>1, QueueTypes DEF ProgramInv
    <3>2. \A m \in 1 .. Begun : lob.sent[m].system_id < e.system_id
      BY <1>2, <3>1 DEF ProgramInv, GWP!GatewayInv, GWP!IdsLead
    <3> QED BY <1>6, <3>2 DEF Owes, MEP!Ids
  <2>2. Owes(i)' = Quantity(i)
    <3>1. Begun' = k /\ lob' = lob /\ k \in 1 .. k
      BY <1>1, <1>3 DEF Begins
    <3>2. lob.sent[k].system_id = i
      BY <1>2, <1>6
    <3> QED BY <3>1, <3>2 DEF Owes
  <2>3. Quantity(i) = e.quantity
    <3>1. k > Begun
      BY <1>1
    <3>2. lob.sent[k].quantity = TestStore[lob.sent[k].system_id + 1].quantity % Word
      BY <1>2, <3>1 DEF SlotsNumbered
    <3> QED BY <1>2, <1>6, <3>2, Zenon DEF Quantity
  <2> QED BY <1>4, <1>5, <1>6, <2>1, <2>2, <2>3
<1>7. CASE e.system_id # i
  <2>1. Owes(i)' = Owes(i)
    <3>1. \A m \in 1 .. k : m = k \/ m \in 1 .. Begun
      BY <1>1
    <3>2. \A m \in 1 .. Begun : m \in 1 .. k
      BY <1>1
    <3>3. Begun' = k /\ lob' = lob
      BY <1>1, <1>3 DEF Begins
    <3> QED BY <1>2, <1>7, <3>1, <3>2, <3>3 DEF Owes
  <2> QED BY <1>4, <1>5, <1>7, <2>1, OwesTypes
<1> QED BY <1>6, <1>7

LEMMA AccountsStep ==
  ASSUME ProgramInv, SlotsNumbered, ClientParts, MEP!OnlyCreates', Accounts, [Next]_vars
  PROVE  Accounts'
<1>1. SUFFICES ASSUME NEW i \in MEP!Ids, NEW g, NEW y, g = Traded(i), Adds(g, y)'
               PROVE  /\ y \in Nat /\ y + MEP!Left(i)' <= Owes(i)'
                      /\ acks'.lost = {} => y + MEP!Left(i)' = Owes(i)'
  BY DEF Accounts, MEP!Ids, Traded
<1>2. PICK l \in Nat, m \in Nat, o \in Nat :
        l = MEP!Left(i) /\ m = MEP!Left(i)' /\ o = Owes(i)
  BY LeftCounts, LeftCountsNext, OwesTypes
<1>3. ASSUME NEW x, Adds(g, x)
      PROVE  x \in Nat /\ x + l <= o /\ (acks.lost = {} => x + l = o)
  BY <1>1, <1>2, <1>3 DEF Accounts
<1>4. SlotsKept /\ (Quiet \/ Begins \/ Handled)
  BY StepKinds
<1>5. CASE Quiet
  <2>1. MEP!Left(i)' = MEP!Left(i)
    <3>1. MEP!StillIn(i)' = MEP!StillIn(i) /\ MEP!DueTo(i)' = MEP!DueTo(i)
      BY <1>5 DEF Quiet, MEP!StillIn, MEP!DueTo, MEP!Matching
    <3> QED BY <1>5, <3>1, InBookStands DEF MEP!Left, Quiet
  <2>2. Owes(i)' = Owes(i) /\ Adds(g, y) /\ acks'.lost = acks.lost
    BY <1>1, <1>4, <1>5, OwesSame, AddsSame DEF Quiet
  <2> QED BY <1>2, <1>3, <2>1, <2>2
<1>6. CASE Begins
  <2>1. PICK d \in Nat : MEP!Left(i)' = MEP!Left(i) + d /\ Owes(i)' = Owes(i) + d
    BY <1>6, BeginsGains
  <2>2. Adds(g, y) /\ acks'.lost = acks.lost
    BY <1>1, <1>6, AddsSame DEF Begins
  <2>3. y \in Nat /\ y + l <= o /\ (acks.lost = {} => y + l = o)
    BY <1>3, <2>2
  <2> QED BY <1>2, <2>1, <2>2, <2>3
<1>7. CASE Handled
  <2>1. Owes(i)' = o
    BY <1>2, <1>4, <1>7, OwesSame DEF Handled
  <2>2. MEP!Accounted /\ acks.sent \in Seq(MEP!AckMessage)
    <3>1. MEP!Accounted
      BY <1>7, EngineConstants, MEP!AccountStep
      DEF Handled, ProgramInv, ClientParts, MEP!MatchingEngineAssumption
    <3> QED BY <3>1 DEF ProgramInv, MEP!EngineInv, MEP!QueuesTypeOK, MEP!AckMessage
  <2>3. CASE acks'.sent = acks.sent /\ acks'.lost = acks.lost /\ m = l
    BY <1>1, <1>2, <1>3, <2>1, <2>3, AddsSame
  <2>4. CASE acks'.sent = acks.sent /\ acks'.lost # {} /\ m <= l
    <3>1. y \in Nat /\ y + l <= o
      BY <1>1, <1>3, <2>4, AddsSame
    <3> QED BY <1>2, <2>1, <2>4, <3>1
  <2>5. ASSUME NEW a \in MEP!AckMessage, acks'.sent = Append(acks.sent, a),
               acks'.lost = acks.lost, m + MEP!TradedBy(a, i) = l
        PROVE  /\ y \in Nat /\ y + MEP!Left(i)' <= Owes(i)'
               /\ acks'.lost = {} => y + MEP!Left(i)' = Owes(i)'
    <3>1. PICK x : Adds(g, x) /\ y = x + g[a]
      BY <1>1, <2>2, <2>5, AddsOne
    <3>2. PICK t \in Nat : t = g[a] /\ t = MEP!TradedBy(a, i)
      <4>1. MEP!TradedBy(a, i) \in Nat
        BY DEF MEP!TradedBy, MEP!AckMessage
      <4> QED BY <1>1, <4>1 DEF Traded
    <3>3. x \in Nat /\ x + l <= o /\ (acks.lost = {} => x + l = o)
      BY <1>3, <3>1
    <3>4. y = x + t /\ m + t = l
      BY <2>5, <3>1, <3>2
    <3>5. y \in Nat /\ y + m = x + l
      BY <3>3, <3>4
    <3> QED BY <1>2, <2>1, <2>5, <3>3, <3>5
  <2> QED BY <1>1, <1>2, <2>2, <2>3, <2>4, <2>5 DEF MEP!Accounted
<1> QED BY <1>4, <1>5, <1>6, <1>7

(* What an order's trade is worth, buys counting against sells.            *)
Signed(i, n) == IF TestStore[i + 1].order_type = "b" THEN n ELSE - n

SignedTrades ==
  [a \in MEP!AckMessage |-> IF a.status = "T" THEN Signed(a.system_id, a.quantity) ELSE 0]

(* What was told of buys is what was told of sells, but for the trade of   *)
(* which only one side was told yet.                                       *)
Even ==
  acks.lost = {} =>
    \A g, x : g = SignedTrades /\ Adds(g, x) =>
      x = IF pc = "told" THEN Signed(order.system_id, pending.entry.quantity) ELSE 0

LEMMA EvenStep ==
  ASSUME ProgramInv, SlotsNumbered, SidesNumbered, ClientParts, Even, [Next]_vars
  PROVE  Even'
<1>1. SUFFICES ASSUME acks'.lost = {}, NEW g, NEW y, g = SignedTrades, Adds(g, y)'
               PROVE  y = IF pc' = "told"
                          THEN Signed(order'.system_id, pending'.entry.quantity) ELSE 0
  BY DEF Even, SignedTrades, Signed
<1>2. ASSUME NEW x, Adds(g, x), acks.lost = {}
      PROVE  x = IF pc = "told" THEN Signed(order.system_id, pending.entry.quantity) ELSE 0
  BY <1>1, <1>2 DEF Even
<1>3. Quiet \/ Begins \/ Handled
  BY StepKinds
<1>4. CASE Quiet
  BY <1>1, <1>2, <1>4, AddsSame DEF Quiet, Signed
<1>5. CASE Begins
  <2>1. pc = "idle" /\ pc' # "told"
    <3>1. lob.sent[Begun + 1] \in GWP!LOBOrder
      BY <1>5, QueueTypes DEF ProgramInv, Begins
    <3> QED BY <1>5, <3>1 DEF Begins, InSlot, GWP!LOBOrder, MEP!Handler
  <2> QED BY <1>1, <1>2, <1>5, <2>1, AddsSame DEF Begins
<1>6. CASE Handled
  <2>1. MEP!Accounted /\ acks.sent \in Seq(MEP!AckMessage)
    <3>1. MEP!Accounted
      BY <1>6, EngineConstants, MEP!AccountStep
      DEF Handled, ProgramInv, ClientParts, MEP!MatchingEngineAssumption
    <3> QED BY <3>1 DEF ProgramInv, MEP!EngineInv, MEP!QueuesTypeOK, MEP!AckMessage
  <2>2. CASE acks'.sent = acks.sent /\ acks'.lost = acks.lost /\ MEP!TellsNoTrade
    BY <1>1, <1>2, <2>2, AddsSame DEF MEP!TellsNoTrade
  <2>3. ASSUME NEW a \in MEP!AckMessage, acks'.sent = Append(acks.sent, a),
               acks'.lost = acks.lost, MEP!Tells(a)
        PROVE  y = IF pc' = "told"
                   THEN Signed(order'.system_id, pending'.entry.quantity) ELSE 0
    <3>1. PICK x : Adds(g, x) /\ y = x + g[a]
      BY <1>1, <2>1, <2>3, AddsOne
    <3>2. /\ x = IF pc = "told" THEN Signed(order.system_id, pending.entry.quantity) ELSE 0
          /\ g[a] = IF a.status = "T" THEN Signed(a.system_id, a.quantity) ELSE 0
      BY <1>1, <1>2, <2>3, <3>1 DEF SignedTrades
    <3>3. CASE pc' = "told"
      <4>1. /\ pc # "told" /\ a.status = "T" /\ a.system_id = order.system_id
            /\ a.quantity = pending'.entry.quantity
        BY <2>3, <3>3 DEF MEP!Tells, MEP!TellsTrade
      <4>2. order'.system_id = order.system_id
        <5>1. order' # None
          <6>1. MEP!EngineInv'
            BY ProgramStep, KeptSuffices DEF ProgramInv
          <6> QED BY <3>3, <6>1 DEF MEP!EngineInv, MEP!HandlerTypeOK
        <5>2. PICK n : order' = [order EXCEPT !.quantity = n]
          BY <1>6, <5>1, EngineConstants, MEP!EngineSeen
          DEF Handled, ProgramInv, MEP!MatchingEngineAssumption, MEP!RequestShrinks
        <5>3. order \in MEP!LOBOrder
          <6>1. pc # "idle"
            BY <1>6, <3>3 DEF Handled, MEP!Engine, MEP!TradeNext, MEP!StopMatching, MEP!EnterLevel,
              MEP!TellResting, MEP!LeaveLevel, MEP!Settle, MEP!RestOrder, MEP!UpdateIgnored,
              MEP!UpdatePrice, MEP!UpdateQuantity, MEP!DeleteResting, MEP!Publish, MEP!Finish,
              MEP!Undefined
          <6> QED BY <6>1, EngineConstants, MEP!InHand
            DEF ProgramInv, MEP!EngineInv, MEP!MatchingEngineAssumption
        <5> QED BY <5>2, <5>3 DEF MEP!LOBOrder
      <4>3. a.quantity \in Nat
        BY DEF MEP!AckMessage
      <4> QED BY <3>1, <3>2, <3>3, <4>1, <4>2, <4>3 DEF Signed
    <3>4. CASE pc = "told"
      <4>1. /\ pc' # "told" /\ a.status = "T" /\ a.system_id = pending.entry.system_id
            /\ a.quantity = pending.entry.quantity /\ a.quantity \in Nat /\ a.system_id \in MEP!Ids
        BY <2>3, <3>4 DEF MEP!Tells, MEP!TellsTrade, MEP!AckMessage
      <4>2. PICK s \in MEP!Sides : s = MEP!Other(order.order_type) /\ MEP!Rests(s, a.system_id)
        BY <3>4, <4>1 DEF ClientParts, MEP!PendingOpposite, MEP!Other, MEP!Sides
      <4>3. TestStore[a.system_id + 1].order_type = s
        BY <4>1, <4>2 DEF SidesNumbered
      <4>4. /\ TestStore[order.system_id + 1].order_type = order.order_type
            /\ order.order_type \in {"b", "s"}
        BY <3>4, OrderNumbered, EngineConstants, MEP!InHand
        DEF ProgramInv, MEP!EngineInv, MEP!MatchingEngineAssumption
      <4> QED BY <3>1, <3>2, <3>4, <4>1, <4>2, <4>3, <4>4 DEF Signed, MEP!Other
    <3>5. CASE pc # "told" /\ pc' # "told"
      BY <2>3, <3>1, <3>2, <3>5 DEF MEP!Tells, MEP!TellsNoTrade
    <3> QED BY <3>3, <3>4, <3>5
  <2> QED BY <1>1, <2>1, <2>2, <2>3 DEF MEP!Accounted
<1> QED BY <1>3, <1>4, <1>5, <1>6

LEMMA AccountsInvariant ==
  ASSUME \A i \in DOMAIN TestStore : TestStore[i].req_type = "c"
  PROVE  Spec => [](/\ ProgramInv /\ HandNumbered /\ SlotsNumbered /\ SidesNumbered
                    /\ Accounts /\ Even)
<1>1. Init => /\ HandNumbered /\ SlotsNumbered /\ SidesNumbered /\ Accounts /\ Even
              /\ MEP!OnlyCreates /\ MEP!PendingOpposite
  <2> SUFFICES ASSUME Init
               PROVE  /\ HandNumbered /\ SlotsNumbered /\ SidesNumbered /\ Accounts /\ Even
                      /\ MEP!OnlyCreates /\ MEP!PendingOpposite
    OBVIOUS
  <2>1. /\ lob = [sent |-> <<>>, read |-> 0] /\ engine = "wait" /\ pc = "idle"
        /\ acks.sent = <<>> /\ order = None /\ inHand = None /\ next_system_id = 0
        /\ requests.sniper.read = 0
    BY DEF Init, GW!InitThreads, ME!Init, GW!Sources
  <2>2. HandNumbered /\ SlotsNumbered
    BY <2>1 DEF HandNumbered, SlotsNumbered, GWP!SystemIds
  <2>3. \A i \in MEP!Ids : ~ MEP!Rests("b", i) /\ ~ MEP!Rests("s", i)
    BY DEF Init, ME!Init, ME!Buy!BookInit, ME!Sell!BookInit, ME!Buy!NoSlot, ME!Sell!NoSlot,
      ME!Ids, MEP!Ids, MEP!Rests, MEP!Slot, MEP!NoSlot, MEP!Buy!NoSlot
  <2>4. SidesNumbered
    BY <2>3 DEF SidesNumbered, MEP!Sides
  <2>5. ASSUME NEW i \in MEP!Ids
        PROVE  MEP!Left(i) = 0 /\ Owes(i) = 0
    <3>1. MEP!InBook(i) = 0
      BY <2>3, <2>5 DEF MEP!InBook, MEP!Buy!RestingQuantity, MEP!Sell!RestingQuantity,
        MEP!Buy!Resting, MEP!Sell!Resting, MEP!Rests, MEP!Slot, MEP!NoSlot, MEP!Buy!NoSlot,
        MEP!Sell!NoSlot
    <3>2. MEP!StillIn(i) = 0 /\ MEP!DueTo(i) = 0
      BY <2>1 DEF MEP!StillIn, MEP!DueTo, MEP!Matching
    <3>3. Begun = 0
      BY <2>1 DEF Begun
    <3> QED BY <3>1, <3>2, <3>3 DEF MEP!Left, Owes
  <2>6. Accounts
    BY <2>1, <2>5, AddsNothing DEF Accounts
  <2>7. Even
    BY <2>1, AddsNothing DEF Even
  <2> QED BY <2>1, <2>2, <2>4, <2>6, <2>7 DEF MEP!OnlyCreates, MEP!PendingOpposite
<1>2. ProgramInv /\ MEP!OnlyCreates /\ MEP!PendingOpposite /\ [Next]_vars
        => MEP!OnlyCreates' /\ MEP!PendingOpposite'
  <2>1. \A q \in {Asked(TestStore[i]) : i \in DOMAIN TestStore} : q.req_type = "c"
    BY DEF Asked
  <2> QED BY <2>1, ProgramStep, EngineConstants, MEP!OnlyCreatesStep, MEP!PendingOppositeStep
    DEF ProgramInv, Kept, MEP!EngineInv, MEP!MatchingEngineAssumption
<1>3. Spec => []MEP!CursorLeads
  <2>1. MEP!Spec => []MEP!ClientInv
    BY EngineConstants, MEP!ClientInvariant DEF MEP!MatchingEngineAssumption
  <2>2. MEP!ClientInv => MEP!CursorLeads
    BY DEF MEP!ClientInv
  <2> QED BY EngineOfProgram, <2>1, <2>2, PTL
<1>4. /\ ProgramInv /\ HandNumbered /\ SlotsNumbered /\ SidesNumbered /\ Accounts /\ Even
      /\ MEP!CursorLeads /\ MEP!OnlyCreates /\ MEP!PendingOpposite /\ MEP!OnlyCreates'
      /\ [Next]_vars
      => HandNumbered' /\ SlotsNumbered' /\ SidesNumbered' /\ Accounts' /\ Even'
  BY HandNumberedStep, SlotsNumberedStep, SidesNumberedStep, AccountsStep, EvenStep DEF ClientParts
<1> QED BY <1>1, <1>2, <1>3, <1>4, ProgramInvariant, PTL DEF Spec

(* What the client is told is what the engine told the gateway, as far as  *)
(* it was relayed.                                                         *)
Weights(n) ==
  [k \in 1 .. Len(userAcks) |->
     IF userAcks[k].order_id = TestStore[n].order_id % Word /\ userAcks[k].status = "T"
     THEN userAcks[k].quantity ELSE 0]

IsTold(sum, n) ==
  sum = [k \in 0 .. Len(userAcks) |->
           IF k = 0 THEN 0
           ELSE sum[k - 1] + IF userAcks[k].order_id = TestStore[n].order_id % Word
                                /\ userAcks[k].status = "T"
                             THEN userAcks[k].quantity ELSE 0]

LEMMA ToldSum ==
  ASSUME ProgramInv, NEW n \in DOMAIN TestStore
  PROVE  SumsTo(Weights(n), Len(userAcks), ToldTraded(n))
<1>1. userAcks \in Seq(GWP!UserAck) /\ Len(userAcks) \in Nat
  BY DEF ProgramInv, GWP!GatewayInv, GWP!ThreadTypes
<1>2. PICK w, L : w = Weights(n) /\ L = Len(userAcks)
  OBVIOUS
<1>3. \A k \in 1 .. L : w[k] \in Int
  <2>1. \A k \in 1 .. L : userAcks[k].quantity \in Nat
    <3>1. \A k \in 1 .. L : userAcks[k] \in GWP!UserAck
      BY <1>1, <1>2
    <3> QED BY <3>1 DEF GWP!UserAck
  <2> QED BY <1>2, <2>1 DEF Weights
<1>4. \E f : AddsWeights(f, w, L)
  BY <1>1, <1>2, <1>3, SumsExist
<1>5. \A f : AddsWeights(f, w, L) <=> IsTold(f, n)
  <2>1. \A k \in 0 .. L : k # 0 =>
          w[k] = IF userAcks[k].order_id = TestStore[n].order_id % Word /\ userAcks[k].status = "T"
                 THEN userAcks[k].quantity ELSE 0
    BY <1>1, <1>2 DEF Weights
  <2> QED BY <1>2, <2>1 DEF AddsWeights, IsTold
<1>6. PICK g : g = CHOOSE f : IsTold(f, n)
  OBVIOUS
<1>7. IsTold(g, n)
  BY <1>4, <1>5, <1>6
<1>8. ToldTraded(n) = g[Len(userAcks)]
  BY <1>6, Zenon DEF ToldTraded, IsTold
<1> QED BY <1>2, <1>5, <1>7, <1>8 DEF SumsTo

(* Ids of the client that stay distinct when they are cut. *)
DistinctIds ==
  \A i, j \in DOMAIN TestStore : TestStore[i].order_id % Word = TestStore[j].order_id % Word => i = j

LEMMA WeightsMatch ==
  ASSUME ProgramInv, HandNumbered, DistinctIds, NEW n \in DOMAIN TestStore,
         NEW k \in 1 .. Len(userAcks)
  PROVE  k \in DOMAIN acks.sent /\ Weights(n)[k] = Traded(n - 1)[acks.sent[k]]
<1>1. PICK a \in MEP!AckMessage : a = acks.sent[k] /\ k \in DOMAIN acks.sent
  <2>1. acks.sent \in Seq(MEP!AckMessage)
    BY DEF ProgramInv, MEP!EngineInv, MEP!QueuesTypeOK, MEP!AckMessage
  <2>2. Len(userAcks) \in Nat /\ Len(userAcks) <= Len(acks.sent) /\ Len(acks.sent) \in Nat
    BY <2>1 DEF ProgramInv, GWP!GatewayInv, GWP!ThreadTypes, GWP!AcksRelayed
  <2> QED BY <2>1, <2>2
<1>2. a.system_id \in MEP!Ids /\ a.system_id < next_system_id
  BY <1>1 DEF MEP!AckMessage, ProgramInv, GWP!GatewayInv, GWP!AcksRelayed
<1>3. LUT[a.system_id] = TestStore[a.system_id + 1].order_id
  BY <1>2 DEF HandNumbered, MEP!Ids, GWP!SystemIds, MaxOrders, LUTSize
<1>4. userAcks[k] = [order_id |-> LUT[a.system_id] % Word, price |-> a.price,
                     quantity |-> a.quantity, status |-> a.status]
  BY <1>1 DEF ProgramInv, GWP!GatewayInv, GWP!ThreadTypes, GWP!AcksRelayed, GWP!Relayed
<1>5. a.system_id + 1 \in DOMAIN TestStore /\ n \in Nat /\ a.system_id \in Nat
  BY <1>2, StoreTypes DEF MEP!Ids, MaxOrders
<1>6. userAcks[k].order_id = TestStore[n].order_id % Word <=> a.system_id = n - 1
  <2>1. userAcks[k].order_id = TestStore[a.system_id + 1].order_id % Word
    BY <1>3, <1>4
  <2>2. ASSUME userAcks[k].order_id = TestStore[n].order_id % Word
        PROVE  a.system_id + 1 = n
    BY <1>5, <2>1, <2>2 DEF DistinctIds
  <2>3. a.system_id + 1 = n <=> a.system_id = n - 1
    BY <1>5
  <2> QED BY <2>1, <2>2, <2>3
<1>7. Traded(n - 1)[a] = IF a.status = "T" /\ a.system_id = n - 1 THEN a.quantity ELSE 0
  BY DEF Traded, MEP!TradedBy
<1> QED BY <1>1, <1>4, <1>6, <1>7 DEF Weights

(* What the client was told of an order, and what all acknowledgements     *)
(* that were sent tell of it.                                              *)
LEMMA ToldOfSent ==
  ASSUME ProgramInv, HandNumbered, DistinctIds, NEW n \in DOMAIN TestStore
  PROVE  /\ ToldTraded(n) \in Nat
         /\ \E g, y : /\ g = Traded(n - 1) /\ Adds(g, y) /\ ToldTraded(n) <= y
                      /\ Len(userAcks) = Len(acks.sent) => y = ToldTraded(n)
<1>1. PICK v, x, K : v = Weights(n) /\ x = ToldTraded(n) /\ K = Len(userAcks)
  OBVIOUS
<1>2. SumsTo(v, K, x)
  BY <1>1, ToldSum
<1>3. PICK L \in Nat : L = Len(acks.sent) /\ K \in 0 .. L /\ DOMAIN acks.sent = 1 .. L
  <2>1. acks.sent \in Seq(MEP!AckMessage)
    BY DEF ProgramInv, MEP!EngineInv, MEP!QueuesTypeOK, MEP!AckMessage
  <2>2. K \in Nat /\ K <= Len(acks.sent) /\ Len(acks.sent) \in Nat
    BY <1>1, <2>1 DEF ProgramInv, GWP!GatewayInv, GWP!ThreadTypes, GWP!AcksRelayed
  <2> QED BY <2>1, <2>2
<1>4. PICK g, w : g = Traded(n - 1) /\ w = [k \in DOMAIN acks.sent |-> g[acks.sent[k]]]
  OBVIOUS
<1>5. \A k \in 1 .. L : w[k] \in Nat
  <2>1. \A k \in 1 .. L : acks.sent[k] \in MEP!AckMessage
    <3>1. acks.sent \in Seq(MEP!AckMessage)
      BY DEF ProgramInv, MEP!EngineInv, MEP!QueuesTypeOK, MEP!AckMessage
    <3> QED BY <1>3, <3>1
  <2>2. \A a \in MEP!AckMessage : g[a] \in Nat
    BY <1>4 DEF Traded, MEP!TradedBy, MEP!AckMessage
  <2> QED BY <1>3, <1>4, <2>1, <2>2
<1>6. \A k \in 1 .. K : v[k] = w[k]
  BY <1>1, <1>4, WeightsMatch
<1>7. PICK y : SumsTo(w, L, y)
  BY <1>5, SumExists
<1>8. x \in Nat /\ x <= y
  BY ONLY Zenon, <1>2, <1>3, <1>5, <1>6, <1>7, SumOfFewer
<1>9. K = L => y = x
  BY <1>2, <1>3, <1>6, <1>7, SumUnique
<1>10. Adds(g, y)
  BY <1>3, <1>4, <1>7 DEF Adds
<1> QED BY <1>1, <1>3, <1>4, <1>8, <1>9, <1>10

LEMMA SettledFacts ==
  ASSUME ProgramInv, Settled
  PROVE  /\ Len(userAcks) = Len(acks.sent) /\ acks.lost = {} /\ pc = "idle"
         /\ Begun = Len(lob.sent)
<1>1. /\ Len(userAcks) = acks.read + (IF gateway = "release_ack" THEN 1 ELSE 0)
      /\ Len(userAcks) <= Len(acks.sent) /\ acks.read \in Nat
  BY DEF ProgramInv, GWP!GatewayInv, GWP!AcksRelayed, GWP!ThreadTypes
<1>2. Len(acks.sent) \in Nat
  <2>1. acks.sent \in Seq(MEP!AckMessage)
    BY DEF ProgramInv, MEP!EngineInv, MEP!QueuesTypeOK, MEP!AckMessage
  <2> QED BY <2>1
<1>3. /\ acks.read = Len(acks.sent) /\ acks.lost = {}
      /\ engine # "handling" /\ lob.read = Len(lob.sent)
  BY DEF Settled
<1>4. Len(userAcks) = Len(acks.sent)
  <2>1. PICK u, r, n, x : /\ u = Len(userAcks) /\ r = acks.read /\ n = Len(acks.sent)
                          /\ x = IF gateway = "release_ack" THEN 1 ELSE 0
    OBVIOUS
  <2>2. u = r + x /\ u <= n /\ r = n /\ n \in Nat /\ x \in {0, 1}
    BY <1>1, <1>2, <1>3, <2>1
  <2>3. u = n
    BY <2>2
  <2> QED BY <2>1, <2>3
<1>5. pc = "idle"
  BY <1>3 DEF ProgramInv, SlotInHand
<1>6. Begun = Len(lob.sent)
  BY <1>3, QueueTypes DEF ProgramInv
<1> QED BY <1>3, <1>4, <1>5, <1>6

(* The client, if all its orders are creations and their ids distinct once *)
(* cut to a word, can account for each: through the gateway's numbering,   *)
(* the engine's matching and the relay it is never told of more trades     *)
(* than were made, and in the end of all of them.                          *)
THEOREM ProgramClientAccounts ==
  ASSUME \A i \in DOMAIN TestStore : TestStore[i].req_type = "c", DistinctIds
  PROVE  Spec => []ClientAccounts
<1>1. ASSUME ProgramInv, HandNumbered, SlotsNumbered, Accounts
      PROVE  ClientAccounts
  <2>1. SUFFICES ASSUME NEW n \in Forwarded
                 PROVE  /\ ToldTraded(n) + Rests(n) <= TestStore[n].quantity % Word
                        /\ Settled => ToldTraded(n) + Rests(n) = TestStore[n].quantity % Word
    BY DEF ClientAccounts
  <2>2. PICK m \in DOMAIN lob.sent : n = lob.sent[m].from[2]
    BY <2>1 DEF Forwarded
  <2>3. PICK i \in MEP!Ids : i = lob.sent[m].system_id
    <3>1. lob.sent[m] \in GWP!LOBOrder
      BY <1>1, <2>2, QueueTypes DEF ProgramInv
    <3> QED BY <3>1 DEF GWP!LOBOrder, GWP!SystemIds, MEP!Ids, MaxOrders, LUTSize
  <2>4. n = i + 1 /\ n \in DOMAIN TestStore /\ i = n - 1
    <3>1. lob.sent[m].from = <<"sniper", i + 1>>
      BY <1>1, <2>2, <2>3 DEF SlotsNumbered
    <3> QED BY <2>2, <3>1, StoreTypes DEF MEP!Ids, MaxOrders
  <2>5. PICK x \in Nat, q \in Nat, b \in Nat, s \in Nat, d \in Nat :
          /\ x = ToldTraded(n) /\ q = Quantity(i) /\ b = MEP!InBook(i)
          /\ s = MEP!StillIn(i) /\ d = MEP!DueTo(i)
    BY <1>1, <2>4, ToldOfSent, OwesTypes, EngineConstants, MEP!LeftTypes
    DEF ProgramInv, MEP!MatchingEngineAssumption
  <2>6. MEP!Left(i) = b + s + d
    BY <2>5 DEF MEP!Left
  <2>7. PICK g, y : /\ g = Traded(i) /\ Adds(g, y) /\ x <= y
                    /\ Len(userAcks) = Len(acks.sent) => y = x
    BY <1>1, <2>4, <2>5, ToldOfSent
  <2>8. /\ y \in Nat /\ y + (b + s + d) <= Owes(i)
        /\ acks.lost = {} => y + (b + s + d) = Owes(i)
    BY <1>1, <2>6, <2>7 DEF Accounts
  <2>9. Rests(n) = b
    BY Zenon, <2>4, <2>5 DEF Rests, ME!InBook, MEP!InBook, ME!Buy!RestingQuantity,
      MEP!Buy!RestingQuantity, ME!Sell!RestingQuantity, MEP!Sell!RestingQuantity,
      ME!Buy!Resting, MEP!Buy!Resting, ME!Sell!Resting, MEP!Sell!Resting, ME!Buy!PeekOrder,
      MEP!Buy!PeekOrder, ME!Sell!PeekOrder, MEP!Sell!PeekOrder, ME!Buy!EntryAt,
      MEP!Buy!EntryAt, ME!Sell!EntryAt, MEP!Sell!EntryAt, ME!Buy!NoSlot, MEP!Buy!NoSlot,
      ME!Sell!NoSlot, MEP!Sell!NoSlot
  <2>10. TestStore[n].quantity % Word = q
    BY <2>4, <2>5 DEF Quantity
  <2>11. x + b <= q
    <3>1. Owes(i) = q \/ Owes(i) = 0
      BY <2>5 DEF Owes
    <3> QED BY <2>7, <2>8, <3>1
  <2>12. ASSUME Settled
         PROVE  x + b = q
    <3>1. y = x /\ acks.lost = {} /\ pc = "idle" /\ Begun = Len(lob.sent)
      BY <1>1, <2>7, <2>12, SettledFacts
    <3>2. Owes(i) = q
      <4>1. m \in 1 .. Begun
        BY <1>1, <3>1, QueueTypes DEF ProgramInv
      <4> QED BY <2>3, <2>5, <4>1 DEF Owes
    <3>3. s = 0 /\ d = 0
      BY <2>5, <3>1 DEF MEP!StillIn, MEP!DueTo, MEP!Matching
    <3> QED BY <2>8, <3>1, <3>2, <3>3
  <2> QED BY <2>5, <2>9, <2>10, <2>11, <2>12
<1> QED BY <1>1, AccountsInvariant, PTL

IsTotal(total) ==
  total = [n \in 0 .. Len(TestStore) |->
             IF n = 0 THEN 0
             ELSE total[n - 1] +
               IF TestStore[n].order_type = "b" THEN ToldTraded(n) ELSE - ToldTraded(n)]

(* The client hears of each trade twice, as its buyer and as its seller:   *)
(* in the end the two sides of what it was told are the same.              *)
THEOREM ProgramTradesTwoSides ==
  ASSUME \A i \in DOMAIN TestStore : TestStore[i].req_type = "c", DistinctIds
  PROVE  Spec => []TradesHaveTwoSides
<1>1. ASSUME ProgramInv, HandNumbered, Even, Settled
      PROVE  \E total : IsTotal(total) /\ \A t : IsTotal(t) => t[Len(TestStore)] = 0
  <2>1. PICK N \in Nat, L \in Nat :
          /\ N = Len(TestStore) /\ DOMAIN TestStore = 1 .. N
          /\ L = Len(acks.sent) /\ DOMAIN acks.sent = 1 .. L
          /\ \A k \in 1 .. L : acks.sent[k] \in MEP!AckMessage
    <3>1. acks.sent \in Seq(MEP!AckMessage)
      BY <1>1 DEF ProgramInv, MEP!EngineInv, MEP!QueuesTypeOK, MEP!AckMessage
    <3>2. /\ Len(acks.sent) \in Nat /\ DOMAIN acks.sent = 1 .. Len(acks.sent)
          /\ \A k \in 1 .. Len(acks.sent) : acks.sent[k] \in MEP!AckMessage
      BY <3>1
    <3> QED BY Zenon, <3>2, StoreTypes
  <2>2. acks.lost = {} /\ pc = "idle" /\ Len(userAcks) = L
    BY <1>1, <2>1, SettledFacts
  <2>3. PICK r : r = [n \in 1 .. N |-> IF TestStore[n].order_type = "b" THEN ToldTraded(n)
                                       ELSE - ToldTraded(n)]
    OBVIOUS
  <2>4. PICK c : c = [k \in 1 .. L |-> SignedTrades[acks.sent[k]]]
    OBVIOUS
  <2>5. PICK w : w = [n \in 1 .. N |->
                        [k \in 1 .. L |-> Signed(n - 1, Traded(n - 1)[acks.sent[k]])]]
    OBVIOUS
  <2>6. ASSUME NEW n \in 1 .. N, NEW k \in 1 .. L
        PROVE  w[n][k] \in Int
    <3>1. Traded(n - 1)[acks.sent[k]] \in Nat
      BY <2>1 DEF Traded, MEP!TradedBy, MEP!AckMessage
    <3> QED BY <2>5, <3>1 DEF Signed
  <2>7. ASSUME NEW n \in 1 .. N
        PROVE  r[n] \in Int /\ SumsTo(w[n], L, r[n])
    <3>1. n \in DOMAIN TestStore /\ (n - 1) + 1 = n
      BY <2>1
    <3>2. PICK g, y : g = Traded(n - 1) /\ Adds(g, y) /\ y = ToldTraded(n) /\ y \in Nat
      BY <1>1, <2>1, <2>2, <3>1, ToldOfSent
    <3>3. PICK v : v = [k \in DOMAIN acks.sent |-> g[acks.sent[k]]] /\ SumsTo(v, L, y)
      BY <2>1, <3>2 DEF Adds
    <3>4. PICK u : u = w[n]
      OBVIOUS
    <3>5. \A k \in 1 .. L : u[k] = IF TestStore[n].order_type = "b" THEN v[k] ELSE - v[k]
      BY <2>1, <2>5, <3>1, <3>2, <3>3, <3>4 DEF Signed
    <3>6. CASE TestStore[n].order_type = "b"
      <4>1. \A k \in 1 .. L : v[k] = u[k]
        BY <3>5, <3>6
      <4>2. SumsTo(u, L, y)
        BY <3>3, <4>1, SumOfSame
      <4> QED BY <2>3, <3>2, <3>4, <3>6, <4>2
    <3>7. CASE TestStore[n].order_type # "b"
      <4>1. \A k \in 1 .. L : v[k] \in Int
        BY <2>1, <3>2, <3>3 DEF Traded, MEP!TradedBy, MEP!AckMessage
      <4>2. \A k \in 1 .. L : v[k] \in Int /\ u[k] = - v[k]
        BY <3>5, <3>7, <4>1
      <4>a. Opposite(v, u, L)
        BY <4>2 DEF Opposite
      <4>3. PICK z : SumsTo(u, L, z)
        <5>1. \A k \in 1 .. L : u[k] \in Int
          BY <4>2
        <5> QED BY <5>1, SumExists
      <4>4. z = - y
        BY <3>3, <4>a, <4>3, SumOfNegatives
      <4>5. r[n] = z
        BY <2>3, <3>2, <3>7, <4>4
      <4> QED BY <3>2, <3>4, <4>3, <4>4, <4>5
    <3> QED BY <3>6, <3>7
  <2>8. ASSUME NEW k \in 1 .. L
        PROVE  c[k] \in Int /\ SumsTo([n \in 1 .. N |-> w[n][k]], N, c[k])
    <3>1. PICK a \in MEP!AckMessage : a = acks.sent[k]
      BY <2>1
    <3>2. a.system_id \in 0 .. N - 1 /\ a.quantity \in Nat
      BY <2>1 DEF MEP!AckMessage, MEP!Ids, MaxOrders
    <3>3. PICK m \in 1 .. N : m = a.system_id + 1
      BY <3>2
    <3>4. c[k] = IF a.status = "T" THEN Signed(a.system_id, a.quantity) ELSE 0
      BY <2>4, <3>1 DEF SignedTrades
    <3>5. PICK z \in Int : z = c[k]
      BY <3>2, <3>4 DEF Signed
    <3>6. PICK u : u = [n \in 1 .. N |-> w[n][k]]
      OBVIOUS
    <3>7. ASSUME NEW n \in 1 .. N
          PROVE  u[n] = IF n = m THEN z ELSE 0
      <4>1. u[n] = Signed(n - 1, Traded(n - 1)[a])
        BY <2>5, <3>1, <3>6
      <4>2. Traded(n - 1)[a] = IF a.status = "T" /\ n = m THEN a.quantity ELSE 0
        BY <3>2, <3>3 DEF Traded, MEP!TradedBy
      <4>3. n = m => n - 1 = a.system_id
        BY <3>2, <3>3
      <4> QED BY <3>4, <3>5, <4>1, <4>2, <4>3 DEF Signed
    <3>8. SumsTo(u, N, z)
      BY <3>7, SumOfOne
    <3> QED BY <3>5, <3>6, <3>8
  <2>9. PICK y : SumsTo(c, L, y)
    BY <2>8, SumExists
  <2>10. y = 0
    <3>1. PICK g : g = SignedTrades /\ c = [k \in DOMAIN acks.sent |-> g[acks.sent[k]]]
      BY <2>1, <2>4
    <3>2. Adds(g, y)
      BY <2>1, <2>9, <3>1 DEF Adds
    <3> QED BY <1>1, <2>2, <3>1, <3>2 DEF Even
  <2>11. \A x : SumsTo(r, N, x) => x = 0
    <3>1. IsTable(w, N, L) /\ SumsOfRows(r, w, N, L) /\ SumsOfColumns(c, w, N, L)
      BY <2>6, <2>7, <2>8 DEF IsTable, SumsOfRows, SumsOfColumns
    <3> QED BY <2>9, <2>10, <3>1, SumByColumns
  <2>12. ASSUME NEW t
         PROVE  IsTotal(t) <=> AddsWeights(t, r, N)
    <3>1. \A n \in 0 .. N : n # 0 =>
            r[n] = IF TestStore[n].order_type = "b" THEN ToldTraded(n) ELSE - ToldTraded(n)
      BY <2>3
    <3> QED BY <2>1, <3>1 DEF IsTotal, AddsWeights
  <2>13. \E t : AddsWeights(t, r, N)
    BY <2>7, SumsExist
  <2> QED BY <2>1, <2>11, <2>12, <2>13 DEF SumsTo
<1>2. ASSUME ProgramInv, HandNumbered, Even
      PROVE  TradesHaveTwoSides
  <2>1. SUFFICES ASSUME Settled
                 PROVE  (CHOOSE total : IsTotal(total))[Len(TestStore)] = 0
    BY Zenon DEF TradesHaveTwoSides, IsTotal
  <2>2. IsTotal(CHOOSE total : IsTotal(total))
    BY <1>1, <1>2, <2>1
  <2> QED BY <1>1, <1>2, <2>1, <2>2
<1> QED BY <1>2, AccountsInvariant, PTL

=============================================================================
