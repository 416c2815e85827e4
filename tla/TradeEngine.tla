---------------------------- MODULE TradeEngine ----------------------------
(***************************************************************************)
(* The whole program: main.cpp and the threads it creates, starts, ends    *)
(* and joins.                                                              *)
(*                                                                         *)
(* The client and the gateway are those of OrderGateway, the engine is     *)
(* that of MatchingEngine, and threads start as in ThreadStart.  The       *)
(* request in the engine's hand is the slot at the head of the queue the   *)
(* gateway writes; the acknowledgements the engine sends are those the     *)
(* gateway relays.  Of the logger only its end matters here.               *)
(***************************************************************************)
EXTENDS Integers, Sequences, FiniteSets

CONSTANTS
  TestStore, SniperSlots, LobSlots, AckSlots, UserAckSlots, FeedSlots,
  MaxPrice, Prices, PriceIndex, Word, None

MakerStore == <<>>       \* main.cpp makes a queue for market makers and no writer
MakerSlots == SniperSlots
LUTSize == Len(TestStore)
MaxOrders == Len(TestStore)
MaxAcks == 0             \* no acknowledgements but the engine's
Threads == {"engine", "gateway", "alpha", "logger"}

VARIABLES
  caller, body,                                     \* ThreadStart
  main, flags,                                      \* main
  alpha, gateway, requests, inHand, sentLog, next_system_id, LUT,
  lob, dropped, acks, userAcks,                     \* OrderGateway
  engine,                                           \* where matchingEngine() is
  buy_best_price, buy_book, buy_LUT, buy_active_counts,
  sell_best_price, sell_book, sell_LUT, sell_active_counts,
  pc, order, cursor, pending, feed,                 \* MatchingEngine
  logger                                            \* where the logger's run() is

GW == INSTANCE OrderGateway

ME == INSTANCE MatchingEngine WITH
  Quantities <- {TestStore[i].quantity % Word : i \in DOMAIN TestStore},
  Traders <- {1}, Requests <- {}, MaxRequests <- Len(TestStore), MaxGap <- 0,
  nextId <- next_system_id, reads <- 0

Start == INSTANCE ThreadStart

(* The client sends the orders of one trader, the sniper.                  *)
ASSUME TradeEngineAssumption ==
  /\ TestStore \in Seq(GW!UserOrder)
  /\ \A i \in DOMAIN TestStore : TestStore[i].trader_id = 1
  /\ {SniperSlots, LobSlots, AckSlots, UserAckSlots, FeedSlots} \subseteq Nat
  /\ MaxPrice \in Nat \ {0} /\ PriceIndex \in [Prices -> Nat] /\ Word \in Nat \ {0}
  /\ None \notin GW!LOBOrder \cup GW!Handled \cup ME!LOBOrder \cup ME!Change

startVars == <<caller, body>>
gatewayVars == <<alpha, gateway, requests, inHand, sentLog, next_system_id, LUT, dropped, userAcks>>
bookVars ==
  <<buy_best_price, buy_book, buy_LUT, buy_active_counts,
    sell_best_price, sell_book, sell_LUT, sell_active_counts>>
engineVars == <<engine, bookVars, pc, order, cursor, pending, feed>>
queueVars == <<lob, acks>>
vars == <<startVars, main, flags, gatewayVars, engineVars, queueVars, logger>>

Init ==
  /\ Start!Init /\ main = 1
  /\ GW!InitThreads /\ ME!Init
  /\ engine = "wait" /\ logger = "opening"

Runs(t) == body[t] = "called"

-----------------------------------------------------------------------------
(* The engine's thread. *)

EngineMoves(from, to) ==
  /\ engine = from
  /\ engine' = to
  /\ UNCHANGED <<startVars, main, flags, gatewayVars, queueVars, logger,
                 bookVars, pc, order, cursor, pending, feed>>

EngineLooksForStart ==
  EngineMoves("wait", IF "start_engine" \in flags THEN "loop" ELSE "check")

EngineLooksForEnd ==
  EngineMoves("check", IF "terminate_engine" \in flags THEN "done" ELSE "wait")

NextPoll ==
  EngineMoves("loop", IF "terminate_engine" \in flags THEN "report" ELSE "poll")

NothingToRead == lob.read = Len(lob.sent) /\ EngineMoves("poll", "loop")

(* The request is handled where it is, in its slot. *)
AtHead == lob.sent[lob.read + 1]

InSlot(e) ==
  [system_id |-> e.system_id, price |-> e.price, quantity |-> e.quantity,
   trade_id |-> e.trade_id, order_type |-> e.order_type, req_type |-> e.req_type]

ReadOrder ==
  /\ engine = "poll"
  /\ lob.read < Len(lob.sent)
  /\ ME!ReadOrder(InSlot(AtHead))
  /\ engine' = "handling"
  /\ UNCHANGED <<startVars, main, flags, gatewayVars, lob, logger>>

(* A step of the handler; its last one releases the slot. *)
Handle ==
  /\ engine = "handling"
  /\ ME!Engine
  /\ IF order' = None
     THEN lob' = [lob EXCEPT !.read = @ + 1] /\ engine' = "loop"
     ELSE lob' = [lob EXCEPT !.sent[lob.read + 1].quantity = order'.quantity]
          /\ UNCHANGED engine
  /\ UNCHANGED <<startVars, main, flags, alpha, gateway, requests, inHand, sentLog, LUT,
                 dropped, userAcks, logger>>

(* The benchmark report reads the first of the times between two requests: *)
(* there is none before the second.                                        *)
Report == EngineMoves("report", IF lob.read < 2 THEN "undefined" ELSE "done")

Engine ==
  /\ Runs("engine")
  /\ \/ EngineLooksForStart \/ EngineLooksForEnd \/ NextPoll \/ NothingToRead
     \/ ReadOrder \/ Handle \/ Report

-----------------------------------------------------------------------------
(* The other threads. *)

Gateway ==
  /\ Runs("gateway")
  /\ GW!Gateway
  /\ UNCHANGED <<startVars, engineVars, logger>>

Alpha ==
  /\ Runs("alpha")
  /\ GW!Alpha
  /\ UNCHANGED <<startVars, engineVars, logger>>

(* The logger ends once it has been stopped, or at once when it cannot open*)
(* its file.  That its batches end is shown with the module Logger.        *)
Logger ==
  /\ Runs("logger")
  /\ \/ logger = "opening" /\ logger' \in {"loop", "done"}
     \/ logger = "loop" /\ "stop_logger" \in flags /\ logger' = "done"
  /\ UNCHANGED <<startVars, main, flags, gatewayVars, engineVars, queueVars>>

NewThreads ==
  /\ \E t \in Threads : Start!SetThreadCore(t) \/ Start!CallFunction(t)
  /\ UNCHANGED <<main, flags, gatewayVars, engineVars, queueVars, logger>>

-----------------------------------------------------------------------------
(* main, statement by statement. *)

Program ==
  <<<<"create", "engine">>, <<"create", "gateway">>, <<"create", "alpha">>,
    <<"create", "logger">>,
    <<"set", "start_engine">>, <<"set", "start_gateway">>, <<"set", "start_alpha">>,
    <<"set", "terminate_engine">>, <<"set", "terminate_gateway">>,
    <<"set", "terminate_alpha">>,
    <<"join", "alpha">>, <<"join", "gateway">>, <<"join", "engine">>,
    <<"set", "stop_logger">>, <<"join", "logger">>>>

Ended == Len(Program) + 1

Flags == {Program[n][2] : n \in {k \in DOMAIN Program : Program[k][1] = "set"}}

Undefined == 0      \* main after the join of a null pointer

Statement(op) == main \in DOMAIN Program /\ Program[main][1] = op

Arg == Program[main][2]

Elsewhere == <<flags, gatewayVars, engineVars, queueVars, logger>>

Create ==
  /\ Statement("create")
  /\ Start!Create(Arg)
  /\ UNCHANGED <<main, Elsewhere>>

Created ==
  /\ Statement("create")
  /\ Start!Return(Arg)
  /\ main' = main + 1
  /\ UNCHANGED Elsewhere

Set ==
  /\ Statement("set")
  /\ GW!MainSets(main, Arg, main + 1)
  /\ UNCHANGED <<startVars, engineVars, logger>>

Place == [engine |-> engine, gateway |-> gateway, alpha |-> alpha, logger |-> logger]

(* The handle is used whether or not there is a thread behind it. *)
Join ==
  /\ Statement("join")
  /\ \/ Place[Arg] = "done" /\ main' = main + 1
     \/ Start!IsNull(Arg) /\ main' = Undefined
  /\ UNCHANGED <<startVars, Elsewhere>>

Main == Create \/ Created \/ Set \/ Join

Next == Main \/ NewThreads \/ Engine \/ Gateway \/ Alpha \/ Logger

Spec == Init /\ [][Next]_vars

(* Every thread is scheduled again and again, and a thread once made       *)
(* begins to run.                                                          *)
FairSpec ==
  /\ Spec
  /\ WF_vars(Main) /\ WF_vars(NewThreads) /\ WF_vars(Logger)
  /\ WF_vars(Engine) /\ WF_vars(Gateway) /\ WF_vars(Alpha)

-----------------------------------------------------------------------------
(* Properties. *)

(* Every variable has its type; a thread that has left its first loop was  *)
(* made, and a request is in its slot for as long as it is handled.        *)
ProgramTypeOK ==
  /\ main \in 0 .. Ended
  /\ flags \subseteq Flags
  /\ Start!StartTypeOK
  /\ GW!ThreadTypeOK
  /\ engine \in {"wait", "check", "loop", "poll", "handling", "report", "done", "undefined"}
  /\ logger \in {"opening", "loop", "done"}
  /\ ME!EngineTypeOK
  /\ (pc # "idle") = (engine = "handling")
  /\ \A t \in Threads : Place[t] \in {"wait", "opening"} \/ Runs(t)

UndefinedAccess ==
  \/ main = Undefined \/ pc = "undefined"
  \/ "undefined" \in {gateway, engine} \/ \E t \in Threads : body[t] = "undefined"

(* The program ends, however its threads are interleaved with the flags:   *)
(* no thread waits for a queue or a flag that the others have left, as     *)
(* long as the client's queue and the market data hold all that the client *)
(* sends; unless an unchecked access comes first.                          *)
ShutdownCompletes == main = 1 ~> main = Ended \/ UndefinedAccess

(* What the client is told was traded of its n-th order. *)
ToldTraded(n) ==
  LET id == TestStore[n].order_id % Word
      sum[k \in 0 .. Len(userAcks)] ==
        IF k = 0 THEN 0
        ELSE sum[k - 1] + IF userAcks[k].order_id = id /\ userAcks[k].status = "T"
                          THEN userAcks[k].quantity ELSE 0
  IN  sum[Len(userAcks)]

(* What rests of it: the gateway numbers the orders from zero. *)
Rests(n) == ME!InBook(n - 1)

(* The requests the engine has begun, and their order. *)
Begun == lob.read + IF engine = "handling" THEN 1 ELSE 0

(* The id after that of the youngest of them. *)
NextId == IF Begun = 0 THEN 0 ELSE lob.sent[Begun].system_id + 1

Asked(o) ==
  [price |-> o.price, quantity |-> o.quantity % Word, trade_id |-> o.trader_id,
   order_type |-> o.order_type, req_type |-> o.req_type]

Thread == INSTANCE MatchingEngine WITH
  Quantities <- {TestStore[i].quantity % Word : i \in DOMAIN TestStore},
  Traders <- {1}, Requests <- {Asked(TestStore[i]) : i \in DOMAIN TestStore},
  MaxRequests <- Len(TestStore), MaxGap <- Len(TestStore), nextId <- NextId, reads <- Begun

(* In the program the engine's thread does what MatchingEngine lets it do, *)
(* whatever the gateway drops and numbers and however late it takes its    *)
(* acknowledgements: requests come with rising ids, none twice, and the    *)
(* fill in the slot changes none of them that is still to be read.  All    *)
(* that is shown of MatchingEngine holds in the program.                   *)
EngineImplemented == Thread!Spec

(* The orders that reached the engine's queue. *)
Forwarded == {lob.sent[k].from[2] : k \in DOMAIN lob.sent}

(* The engine has nothing left to handle, and every acknowledgement it     *)
(* sent has been relayed; none was lost for lack of room.                  *)
Settled ==
  /\ engine # "handling" /\ lob.read = Len(lob.sent)
  /\ acks.read = Len(acks.sent) /\ acks.lost = {}

(* The client can account for each order: of its quantity it is never told *)
(* more than was traded, and once things are settled, what it was told and *)
(* what rests in the book make up the quantity, as far as 32 bits hold it, *)
(* across the two translations of ids, the fill in the slot and the relay. *)
ClientAccounts ==
  \A n \in Forwarded :
    LET quantity == TestStore[n].quantity % Word IN
    /\ ToldTraded(n) + Rests(n) <= quantity
    /\ Settled => ToldTraded(n) + Rests(n) = quantity

(* All orders are the client's, so that it hears of each trade twice: once *)
(* settled, what it was told of its buys equals what it was told of its    *)
(* sells.                                                                  *)
TradesHaveTwoSides ==
  LET total[n \in 0 .. Len(TestStore)] ==
        IF n = 0 THEN 0
        ELSE total[n - 1] +
          IF TestStore[n].order_type = "b" THEN ToldTraded(n) ELSE - ToldTraded(n)
  IN  Settled => total[Len(TestStore)] = 0

=============================================================================
