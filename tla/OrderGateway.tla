---------------------------- MODULE OrderGateway ----------------------------
(***************************************************************************)
(* The gateway thread (order_gateway/order_gateway.cpp), the client that   *)
(* feeds it (alpha_tester.cpp) and the flags with which main.cpp starts    *)
(* and ends them.                                                          *)
(*                                                                         *)
(* The rings are FIFO queues, which is what LFQueue shows them to be.  A   *)
(* queue is kept with its history: what was sent and how much was read.    *)
(* The engine is the environment: it takes orders and acknowledges them.   *)
(* Of the log messages only the copy of a forwarded request is kept: it is *)
(* read from the slot the engine already works on.                         *)
(***************************************************************************)
EXTENDS Integers, Sequences, FiniteSets

CONSTANTS
  TestStore,    \* the orders the client sends
  MakerStore,   \* the orders the market makers send; main.cpp connects none
  SniperSlots, MakerSlots, LobSlots, AckSlots, UserAckSlots,  \* room in the rings
  LUTSize,      \* size_: entries of the gateway's LUT
  Prices,       \* the prices of orders
  Word,         \* 2^32: LOBOrder.quantity and UserAck.order_id are narrower than the
                \* 64-bit fields of UserOrder
  MaxAcks,      \* bound of the model: acknowledgements of the engine
  None          \* no order in hand

UserOrder ==
  [order_id : Nat, trader_id : Nat, order_type : {"b", "s"}, req_type : {"c", "u", "d"},
   price : Prices, quantity : Nat]

Sources == {"sniper", "maker"}

(* The places of orders in the two queues. *)
Places == {<<s, i>> : s \in Sources, i \in 1 .. Len(TestStore) + Len(MakerStore)}

SystemIds == 0 .. LUTSize - 1

(* An order as it is forwarded, and the order the gateway handles. *)
LOBOrder ==
  [system_id : SystemIds, price : Prices, quantity : 0 .. Word - 1, trade_id : Nat,
   order_type : {"b", "s"}, req_type : {"c", "u", "d"}, from : Places]

Handled == [source : Sources, system_id : SystemIds]

(* The acknowledgements from the engine, whose prices may be levels of the *)
(* book, and those to the client. *)
Statuses == {"N", "U", "D", "T"}

LOBAck ==
  [system_id : SystemIds, price : Prices \cup Nat, quantity : Nat, status : Statuses]

UserAck ==
  [order_id : 0 .. Word - 1, price : Prices \cup Nat, quantity : Nat, status : Statuses]

ASSUME OrderGatewayAssumption ==
  /\ TestStore \in Seq(UserOrder) /\ MakerStore \in Seq(UserOrder)
  /\ {SniperSlots, MakerSlots, LobSlots, AckSlots, UserAckSlots} \subseteq Nat
  /\ LUTSize \in Nat /\ MaxAcks \in Nat /\ Word \in Nat \ {0}
  /\ None \notin LOBOrder \cup Handled

VARIABLES
  flags,     \* the start and terminate flags that are set
  main,      \* where main is
  alpha,     \* where the client is; it has sent requests.sniper.sent orders
  gateway,   \* where the gateway is
  requests,  \* the two queues of user orders: how many were sent and read
  inHand,    \* the order the gateway handles: its queue and its system id
  sentLog,   \* the copy of the forwarded request for the log
  next_system_id,
  LUT,       \* system id -> order id
  lob,       \* the queue to the engine
  dropped,   \* the orders that found that queue full
  acks,      \* the queue from the engine
  userAcks   \* the queue to the client, which never reads it

idVars == <<next_system_id, LUT>>
outVars == <<lob, dropped, acks, userAcks>>
vars == <<flags, main, alpha, gateway, requests, inHand, sentLog, idVars, outVars>>

Store == [sniper |-> TestStore, maker |-> MakerStore]
Slots == [sniper |-> SniperSlots, maker |-> MakerSlots]

HasRoom(q, slots) == Len(q.sent) - q.read < slots

HasRequest(s) == requests[s].read < requests[s].sent

(* The order at the head of a queue of user orders. *)
HeadOf(s) == Store[s][requests[s].read + 1]

(* The gateway, the client and the queues they write. *)
InitThreads ==
  /\ flags = {} /\ alpha = "wait" /\ gateway = "wait"
  /\ requests = [s \in Sources |-> [sent |-> 0, read |-> 0]]
  /\ inHand = None /\ sentLog = None
  /\ next_system_id = 0 /\ LUT = [id \in SystemIds |-> 0]
  /\ lob = [sent |-> <<>>, read |-> 0] /\ dropped = {} /\ userAcks = <<>>

Init == InitThreads /\ main = "starting" /\ acks = [sent |-> <<>>, read |-> 0]

-----------------------------------------------------------------------------
(* main sets the flags one after the other. *)

MainSets(from, flag, to) ==
  /\ main = from
  /\ flags' = flags \cup {flag}
  /\ main' = to
  /\ UNCHANGED <<alpha, gateway, requests, inHand, sentLog, idVars, outVars>>

MainStarts ==
  \/ MainSets("starting", "start_gateway", "started")
  \/ MainSets("started", "start_alpha", "running")

MainEnds ==
  \/ MainSets("running", "terminate_gateway", "told")
  \/ MainSets("told", "terminate_alpha", "joining")

Main == MainStarts \/ MainEnds

-----------------------------------------------------------------------------
(* The client.  While it waits for its start it looks at the start flag    *)
(* and, in a second access, at the terminate flag; once it sends it looks  *)
(* at neither.                                                             *)

AlphaMoves(from, to) ==
  /\ alpha = from
  /\ alpha' = to
  /\ UNCHANGED <<flags, main, gateway, requests, inHand, sentLog, idVars, outVars>>

AlphaLooksForStart ==
  IF "start_alpha" \in flags THEN AlphaMoves("wait", "send") ELSE AlphaMoves("wait", "check")

AlphaLooksForEnd ==
  IF "terminate_alpha" \in flags THEN AlphaMoves("check", "done") ELSE AlphaMoves("check", "wait")

(* A participant hands an order over when its queue has room for it. *)
SlotFreeWithOneSpare(s) ==       \* mutant: one slot of the ring is never used
  requests[s].sent - requests[s].read < Slots[s] - 1

SlotFree(s) == requests[s].sent - requests[s].read < Slots[s]

Send(s) ==
  /\ requests[s].sent < Len(Store[s])
  /\ SlotFree(s)
  /\ requests' = [requests EXCEPT ![s].sent = @ + 1]
  /\ UNCHANGED <<flags, main, alpha, gateway, inHand, sentLog, idVars, outVars>>

AlphaSends == alpha = "send" /\ Send("sniper")

AlphaReturns == requests.sniper.sent = Len(TestStore) /\ AlphaMoves("send", "done")

Alpha == AlphaLooksForStart \/ AlphaLooksForEnd \/ AlphaSends \/ AlphaReturns

MakerSends == Send("maker")

-----------------------------------------------------------------------------
(* The gateway.  Each round it takes at most one order of each queue and   *)
(* relays at most one acknowledgement.                                     *)

GatewayMoves(from, to) ==
  /\ gateway = from
  /\ gateway' = to
  /\ UNCHANGED <<flags, main, alpha, requests, inHand, sentLog, idVars, outVars>>

GatewayLooksForStart ==
  IF "start_gateway" \in flags THEN GatewayMoves("wait", "loop") ELSE GatewayMoves("wait", "check")

GatewayLooksForEnd ==
  IF "terminate_gateway" \in flags
  THEN GatewayMoves("check", "done") ELSE GatewayMoves("check", "wait")

NextRoundAcksFirst ==           \* mutant: no order is taken while there is an acknowledgement
  IF "terminate_gateway" \in flags THEN GatewayMoves("loop", "report")
  ELSE GatewayMoves("loop", IF acks.read < Len(acks.sent) THEN "ack" ELSE "sniper")

NextRound ==
  IF "terminate_gateway" \in flags
  THEN GatewayMoves("loop", "report") ELSE GatewayMoves("loop", "sniper")

(* The benchmark report, which reads the first of the measured times: there*)
(* is one for each request that was forwarded.                             *)
Report == GatewayMoves("report", IF lob.sent = <<>> THEN "undefined" ELSE "done")

AfterSource == [sniper |-> "maker", maker |-> "ack"]

NothingToTake == \E s \in Sources : ~ HasRequest(s) /\ GatewayMoves(s, AfterSource[s])

AssignOneAhead(orderId) ==       \* mutant: the LUT is written after the increment
  /\ next_system_id' = next_system_id + 1
  /\ LUT' = [LUT EXCEPT ![next_system_id + 1] = orderId]

AssignCountsTwice(orderId) ==    \* mutant: next_system_id++ at both of its uses
  /\ next_system_id' = next_system_id + 2
  /\ LUT' = [LUT EXCEPT ![next_system_id] = orderId]

AssignKeepsId(orderId) ==        \* mutant: the increment is forgotten
  /\ UNCHANGED next_system_id
  /\ LUT' = [LUT EXCEPT ![next_system_id] = orderId]

(* AssignSystemId: every request gets the next id, whatever it asks for.   *)
(* The map it also fills is never read: nothing calls GetSystemId.         *)
AssignSystemId(orderId) ==
  /\ next_system_id' = next_system_id + 1
  /\ LUT' = [LUT EXCEPT ![next_system_id] = orderId]

Take ==
  /\ gateway \in Sources
  /\ HasRequest(gateway)
  /\ next_system_id < LUTSize
  /\ AssignSystemId(HeadOf(gateway).order_id)
  /\ inHand' = [source |-> gateway, system_id |-> next_system_id]
  /\ gateway' = "forward"
  /\ UNCHANGED <<flags, main, alpha, requests, sentLog, outVars>>

(* The write to LUT beyond its last entry. *)
TakeOutOfIds ==
  /\ gateway \in Sources
  /\ HasRequest(gateway)
  /\ next_system_id >= LUTSize
  /\ gateway' = "undefined"
  /\ UNCHANGED <<flags, main, alpha, requests, inHand, sentLog, idVars, outVars>>

(* What is forwarded, and the place the order had in its queue. *)
Request(s) ==
  LET order == HeadOf(s) IN
  [system_id |-> inHand.system_id, price |-> order.price, quantity |-> order.quantity % Word,
   trade_id |-> order.trader_id, order_type |-> order.order_type,
   req_type |-> order.req_type, from |-> <<s, requests[s].read + 1>>]

ForwardLogsDropped ==            \* mutant: an order that found no room is logged as sent
  /\ gateway = "forward"
  /\ LET request == Request(inHand.source) IN
       \/ /\ HasRoom(lob, LobSlots)
          /\ lob' = [lob EXCEPT !.sent = Append(@, request)]
          /\ gateway' = "log"
          /\ UNCHANGED dropped
       \/ /\ ~ HasRoom(lob, LobSlots)
          /\ dropped' = dropped \cup {request.from}
          /\ gateway' = "log"
          /\ UNCHANGED lob
  /\ UNCHANGED <<flags, main, alpha, requests, inHand, sentLog, idVars, acks, userAcks>>

Forward ==
  /\ gateway = "forward"
  /\ LET request == Request(inHand.source) IN
       \/ /\ HasRoom(lob, LobSlots)
          /\ lob' = [lob EXCEPT !.sent = Append(@, request)]
          /\ gateway' = "log"
          /\ UNCHANGED dropped
       \/ /\ ~ HasRoom(lob, LobSlots)
          /\ dropped' = dropped \cup {request.from}
          /\ gateway' = "release"
          /\ UNCHANGED lob
  /\ UNCHANGED <<flags, main, alpha, requests, inHand, sentLog, idVars, acks, userAcks>>

(* The copy for the log is read from the slot after its publication: the   *)
(* engine may have taken the request, reduced its quantity, and released   *)
(* it.  With a full log there is no copy.                                  *)
LogSent ==
  /\ gateway = "log"
  /\ sentLog' \in {None, lob.sent[Len(lob.sent)]}
  /\ gateway' = "release"
  /\ UNCHANGED <<flags, main, alpha, requests, inHand, idVars, outVars>>

ReleaseUnlessDropped ==          \* mutant: an order that found no room is read again
  /\ gateway = "release"
  /\ LET s == inHand.source IN
       /\ requests' = [requests EXCEPT ![s].read =
                          IF <<s, @ + 1>> \in dropped THEN @ ELSE @ + 1]
       /\ gateway' = AfterSource[s]
  /\ inHand' = None /\ sentLog' = None
  /\ UNCHANGED <<flags, main, alpha, idVars, outVars>>

(* The order leaves its queue whether or not it was forwarded. *)
Release ==
  /\ gateway = "release"
  /\ LET s == inHand.source IN
       /\ requests' = [requests EXCEPT ![s].read = @ + 1]
       /\ gateway' = AfterSource[s]
  /\ inHand' = None /\ sentLog' = None
  /\ UNCHANGED <<flags, main, alpha, idVars, outVars>>

SystemToOrderId(id) == IF id < LUTSize THEN LUT[id] ELSE -1

(* No acknowledgement, or no room to relay it: it stays where it is. *)
NoAckRelayed ==
  /\ acks.read = Len(acks.sent) \/ Len(userAcks) >= UserAckSlots
  /\ GatewayMoves("ack", "loop")

RelayAck ==
  /\ gateway = "ack"
  /\ acks.read < Len(acks.sent)
  /\ Len(userAcks) < UserAckSlots
  /\ LET ack == acks.sent[acks.read + 1] IN
       userAcks' = Append(userAcks,
         [order_id |-> SystemToOrderId(ack.system_id) % Word, price |-> ack.price,
          quantity |-> ack.quantity, status |-> ack.status])
  /\ gateway' = "release_ack"
  /\ UNCHANGED <<flags, main, alpha, requests, inHand, sentLog, idVars, lob, dropped, acks>>

ReleaseAck ==
  /\ gateway = "release_ack"
  /\ acks' = [acks EXCEPT !.read = @ + 1]
  /\ gateway' = "loop"
  /\ UNCHANGED <<flags, main, alpha, requests, inHand, sentLog, idVars, lob, dropped, userAcks>>

Gateway ==
  \/ GatewayLooksForStart \/ GatewayLooksForEnd \/ NextRound
  \/ NothingToTake \/ Take \/ TakeOutOfIds \/ Forward \/ LogSent \/ Release
  \/ NoAckRelayed \/ RelayAck \/ ReleaseAck \/ Report

-----------------------------------------------------------------------------
(* The engine, as far as the gateway sees it: it reduces the quantity of   *)
(* the request at the head of its queue in place, takes requests in order, *)
(* and acknowledges, any number of times, requests it has begun (whose     *)
(* trader is not looked at here).  No two acknowledgements are the same.   *)

EngineFills ==
  /\ lob.read < Len(lob.sent)
  /\ \E n \in 0 .. lob.sent[lob.read + 1].quantity - 1 :
       lob' = [lob EXCEPT !.sent[lob.read + 1].quantity = n]
  /\ UNCHANGED <<flags, main, alpha, gateway, requests, inHand, sentLog, idVars,
                 dropped, acks, userAcks>>

EngineTakes ==
  /\ lob.read < Len(lob.sent)
  /\ lob' = [lob EXCEPT !.read = @ + 1]
  /\ UNCHANGED <<flags, main, alpha, gateway, requests, inHand, sentLog, idVars,
                 dropped, acks, userAcks>>

EngineAcks ==
  /\ Len(acks.sent) < MaxAcks
  /\ HasRoom(acks, AckSlots)
  /\ \E n \in DOMAIN lob.sent :
       /\ n <= lob.read + 1
       /\ acks' = [acks EXCEPT !.sent = Append(@,
            [system_id |-> lob.sent[n].system_id, price |-> lob.sent[n].price,
             quantity |-> Len(acks.sent) + 1, status |-> "T"])]
  /\ UNCHANGED <<flags, main, alpha, gateway, requests, inHand, sentLog, idVars,
                 lob, dropped, userAcks>>

Next == Main \/ Alpha \/ MakerSends \/ Gateway \/ EngineFills \/ EngineTakes \/ EngineAcks

Spec == Init /\ [][Next]_vars

(* The gateway and the client are scheduled again and again, and main      *)
(* starts them.  When it ends them is left open: it sleeps in between, and *)
(* may never wake.  Nothing is asked of the engine or the market makers.   *)
FairSpec == Spec /\ WF_vars(MainStarts) /\ WF_vars(Alpha) /\ WF_vars(Gateway)

-----------------------------------------------------------------------------
(* Properties. *)

(* What the two threads and their queues hold, with any engine and main. *)
ThreadTypeOK ==
  /\ alpha \in {"wait", "check", "send", "done"}
  /\ gateway \in {"wait", "check", "loop", "sniper", "maker", "forward", "log",
                  "release", "ack", "release_ack", "report", "done", "undefined"}
  /\ requests \in [Sources -> [sent : Nat, read : Nat]]
  /\ \A s \in Sources :
       requests[s].read <= requests[s].sent /\ requests[s].sent <= Len(Store[s])
  /\ inHand \in Handled \cup {None}
  /\ (inHand # None) = (gateway \in {"forward", "log", "release"})
  /\ sentLog \in LOBOrder \cup {None} /\ (sentLog # None => gateway = "release")
  /\ next_system_id \in 0 .. LUTSize /\ LUT \in [SystemIds -> Nat]
  /\ lob \in [sent : Seq(LOBOrder), read : Nat] /\ lob.read <= Len(lob.sent)
  /\ userAcks \in Seq(UserAck)
  /\ dropped \subseteq Places

(* Every variable has its type. *)
GatewayTypeOK ==
  /\ main \in {"starting", "started", "running", "told", "joining"}
  /\ flags \subseteq {"start_gateway", "start_alpha", "terminate_gateway", "terminate_alpha"}
  /\ acks \in [sent : Seq(LOBAck), read : Nat] /\ acks.read <= Len(acks.sent)
  /\ ThreadTypeOK

ForwardedFrom == {lob.sent[n].from : n \in DOMAIN lob.sent}

Taken(s) ==
  requests[s].read +
    IF gateway \in {"log", "release"} /\ inHand.source = s THEN 1 ELSE 0

(* Every order the gateway took was either forwarded, once and in the      *)
(* order of its queue, or dropped, and never both: the release of a slot   *)
(* and the publication of another are two steps on two queues.             *)
ForwardedOnceInOrder ==
  /\ \A m, n \in DOMAIN lob.sent :
       m < n /\ lob.sent[m].from[1] = lob.sent[n].from[1]
         => lob.sent[m].from[2] < lob.sent[n].from[2]
  /\ ForwardedFrom \cap dropped = {}
  /\ ForwardedFrom \cup dropped = {p \in Places : p[2] <= Taken(p[1])}

(* The client receives the engine's acknowledgements complete and in       *)
(* order, each under the id of the one order the engine was answering, as  *)
(* far as 32 bits hold it; however full the queues are and whatever was    *)
(* dropped before.                                                         *)
AcksReachTheirOrder ==
  /\ Len(userAcks) = acks.read + IF gateway = "release_ack" THEN 1 ELSE 0
  /\ \A n \in DOMAIN userAcks :
       LET ack == acks.sent[n] IN
       \A m \in DOMAIN lob.sent :
         LET p == lob.sent[m].from IN
         lob.sent[m].system_id = ack.system_id =>
           userAcks[n] = [order_id |-> Store[p[1]][p[2]].order_id % Word,
                          price |-> ack.price, quantity |-> ack.quantity,
                          status |-> ack.status]

(* The client never reads its acknowledgements, so that the relay stops    *)
(* for ever once their queue is full; the gateway still takes every order  *)
(* of the client, unless it is told to end or runs out of ids.  It need    *)
(* never be told (FairSpec), so that its end cannot stand in for service.  *)
SniperServed ==
  \A n \in 0 .. Len(TestStore) - 1 :
    requests.sniper.sent > n /\ requests.sniper.read = n
      ~> \/ requests.sniper.read > n
         \/ "terminate_gateway" \in flags \/ gateway = "undefined"

(* What the log shows as sent to the engine is the request that was sent,  *)
(* and never a later one in the same slot; only its quantity may already   *)
(* be what the engine left of it.                                          *)
LogShowsOwnRequest ==
  sentLog # None =>
    LET sent == Request(inHand.source) IN
    /\ sentLog = [sent EXCEPT !.quantity = sentLog.quantity]
    /\ sentLog.quantity <= sent.quantity

=============================================================================
