------------------------- MODULE OrderGatewayProofs -------------------------
(***************************************************************************)
(* Theorems about the gateway for every store of orders, every size of the *)
(* rings and every width of the ids.  The argument: an order is in the     *)
(* gateway's hand from the moment it has its system id until its slot is   *)
(* released, and in between its place is the next one of its queue and its *)
(* id the last one given; so that the ids in the queue to the engine are   *)
(* older, their entries of LUT never written again, and the places there   *)
(* and among the dropped are those the queues have released.               *)
(***************************************************************************)
EXTENDS OrderGateway, SequenceTheorems, TLAPS

(* The types of what the gateway reads and writes; the engine's queue of   *)
(* acknowledgements may hold more than what is used here.                  *)
ThreadTypes ==
  /\ gateway \in {"wait", "check", "loop", "sniper", "maker", "forward", "log",
                  "release", "ack", "release_ack", "report", "done", "undefined"}
  /\ requests \in [Sources -> [sent : Nat, read : Nat]]
  /\ \A s \in Sources :
       requests[s].read <= requests[s].sent /\ requests[s].sent <= Len(Store[s])
  /\ inHand \in Handled \cup {None}
  /\ (inHand # None) = (gateway \in {"forward", "log", "release"})
  /\ sentLog \in LOBOrder \cup {None} /\ (sentLog # None => gateway = "release")
  /\ next_system_id \in 0 .. LUTSize /\ LUT \in [SystemIds -> Nat]
  /\ lob \in [sent : Seq(LOBOrder), read : Nat] /\ lob.read <= Len(lob.sent)
  /\ {"sent", "read"} \subseteq DOMAIN acks
  /\ acks.sent \in Seq(LOBAck) /\ acks.read \in Nat /\ acks.read <= Len(acks.sent)
  /\ userAcks \in Seq(UserAck)
  /\ dropped \subseteq Places

InHand == gateway \in {"forward", "log", "release"}

(* The order in hand is still the head of its queue.                       *)
HandOK ==
  InHand =>
    /\ HasRequest(inHand.source)
    /\ inHand.system_id < next_system_id
    /\ LUT[inHand.system_id] = HeadOf(inHand.source).order_id

(* An id in the queue to the engine leads to its order, and is younger     *)
(* than those before it, so that there are at least as many ids as places. *)
IdsLead ==
  /\ \A m \in DOMAIN lob.sent :
       LET p == lob.sent[m].from IN
       /\ lob.sent[m].system_id < next_system_id
       /\ LUT[lob.sent[m].system_id] = Store[p[1]][p[2]].order_id
  /\ \A m, n \in DOMAIN lob.sent :
       m < n => lob.sent[m].system_id < lob.sent[n].system_id
  /\ \A m \in DOMAIN lob.sent : m <= lob.sent[m].system_id + 1
  /\ \A m \in DOMAIN lob.sent :
       gateway = "forward" => lob.sent[m].system_id < inHand.system_id

(* What the client was told of the n-th acknowledgement.                   *)
Relayed(ack) ==
  [order_id |-> LUT[ack.system_id] % Word, price |-> ack.price,
   quantity |-> ack.quantity, status |-> ack.status]

AcksRelayed ==
  /\ \A n \in DOMAIN acks.sent : acks.sent[n].system_id < next_system_id
  /\ Len(userAcks) = acks.read + IF gateway = "release_ack" THEN 1 ELSE 0
  /\ Len(userAcks) <= Len(acks.sent)
  /\ \A n \in DOMAIN userAcks : userAcks[n] = Relayed(acks.sent[n])

(* r is what was sent of request q, less what was traded of it since.      *)
IsLeftOf(r, q) == r = [q EXCEPT !.quantity = r.quantity] /\ r.quantity <= q.quantity

(* The copy for the log is about to be read from the slot of the order in  *)
(* hand, or has been.                                                      *)
LogOK ==
  /\ gateway = "log" =>
       lob.sent # <<>> /\ IsLeftOf(lob.sent[Len(lob.sent)], Request(inHand.source))
  /\ sentLog # None => IsLeftOf(sentLog, Request(inHand.source))

GatewayInv ==
  ThreadTypes /\ HandOK /\ ForwardedOnceInOrder /\ IdsLead /\ AcksRelayed /\ LogOK

-----------------------------------------------------------------------------
(* The orders of a queue. *)

LEMMA Stores ==
  /\ \A s \in Sources : Store[s] \in Seq(UserOrder) /\ Len(Store[s]) \in Nat
  /\ \A s \in Sources : \A i \in 1 .. Len(Store[s]) :
       Store[s][i] \in UserOrder /\ <<s, i>> \in Places
<1>1. /\ Store.sniper = TestStore /\ Store.maker = MakerStore
      /\ Store["sniper"] = TestStore /\ Store["maker"] = MakerStore
  BY DEF Store
<1>2. /\ Len(TestStore) \in Nat /\ Len(MakerStore) \in Nat
      /\ TestStore \in Seq(UserOrder) /\ MakerStore \in Seq(UserOrder)
  BY OrderGatewayAssumption
<1>3. \A s \in Sources : Store[s] \in Seq(UserOrder) /\ Len(Store[s]) \in Nat
  BY <1>1, <1>2 DEF Sources
<1>4. ASSUME NEW s \in Sources, NEW i \in 1 .. Len(Store[s])
      PROVE  Store[s][i] \in UserOrder /\ <<s, i>> \in Places
  <2>1. Store[s][i] \in UserOrder
    <3> HIDE DEF UserOrder
    <3> QED BY <1>3
  <2>2. i \in 1 .. Len(TestStore) + Len(MakerStore)
    BY <1>1, <1>2 DEF Sources
  <2> QED BY <2>1, <2>2 DEF Places
<1> QED BY <1>3, <1>4

(* A place: a queue, and a position in it. *)
LEMMA PlaceTypes ==
  ASSUME NEW p \in Places
  PROVE  p[1] \in Sources /\ p[2] \in Nat /\ p = <<p[1], p[2]>>
<1>1. PICK last : last = Len(TestStore) + Len(MakerStore)
  BY Zenon
<1>2. last \in Nat
  <2>1. Len(TestStore) \in Nat /\ Len(MakerStore) \in Nat
    BY OrderGatewayAssumption
  <2> QED BY ONLY <1>1, <2>1
<1>3. PICK s \in Sources, i \in 1 .. last : p = <<s, i>>
  BY <1>1 DEF Places
<1>4. i \in Nat
  BY ONLY <1>2
<1> QED BY ONLY <1>3, <1>4

(* The order in hand: its fields, its place and what is forwarded of it.   *)
LEMMA OrderInHand ==
  ASSUME ThreadTypes, NEW s \in Sources, HasRequest(s)
  PROVE  /\ requests[s].read + 1 \in 1 .. Len(Store[s])
         /\ HeadOf(s) \in UserOrder
         /\ HeadOf(s) = Store[s][requests[s].read + 1]
         /\ <<s, requests[s].read + 1>> \in Places
<1>1. requests[s].read \in Nat /\ requests[s].sent \in Nat
  BY DEF ThreadTypes
<1>2. requests[s].read + 1 \in 1 .. Len(Store[s])
  <2>1. /\ Len(Store[s]) \in Nat /\ requests[s].sent <= Len(Store[s])
        /\ requests[s].read < requests[s].sent
    BY Stores DEF HasRequest, ThreadTypes
  <2> QED BY <1>1, <2>1
<1> QED BY <1>2, Stores DEF HeadOf

LEMMA RequestTypes ==
  ASSUME ThreadTypes, InHand, HandOK
  PROVE  /\ inHand \in Handled /\ inHand.source \in Sources
         /\ Request(inHand.source) \in LOBOrder
         /\ Request(inHand.source).system_id = inHand.system_id
         /\ Request(inHand.source).from
              = <<inHand.source, requests[inHand.source].read + 1>>
<1>1. inHand \in Handled
  BY DEF ThreadTypes, InHand
<1>2. inHand.source \in Sources /\ inHand.system_id \in SystemIds
  BY <1>1 DEF Handled
<1>3. HasRequest(inHand.source)
  BY DEF HandOK
<1>4. PICK h \in UserOrder : h = HeadOf(inHand.source)
  BY <1>2, <1>3, OrderInHand
<1>5. /\ h.price \in Prices /\ h.quantity \in Nat /\ h.trader_id \in Nat
      /\ h.order_type \in {"b", "s"} /\ h.req_type \in {"c", "u", "d"}
  BY <1>4 DEF UserOrder
<1>6. h.quantity % Word \in 0 .. Word - 1
  <2>1. PICK n \in Nat, w \in Nat \ {0} : n = h.quantity /\ w = Word
    BY Zenon, <1>5, OrderGatewayAssumption
  <2>2. n % w \in 0 .. w - 1
    BY ONLY <2>1
  <2> QED BY Zenon, <2>1, <2>2
<1>7. <<inHand.source, requests[inHand.source].read + 1>> \in Places
  BY <1>2, <1>3, OrderInHand
<1>8. Request(inHand.source) =
        [system_id |-> inHand.system_id, price |-> h.price, quantity |-> h.quantity % Word,
         trade_id |-> h.trader_id, order_type |-> h.order_type, req_type |-> h.req_type,
         from |-> <<inHand.source, requests[inHand.source].read + 1>>]
  BY <1>4 DEF Request
<1> QED BY <1>1, <1>2, <1>5, <1>6, <1>7, <1>8 DEF LOBOrder

-----------------------------------------------------------------------------
(* The initial state. *)

LEMMA GatewayInit ==
  ASSUME InitThreads, acks.sent = <<>>, acks.read = 0, {"sent", "read"} \subseteq DOMAIN acks
  PROVE  GatewayInv
<1> USE DEF InitThreads
<1>1. ThreadTypes
  BY Stores, OrderGatewayAssumption DEF ThreadTypes, SystemIds
<1>2. ForwardedOnceInOrder
  <2>1. \A p \in Places : p[1] \in Sources /\ p[2] \in Nat \ {0}
    BY OrderGatewayAssumption DEF Places
  <2>2. \A s \in Sources : Taken(s) = 0
    BY DEF Taken
  <2>3. {p \in Places : p[2] <= Taken(p[1])} = {}
    BY <2>1, <2>2
  <2>4. ForwardedFrom = {}
    BY DEF ForwardedFrom
  <2> QED BY <2>3, <2>4 DEF ForwardedOnceInOrder
<1> QED BY <1>1, <1>2 DEF GatewayInv, HandOK, InHand, IdsLead, AcksRelayed, LogOK

-----------------------------------------------------------------------------
(* The steps. *)

(* What the invariant says beyond the types is about these variables.      *)
LEMMA GatewayStands ==
  ASSUME GatewayInv, UNCHANGED <<gateway, requests, inHand, sentLog, idVars, outVars>>
  PROVE  (HandOK /\ ForwardedOnceInOrder /\ IdsLead /\ AcksRelayed /\ LogOK)'
<1>1. HandOK' /\ IdsLead'
  BY DEF GatewayInv, idVars, outVars, HandOK, InHand, HasRequest, HeadOf, IdsLead
<1>2. AcksRelayed'
  BY Zenon DEF GatewayInv, idVars, outVars, AcksRelayed, Relayed
<1>3. LogOK'
  BY Zenon DEF GatewayInv, outVars, LogOK, IsLeftOf, Request, HeadOf
<1>4. ForwardedOnceInOrder'
  <2>1. \A s : Taken(s)' = Taken(s)
    BY DEF Taken
  <2>2. ForwardedFrom' = ForwardedFrom
    BY DEF ForwardedFrom, outVars
  <2> QED BY <2>1, <2>2 DEF GatewayInv, ForwardedOnceInOrder, outVars
<1> QED BY <1>1, <1>2, <1>3, <1>4

(* A step of another thread, or one of the client that sends nothing. *)
LEMMA OtherStep ==
  ASSUME GatewayInv, UNCHANGED <<gateway, requests, inHand, sentLog, idVars, outVars>>
  PROVE  GatewayInv'
<1>1. ThreadTypes'
  BY DEF GatewayInv, ThreadTypes, idVars, outVars
<1> QED BY <1>1, GatewayStands DEF GatewayInv

(* An order more in a queue. *)
LEMMA SendStep ==
  ASSUME GatewayInv, NEW s \in Sources, Send(s)
  PROVE  GatewayInv'
<1>1. /\ \A t \in Sources : requests'[t].read = requests[t].read
      /\ \A t \in Sources : HasRequest(t) => HasRequest(t)'
      /\ requests' \in [Sources -> [sent : Nat, read : Nat]]
      /\ \A t \in Sources :
           requests'[t].read <= requests'[t].sent /\ requests'[t].sent <= Len(Store[t])
  <2>1. PICK q \in [sent : Nat, read : Nat] : q = requests[s]
    BY DEF GatewayInv, ThreadTypes
  <2>2. PICK r \in [sent : Nat, read : Nat] : r = [q EXCEPT !.sent = @ + 1]
    <3>1. q.sent + 1 \in Nat /\ q = [sent |-> q.sent, read |-> q.read]
      BY <2>1
    <3>2. [q EXCEPT !.sent = @ + 1] = [sent |-> q.sent + 1, read |-> q.read]
      BY <3>1
    <3> QED BY <2>1, <3>1, <3>2
  <2>3. r.read = q.read /\ r.sent = q.sent + 1 /\ q.sent \in Nat /\ q.read \in Nat
    BY <2>1, <2>2
  <2>4. requests' = [requests EXCEPT ![s] = r] /\ q.sent < Len(Store[s])
    BY <2>1, <2>2 DEF Send
  <2>5. q.read <= q.sent
    BY <2>1 DEF GatewayInv, ThreadTypes
  <2>6. Len(Store[s]) \in Nat
    BY Stores
  <2>7. r.read <= r.sent /\ r.sent <= Len(Store[s]) /\ (q.read < q.sent => r.read < r.sent)
    BY <2>3, <2>4, <2>5, <2>6
  <2>8. \A t \in Sources : requests'[t] = IF t = s THEN r ELSE requests[t]
    BY <2>4 DEF GatewayInv, ThreadTypes
  <2>9. requests' \in [Sources -> [sent : Nat, read : Nat]]
    BY <2>2, <2>4 DEF GatewayInv, ThreadTypes
  <2> QED BY <2>1, <2>3, <2>7, <2>8, <2>9 DEF HasRequest, GatewayInv, ThreadTypes
<1>2. UNCHANGED <<flags, main, alpha, gateway, inHand, sentLog, idVars, outVars>>
  BY DEF Send
<1>3. ThreadTypes'
  BY <1>1, <1>2 DEF GatewayInv, ThreadTypes, idVars, outVars
<1>4. InHand => inHand.source \in Sources
  BY RequestTypes DEF GatewayInv
<1>5. HandOK' /\ IdsLead' /\ AcksRelayed'
  <2>1. HandOK'
    <3> SUFFICES ASSUME InHand
                 PROVE  /\ HasRequest(inHand.source)'
                        /\ inHand'.system_id < next_system_id'
                        /\ LUT'[inHand'.system_id] = HeadOf(inHand.source)'.order_id
      BY <1>2 DEF HandOK, InHand
    <3>1. PICK t \in Sources : t = inHand.source
      BY <1>4
    <3>2. HeadOf(t)' = HeadOf(t) /\ HasRequest(t)' /\ inHand' = inHand
      BY <1>1, <1>2, <3>1 DEF HeadOf, GatewayInv, HandOK
    <3> QED BY <1>2, <3>1, <3>2 DEF GatewayInv, HandOK, HeadOf, HasRequest, idVars
  <2>2. IdsLead'
    BY <1>2 DEF GatewayInv, IdsLead, idVars, outVars
  <2>3. AcksRelayed'
    BY Zenon, <1>2 DEF GatewayInv, AcksRelayed, Relayed, idVars, outVars
  <2> QED BY <2>1, <2>2, <2>3
<1>6. InHand => Request(inHand.source)' = Request(inHand.source)
  <2> SUFFICES ASSUME InHand
               PROVE  Request(inHand.source)' = Request(inHand.source)
    OBVIOUS
  <2>1. PICK t \in Sources : t = inHand.source
    BY <1>4
  <2>2. requests'[t].read = requests[t].read /\ inHand' = inHand
    BY <1>1, <1>2
  <2> QED BY ONLY Zenon, <2>1, <2>2 DEF Request, HeadOf
<1>7. LogOK'
  BY <1>2, <1>6 DEF GatewayInv, ThreadTypes, LogOK, InHand, IsLeftOf, outVars
<1>8. ForwardedOnceInOrder'
  <2>1. \A t \in Sources : Taken(t)' = Taken(t)
    <3> SUFFICES ASSUME NEW t \in Sources
                 PROVE  Taken(t)' = Taken(t)
      OBVIOUS
    <3>1. /\ requests'[t].read = requests[t].read
          /\ inHand' = inHand /\ gateway' = gateway
      BY <1>1, <1>2
    <3> QED BY <3>1 DEF Taken
  <2>2. \A p \in Places : p[1] \in Sources
    BY DEF Places
  <2>3. ForwardedFrom' = ForwardedFrom
    BY <1>2 DEF ForwardedFrom, outVars
  <2> QED BY <1>2, <2>1, <2>2, <2>3 DEF GatewayInv, ForwardedOnceInOrder, outVars
<1> QED BY <1>3, <1>5, <1>7, <1>8 DEF GatewayInv

(* The client. *)
LEMMA AlphaStep ==
  ASSUME GatewayInv, Alpha
  PROVE  GatewayInv'
<1>1. CASE AlphaSends
  BY <1>1, SendStep DEF AlphaSends, Sources
<1>2. CASE AlphaLooksForStart \/ AlphaLooksForEnd \/ AlphaReturns
  BY <1>2, OtherStep DEF AlphaLooksForStart, AlphaLooksForEnd, AlphaReturns, AlphaMoves
<1> QED BY <1>1, <1>2 DEF Alpha

(* The gateway goes from one place to another with nothing in its hand.    *)
LEMMA MoveStep ==
  ASSUME GatewayInv, NEW from, NEW to, GatewayMoves(from, to),
         from \in {"wait", "check", "loop", "sniper", "maker", "ack", "report"},
         to \in {"wait", "check", "loop", "sniper", "maker", "ack", "report", "done",
                "undefined"}
  PROVE  GatewayInv'
<1>1. /\ UNCHANGED <<flags, main, alpha, requests, inHand, sentLog, idVars, outVars>>
      /\ gateway = from /\ gateway' = to
  BY DEF GatewayMoves
<1>2. ThreadTypes'
  <2>1. inHand' = None /\ sentLog' = None /\ ~ InHand'
    BY <1>1 DEF GatewayInv, ThreadTypes, InHand
  <2> QED BY <1>1, <2>1 DEF GatewayInv, ThreadTypes, InHand, idVars, outVars
<1>3. HandOK' /\ LogOK'
  BY Zenon, <1>1 DEF GatewayInv, ThreadTypes, HandOK, InHand, LogOK
<1>4. IdsLead' /\ AcksRelayed'
  BY Zenon, <1>1 DEF GatewayInv, IdsLead, AcksRelayed, Relayed, idVars, outVars
<1>5. ForwardedOnceInOrder'
  <2>1. \A s : Taken(s)' = Taken(s)
    BY <1>1 DEF Taken
  <2>2. ForwardedFrom' = ForwardedFrom
    BY <1>1 DEF ForwardedFrom, outVars
  <2> QED BY <1>1, <2>1, <2>2 DEF GatewayInv, ForwardedOnceInOrder, outVars
<1> QED BY <1>2, <1>3, <1>4, <1>5 DEF GatewayInv

(* The orders taken stay the same as long as no queue is read and nothing  *)
(* is forwarded or dropped.                                                *)
LEMMA TakenStands ==
  ASSUME GatewayInv, UNCHANGED <<requests, dropped>>,
         \A s \in Sources : (Taken(s) = Taken(s)'),
         Len(lob'.sent) = Len(lob.sent), lob.sent \in Seq(LOBOrder), lob'.sent \in Seq(LOBOrder),
         \A m \in DOMAIN lob.sent : lob'.sent[m].from = lob.sent[m].from
  PROVE  ForwardedOnceInOrder'
<1>1. DOMAIN lob'.sent = DOMAIN lob.sent
  OBVIOUS
<1>2. ForwardedFrom' = ForwardedFrom
  BY <1>1 DEF ForwardedFrom
<1>3. \A p \in Places : p[1] \in Sources
  BY DEF Places
<1> QED BY <1>1, <1>2, <1>3 DEF GatewayInv, ForwardedOnceInOrder

(* An order comes into hand with a new id. *)
LEMMA TakeStep ==
  ASSUME GatewayInv, Take
  PROVE  GatewayInv'
<1>1. PICK s \in Sources : s = gateway
  BY DEF Take
<1>2. PICK h \in UserOrder : h = HeadOf(s)
  BY <1>1, OrderInHand DEF GatewayInv, Take
<1>3. h.order_id \in Nat
  BY <1>2 DEF UserOrder
<1>4. PICK id \in SystemIds : id = next_system_id
  BY OrderGatewayAssumption DEF Take, GatewayInv, ThreadTypes, SystemIds
<1>5. /\ HasRequest(s) /\ next_system_id' = id + 1 /\ LUT' = [LUT EXCEPT ![id] = h.order_id]
      /\ inHand' = [source |-> s, system_id |-> id]
      /\ gateway' = "forward"
      /\ UNCHANGED <<flags, main, alpha, requests, sentLog, outVars>>
  BY <1>1, <1>2, <1>4 DEF Take, AssignSystemId
<1>6. /\ inHand' \in Handled /\ inHand' # None
      /\ inHand'.source = s /\ inHand'.system_id = id
  BY <1>4, <1>5, OrderGatewayAssumption DEF Handled
<1>7. /\ LUT' \in [SystemIds -> Nat] /\ LUT'[id] = h.order_id
      /\ \A i \in SystemIds : i < id => LUT'[i] = LUT[i]
  <2>1. LUT \in [SystemIds -> Nat]
    BY Zenon DEF GatewayInv, ThreadTypes
  <2>2. LUT' = [LUT EXCEPT ![id] = h.order_id] /\ h.order_id \in Nat /\ id \in SystemIds
    BY Zenon, <1>3, <1>4, <1>5
  <2>3. \A i \in SystemIds : i < id => i # id
    BY <1>4, OrderGatewayAssumption DEF SystemIds
  <2> QED BY Zenon, <2>1, <2>2, <2>3
<1>8. id \in Nat /\ id + 1 \in 0 .. LUTSize /\ id < id + 1
  BY <1>4, OrderGatewayAssumption DEF SystemIds
<1>9. ~ InHand /\ sentLog = None
  BY <1>1 DEF InHand, GatewayInv, ThreadTypes, Sources
<1>10. ThreadTypes'
  <2>1. sentLog' = None
    BY <1>5, <1>9
  <2> QED BY Zenon, <1>5, <1>6, <1>7, <1>8, <2>1 DEF GatewayInv, ThreadTypes, outVars
<1>11. HandOK'
  <2>1. HeadOf(s)' = h /\ HasRequest(s)'
    BY <1>2, <1>5 DEF HeadOf, HasRequest
  <2> QED BY <1>5, <1>6, <1>7, <1>8, <2>1 DEF HandOK, HeadOf, HasRequest
<1>12. IdsLead'
  <2>1. ASSUME NEW m \in DOMAIN lob.sent
        PROVE  /\ lob.sent[m].system_id < id /\ lob.sent[m].system_id < id + 1
               /\ LUT'[lob.sent[m].system_id]
                    = Store[lob.sent[m].from[1]][lob.sent[m].from[2]].order_id
    <3>1. lob.sent[m].system_id \in SystemIds
      <4>1. lob.sent \in Seq(LOBOrder)
        BY DEF GatewayInv, ThreadTypes
      <4>2. lob.sent[m] \in LOBOrder
        BY <4>1
      <4> QED BY <4>2 DEF LOBOrder
    <3>2. lob.sent[m].system_id < id
          /\ LUT[lob.sent[m].system_id]
               = Store[lob.sent[m].from[1]][lob.sent[m].from[2]].order_id
      BY Zenon, <1>4 DEF GatewayInv, IdsLead
    <3>3. PICK i \in SystemIds : i = lob.sent[m].system_id
      BY Zenon, <3>1
    <3>4. i < id + 1
      <4>1. i \in Nat /\ id \in Nat /\ i < id
        BY <1>4, <3>2, <3>3, OrderGatewayAssumption DEF SystemIds
      <4> QED BY ONLY <4>1
    <3>5. LUT'[i] = LUT[i]
      BY Zenon, <1>7, <3>2, <3>3
    <3> QED BY Zenon, <3>2, <3>3, <3>4, <3>5
  <2>2. /\ \A m, n \in DOMAIN lob.sent :
              m < n => lob.sent[m].system_id < lob.sent[n].system_id
        /\ \A m \in DOMAIN lob.sent : m <= lob.sent[m].system_id + 1
    BY DEF GatewayInv, IdsLead
  <2> QED BY Zenon, <1>5, <1>6, <2>1, <2>2 DEF IdsLead, outVars
<1>13. AcksRelayed'
  <2>1. UNCHANGED <<acks, userAcks>> /\ gateway # "release_ack"
    BY <1>1, <1>5 DEF outVars, Sources
  <2>2. ASSUME NEW n \in DOMAIN acks.sent
        PROVE  acks.sent[n].system_id < id + 1 /\ Relayed(acks.sent[n])' = Relayed(acks.sent[n])
    <3>1. acks.sent \in Seq(LOBAck)
      BY DEF GatewayInv, ThreadTypes
    <3>2. acks.sent[n] \in LOBAck
      BY <3>1
    <3>3. acks.sent[n].system_id \in SystemIds
      BY <3>2 DEF LOBAck
    <3>4. acks.sent[n].system_id < id
      BY <1>4 DEF GatewayInv, AcksRelayed
    <3>5. acks.sent[n].system_id < id + 1
      BY <1>8, <3>3, <3>4 DEF SystemIds
    <3> QED BY <1>7, <2>1, <3>3, <3>4, <3>5 DEF Relayed
  <2>3. DOMAIN userAcks \subseteq DOMAIN acks.sent
    BY DEF GatewayInv, ThreadTypes, AcksRelayed
  <2>4. Len(userAcks) = acks.read /\ acks.read + 0 = acks.read
    BY <2>1 DEF GatewayInv, ThreadTypes, AcksRelayed
  <2>5. \A n \in DOMAIN userAcks : userAcks[n] = Relayed(acks.sent[n])'
    BY <2>2, <2>3 DEF GatewayInv, AcksRelayed
  <2> QED BY <1>5, <2>1, <2>2, <2>4, <2>5 DEF GatewayInv, AcksRelayed, Relayed
<1>14. LogOK'
  BY <1>5, <1>9 DEF LogOK
<1>15. ForwardedOnceInOrder'
  <2>1. \A t \in Sources : (Taken(t) = Taken(t)')
    BY <1>5, <1>9 DEF Taken, InHand
  <2>2. lob' = lob /\ lob.sent \in Seq(LOBOrder) /\ UNCHANGED <<requests, dropped>>
    BY <1>5 DEF outVars, GatewayInv, ThreadTypes
  <2> QED BY <2>1, <2>2, TakenStands
<1> QED BY <1>10, <1>11, <1>12, <1>13, <1>14, <1>15 DEF GatewayInv

(* What the invariant says of the order in hand, the ids and the           *)
(* acknowledgements does not depend on what is forwarded.                  *)
LEMMA HandStands ==
  ASSUME GatewayInv, InHand, InHand',
         UNCHANGED <<requests, inHand, idVars>>
  PROVE  HandOK' /\ Request(inHand.source)' = Request(inHand.source)
<1>1. HandOK'
  BY DEF GatewayInv, HandOK, HasRequest, HeadOf, idVars
<1>2. Request(inHand.source)' = Request(inHand.source)
  BY DEF Request, HeadOf
<1> QED BY <1>1, <1>2

LEMMA AcksStand ==
  ASSUME GatewayInv, UNCHANGED <<idVars, acks, userAcks>>,
         gateway # "release_ack", gateway' # "release_ack"
  PROVE  AcksRelayed'
BY DEF GatewayInv, AcksRelayed, Relayed, idVars

(* A request that has found room in the queue to the engine. *)
LEMMA PublishStep ==
  ASSUME GatewayInv, gateway = "forward", gateway' = "log",
         lob' = [lob EXCEPT !.sent = Append(@, Request(inHand.source))],
         UNCHANGED <<flags, main, alpha, requests, inHand, sentLog, idVars, dropped, acks, userAcks>>
  PROVE  GatewayInv'
<1>1. PICK s \in Sources : s = inHand.source
  BY RequestTypes DEF GatewayInv, InHand
<1>2. PICK r \in LOBOrder : r = Request(s)
  BY <1>1, RequestTypes DEF GatewayInv, InHand
<1>3. /\ HandOK' /\ Request(inHand.source)' = r /\ AcksRelayed'
  BY <1>1, <1>2, HandStands, AcksStand DEF InHand
<1>4. PICK q \in Seq(LOBOrder) : q = lob.sent
  BY DEF GatewayInv, ThreadTypes
<1>5. PICK k \in Nat : k = Len(q)
  BY <1>4
<1>6. PICK q1 \in Seq(LOBOrder) : q1 = Append(q, r)
  BY AppendProperties
<1>7. /\ DOMAIN q1 = 1 .. k + 1 /\ DOMAIN q = 1 .. k /\ Len(q1) = k + 1
      /\ q1[k + 1] = r /\ \A m \in 1 .. k : q1[m] = q[m]
  BY <1>2, <1>4, <1>5, <1>6
<1>8. lob'.sent = q1 /\ lob'.read = lob.read /\ lob' \in [sent : Seq(LOBOrder), read : Nat]
  BY <1>1, <1>2, <1>4, <1>6 DEF GatewayInv, ThreadTypes
<1>9. \A m \in 1 .. k + 1 : m = k + 1 \/ m \in 1 .. k
  BY <1>5
<1>10. /\ HasRequest(s) /\ inHand.system_id < next_system_id
       /\ LUT[inHand.system_id] = Store[s][requests[s].read + 1].order_id
       /\ r.system_id = inHand.system_id /\ r.from = <<s, requests[s].read + 1>>
  BY <1>1, <1>2, RequestTypes DEF GatewayInv, HandOK, InHand, HeadOf
<1>11. ThreadTypes'
  <2>1. lob'.read <= Len(lob'.sent)
    <3>1. lob.read <= k /\ lob.read \in Nat
      BY <1>4, <1>5 DEF GatewayInv, ThreadTypes
    <3> QED BY <1>5, <1>7, <1>8, <3>1
  <2>2. sentLog = None
    BY Zenon DEF GatewayInv, ThreadTypes
  <2> QED BY <1>8, <2>1, <2>2 DEF GatewayInv, ThreadTypes, idVars
<1>12. IdsLead'
  <2>1. ASSUME NEW m \in 1 .. k + 1
        PROVE  /\ q1[m].system_id < next_system_id
               /\ LUT[q1[m].system_id] = Store[q1[m].from[1]][q1[m].from[2]].order_id
    <3>1. CASE m = k + 1
      BY <1>7, <1>10, <3>1
    <3>2. CASE m \in 1 .. k
      BY Zenon, <1>4, <1>7, <3>2 DEF GatewayInv, IdsLead
    <3> QED BY <1>9, <3>1, <3>2
  <2>2. ASSUME NEW m \in 1 .. k + 1, NEW n \in 1 .. k + 1, m < n
        PROVE  q1[m].system_id < q1[n].system_id
    <3>1. m \in 1 .. k
      BY <1>5, <2>2
    <3>2. CASE n = k + 1
      BY Zenon, <1>4, <1>7, <1>10, <3>1, <3>2 DEF GatewayInv, IdsLead
    <3>3. CASE n \in 1 .. k
      BY <1>4, <1>7, <2>2, <3>1, <3>3 DEF GatewayInv, IdsLead
    <3> QED BY <1>9, <3>2, <3>3
  <2>3. ASSUME NEW m \in 1 .. k + 1
        PROVE  m <= q1[m].system_id + 1
    <3>1. CASE m = k + 1
      <4>1. r.system_id \in Nat
        BY <1>2, OrderGatewayAssumption DEF LOBOrder, SystemIds
      <4>2. CASE k = 0
        BY <1>7, <3>1, <4>1, <4>2
      <4>3. CASE k # 0
        <5>1. k \in 1 .. k
          BY <1>5, <4>3
        <5>2. PICK o \in LOBOrder : o = q[k]
          BY <1>5, <1>7, <5>1
        <5>3. o.system_id \in Nat /\ k <= o.system_id + 1 /\ o.system_id < r.system_id
          <6>1. o.system_id \in Nat
            BY OrderGatewayAssumption DEF LOBOrder, SystemIds
          <6>2. k \in DOMAIN lob.sent /\ o = lob.sent[k]
            BY <1>4, <1>7, <5>1, <5>2
          <6> QED BY Zenon, <1>10, <6>1, <6>2 DEF GatewayInv, IdsLead
        <5> QED BY <1>5, <1>7, <3>1, <4>1, <5>3
      <4> QED BY <4>2, <4>3
    <3>2. CASE m \in 1 .. k
      BY <1>4, <1>7, <3>2 DEF GatewayInv, IdsLead
    <3> QED BY <1>9, <3>1, <3>2
  <2>4. /\ DOMAIN lob'.sent = 1 .. k + 1 /\ gateway' # "forward"
        /\ UNCHANGED <<next_system_id, LUT>>
    BY Zenon, <1>7, <1>8 DEF idVars
  <2>5. \A m \in DOMAIN lob'.sent :
          LET p == lob'.sent[m].from IN
          /\ lob'.sent[m].system_id < next_system_id'
          /\ LUT'[lob'.sent[m].system_id] = Store[p[1]][p[2]].order_id
    BY Zenon, <1>8, <2>1, <2>4
  <2>6. /\ \A m, n \in DOMAIN lob'.sent :
             m < n => lob'.sent[m].system_id < lob'.sent[n].system_id
        /\ \A m \in DOMAIN lob'.sent : m <= lob'.sent[m].system_id + 1
    BY Zenon, <1>8, <2>2, <2>3, <2>4
  <2> QED BY Zenon, <2>4, <2>5, <2>6 DEF IdsLead
<1>13. LogOK'
  <2>1. IsLeftOf(r, r)
    <3>1. r.quantity \in Int /\ r = [r EXCEPT !.quantity = r.quantity]
      BY <1>2, OrderGatewayAssumption DEF LOBOrder
    <3> QED BY <3>1 DEF IsLeftOf
  <2>2. lob'.sent # <<>> /\ lob'.sent[Len(lob'.sent)] = r
    BY <1>5, <1>7, <1>8
  <2>3. sentLog' = None
    BY DEF GatewayInv, ThreadTypes
  <2> QED BY <1>3, <2>1, <2>2, <2>3 DEF LogOK, IsLeftOf
<1>14. ForwardedOnceInOrder'
  <2>1. PICK t \in Nat : t = requests[s].read
    BY DEF GatewayInv, ThreadTypes
  <2>2. /\ Taken(s) = t /\ Taken(s)' = t + 1 /\ r.from = <<s, t + 1>>
        /\ \A u \in Sources : u # s => (Taken(u)' = Taken(u))
    BY <1>1, <1>10, <2>1 DEF Taken
  <2>3. /\ r.from \in Places
        /\ \A p \in Places : p[1] \in Sources /\ p[2] \in Nat /\ p = <<p[1], p[2]>>
    <3>1. r.from \in Places
      <4> HIDE DEF Places
      <4> QED BY <1>2 DEF LOBOrder
    <3>2. \A p \in Places : p[1] \in Sources /\ p[2] \in Nat /\ p = <<p[1], p[2]>>
      BY Zenon, PlaceTypes
    <3> QED BY <3>1, <3>2
  <2>4. /\ \A m \in 1 .. k : q[m].from \in Places
        /\ \A m \in 1 .. k : q[m].from[2] <= Taken(q[m].from[1])
        /\ \A p \in dropped : p \in Places /\ p[2] <= Taken(p[1])
        /\ \A p \in Places : p[2] <= Taken(p[1]) =>
             p \in dropped \/ \E m \in 1 .. k : q[m].from = p
        /\ \A m \in 1 .. k : q[m].from \notin dropped
        /\ \A m, n \in 1 .. k : m < n /\ q[m].from[1] = q[n].from[1]
                               => q[m].from[2] < q[n].from[2]
    BY <1>4, <1>7 DEF GatewayInv, ForwardedOnceInOrder, ForwardedFrom
  <2>5. ASSUME NEW m \in 1 .. k + 1, NEW n \in 1 .. k + 1, m < n,
               q1[m].from[1] = q1[n].from[1]
        PROVE  q1[m].from[2] < q1[n].from[2]
    <3>1. m \in 1 .. k
      BY <1>5, <2>5
    <3>2. CASE n = k + 1
      <4>1. q[m].from[1] = s /\ q[m].from[2] <= t /\ q[m].from[2] \in Nat
        BY <1>7, <2>2, <2>3, <2>4, <2>5, <3>1, <3>2
      <4>2. PICK i \in Nat : i = q[m].from[2] /\ i <= t
        BY Zenon, <4>1
      <4>3. i < t + 1
        BY <2>1, <4>2
      <4>4. r.from[2] = t + 1
        BY ONLY <2>1, <2>2
      <4>5. q1[m].from[2] = i /\ q1[n].from[2] = t + 1
        BY ONLY Zenon, <1>7, <3>1, <3>2, <4>2, <4>4
      <4> QED BY ONLY Zenon, <4>3, <4>5
    <3>3. CASE n \in 1 .. k
      BY <1>7, <2>4, <2>5, <3>1, <3>3
    <3> QED BY <1>9, <3>2, <3>3
  <2>6. ForwardedFrom' = ForwardedFrom \cup {r.from}
    <3>1. ForwardedFrom = {q[m].from : m \in 1 .. k}
      BY <1>4, <1>7 DEF ForwardedFrom
    <3>2. ForwardedFrom' = {q1[m].from : m \in 1 .. k + 1}
      BY <1>7, <1>8 DEF ForwardedFrom
    <3>3. {q1[m].from : m \in 1 .. k + 1} = {q[m].from : m \in 1 .. k} \cup {r.from}
      <4>1. k + 1 \in 1 .. k + 1 /\ \A m \in 1 .. k : m \in 1 .. k + 1
        BY <1>5
      <4> QED BY <1>7, <1>9, <4>1
    <3> QED BY <3>1, <3>2, <3>3
  <2>7. r.from \notin dropped
    BY <2>1, <2>2, <2>4
  <2>8. ForwardedFrom' \cap dropped = {}
    BY <2>6, <2>7 DEF GatewayInv, ForwardedOnceInOrder
  <2>9. {p \in Places : p[2] <= Taken(p[1])'} = {p \in Places : p[2] <= Taken(p[1])} \cup {r.from}
    <3>1. ASSUME NEW p \in Places
          PROVE  p[2] <= Taken(p[1])' <=> p[2] <= Taken(p[1]) \/ p = r.from
      <4>1. CASE p[1] # s
        BY <2>2, <2>3, <4>1
      <4>2. CASE p[1] = s
        <5>1. p = r.from <=> p[2] = t + 1
          BY <2>2, <2>3, <4>2
        <5>2. p[2] <= t + 1 <=> p[2] <= t \/ p[2] = t + 1
          BY <2>1, <2>3
        <5> QED BY <2>2, <4>2, <5>1, <5>2
      <4> QED BY <4>1, <4>2
    <3> QED BY <2>3, <3>1
  <2>10. ForwardedFrom' \cup dropped = {p \in Places : p[2] <= Taken(p[1])'}
    BY <2>6, <2>9 DEF GatewayInv, ForwardedOnceInOrder
  <2>11. \A m, n \in DOMAIN lob'.sent :
           m < n /\ lob'.sent[m].from[1] = lob'.sent[n].from[1]
             => lob'.sent[m].from[2] < lob'.sent[n].from[2]
    BY ONLY Zenon, <1>7, <1>8, <2>5
  <2>12. UNCHANGED dropped
    OBVIOUS
  <2> QED BY Zenon, <2>8, <2>10, <2>11, <2>12 DEF ForwardedOnceInOrder
<1> QED BY <1>3, <1>11, <1>12, <1>13, <1>14 DEF GatewayInv

(* An order that finds no room is dropped. *)
LEMMA DropStep ==
  ASSUME GatewayInv, gateway = "forward", gateway' = "release",
         dropped' = dropped \cup {Request(inHand.source).from},
         UNCHANGED <<flags, main, alpha, requests, inHand, sentLog, idVars, lob, acks, userAcks>>
  PROVE  GatewayInv'
<1>1. PICK s \in Sources : s = inHand.source
  BY RequestTypes DEF GatewayInv, InHand
<1>2. PICK t \in Nat : t = requests[s].read
  BY DEF GatewayInv, ThreadTypes
<1>3. PICK p0 \in Places : p0 = <<s, t + 1>> /\ dropped' = dropped \cup {p0}
  BY <1>1, <1>2, RequestTypes DEF GatewayInv, InHand, LOBOrder
<1>4. HandOK' /\ AcksRelayed' /\ IdsLead'
  BY Zenon, HandStands, AcksStand DEF InHand, GatewayInv, IdsLead, idVars
<1>5. sentLog' = None
  BY DEF GatewayInv, ThreadTypes
<1>6. ThreadTypes' /\ LogOK'
  BY <1>3, <1>5 DEF GatewayInv, ThreadTypes, LogOK, idVars
<1>7. ForwardedOnceInOrder'
  <2>1. /\ Taken(s) = t /\ Taken(s)' = t + 1
        /\ \A u \in Sources : u # s => (Taken(u)' = Taken(u))
    BY <1>1, <1>2 DEF Taken
  <2>2. \A p \in Places : p[1] \in Sources /\ p[2] \in Nat /\ p = <<p[1], p[2]>>
    BY Zenon, PlaceTypes
  <2>3. {p \in Places : p[2] <= Taken(p[1])'} = {p \in Places : p[2] <= Taken(p[1])} \cup {p0}
    <3>1. ASSUME NEW p \in Places
          PROVE  p[2] <= Taken(p[1])' <=> p[2] <= Taken(p[1]) \/ p = p0
      <4>1. CASE p[1] # s
        BY <1>3, <2>1, <2>2, <4>1
      <4>2. CASE p[1] = s
        <5>1. p = p0 <=> p[2] = t + 1
          BY <1>3, <2>2, <4>2
        <5>2. p[2] <= t + 1 <=> p[2] <= t \/ p[2] = t + 1
          BY <1>2, <2>2
        <5> QED BY <2>1, <4>2, <5>1, <5>2
      <4> QED BY <4>1, <4>2
    <3> QED BY <3>1
  <2>4. p0 \notin {p \in Places : p[2] <= Taken(p[1])}
    BY <1>2, <1>3, <2>1
  <2>5. ForwardedFrom' = ForwardedFrom
    BY DEF ForwardedFrom
  <2> QED BY <1>3, <2>3, <2>4, <2>5 DEF GatewayInv, ForwardedOnceInOrder
<1> QED BY <1>4, <1>6, <1>7 DEF GatewayInv

(* The copy for the log is what the engine has left of the request. *)
LEMMA LogStep ==
  ASSUME GatewayInv, LogSent
  PROVE  GatewayInv'
<1> USE DEF LogSent
<1>1. InHand /\ InHand' /\ sentLog' \in {None, lob.sent[Len(lob.sent)]}
  BY DEF InHand
<1>2. HandOK' /\ Request(inHand.source)' = Request(inHand.source)
  BY <1>1, HandStands
<1>3. AcksRelayed' /\ IdsLead'
  BY AcksStand DEF GatewayInv, IdsLead, idVars, outVars
<1>4. lob.sent # <<>> /\ IsLeftOf(lob.sent[Len(lob.sent)], Request(inHand.source))
  BY DEF GatewayInv, LogOK
<1>5. lob.sent \in Seq(LOBOrder) /\ lob.sent[Len(lob.sent)] \in LOBOrder
  <2>1. lob.sent \in Seq(LOBOrder)
    BY DEF GatewayInv, ThreadTypes
  <2> QED BY <1>4, <2>1
<1>6. ThreadTypes'
  <2>1. sentLog' \in LOBOrder \cup {None} /\ inHand' # None
    BY <1>1, <1>5 DEF GatewayInv, ThreadTypes
  <2> QED BY <2>1 DEF GatewayInv, ThreadTypes, idVars, outVars
<1>7. LogOK'
  BY <1>1, <1>2, <1>4 DEF LogOK, IsLeftOf
<1>8. ForwardedOnceInOrder'
  <2>1. \A t \in Sources : (Taken(t) = Taken(t)')
    BY DEF Taken
  <2> QED BY <1>5, <2>1, TakenStands DEF outVars
<1> QED BY <1>2, <1>3, <1>6, <1>7, <1>8 DEF GatewayInv

(* The order in hand leaves its queue. *)
LEMMA ReleaseStep ==
  ASSUME GatewayInv, Release
  PROVE  GatewayInv'
<1>1. PICK s \in Sources : s = inHand.source
  BY RequestTypes DEF GatewayInv, InHand, Release
<1>2. PICK q \in [sent : Nat, read : Nat] : q = requests[s]
  BY DEF GatewayInv, ThreadTypes
<1>3. PICK t \in Nat, n \in Nat : t = q.read /\ n = q.sent
  BY <1>2
<1>4. /\ requests' = [requests EXCEPT ![s] = [q EXCEPT !.read = @ + 1]]
      /\ gateway' = AfterSource[s] /\ gateway = "release"
      /\ inHand' = None /\ sentLog' = None
      /\ UNCHANGED <<flags, main, alpha, idVars, outVars>>
  BY <1>1, <1>2 DEF Release
<1>5. [q EXCEPT !.read = @ + 1] = [sent |-> n, read |-> t + 1]
  <2>1. q = [sent |-> n, read |-> t]
    BY <1>2, <1>3
  <2> QED BY <2>1
<1>6. PICK r \in [sent : Nat, read : Nat] : r = [sent |-> n, read |-> t + 1]
  <2>1. t + 1 \in Nat
    OBVIOUS
  <2> QED BY <2>1
<1>7. /\ requests' = [requests EXCEPT ![s] = r] /\ r.sent = n /\ r.read = t + 1
  BY <1>4, <1>5, <1>6
<1>8. /\ requests' \in [Sources -> [sent : Nat, read : Nat]]
      /\ \A u \in Sources : requests'[u] = IF u = s THEN r ELSE requests[u]
  BY <1>6, <1>7 DEF GatewayInv, ThreadTypes
<1>9. t < n /\ n <= Len(Store[s])
  BY <1>1, <1>2, <1>3, <1>4 DEF GatewayInv, ThreadTypes, HandOK, HasRequest, InHand
<1>10. gateway' \in {"maker", "ack"}
  BY <1>4 DEF AfterSource, Sources
<1>11. ThreadTypes'
  <2>1. \A u \in Sources : requests'[u].read <= requests'[u].sent
                          /\ requests'[u].sent <= Len(Store[u])
    <3>1. r.read <= r.sent /\ r.sent <= Len(Store[s])
      BY <1>3, <1>7, <1>9
    <3> QED BY <1>8, <3>1 DEF GatewayInv, ThreadTypes
  <2>2. (inHand' # None) = (gateway' \in {"forward", "log", "release"})
    BY <1>4, <1>10
  <2> QED BY <1>4, <1>8, <1>10, <2>1, <2>2 DEF GatewayInv, ThreadTypes, idVars, outVars
<1>12. HandOK' /\ LogOK'
  BY Zenon, <1>4, <1>10 DEF HandOK, LogOK, InHand
<1>13. IdsLead' /\ AcksRelayed'
  BY Zenon, <1>4, <1>10, AcksStand DEF GatewayInv, IdsLead, idVars, outVars
<1>14. ForwardedOnceInOrder'
  <2>1. Taken(s) = t + 1 /\ (Taken(s)' = t + 1)
    BY <1>1, <1>2, <1>3, <1>4, <1>7, <1>8, <1>10 DEF Taken
  <2>2. \A u \in Sources : (Taken(u) = Taken(u)')
    <3> SUFFICES ASSUME NEW u \in Sources, u # s
                 PROVE  Taken(u) = Taken(u)'
      BY <2>1
    <3> QED BY <1>1, <1>8, <1>10 DEF Taken
  <2>3. ForwardedFrom' = ForwardedFrom /\ UNCHANGED <<lob, dropped>>
    BY <1>4 DEF ForwardedFrom, outVars
  <2>4. \A p \in Places : p[1] \in Sources
    BY DEF Places
  <2> QED BY <2>2, <2>3, <2>4 DEF GatewayInv, ForwardedOnceInOrder
<1> QED BY <1>11, <1>12, <1>13, <1>14 DEF GatewayInv

(* The acknowledgements: what the engine sent, what was told of them, and  *)
(* the id of the order each is about.                                      *)
LEMMA AckTypes ==
  ASSUME GatewayInv
  PROVE  /\ acks.sent \in Seq(LOBAck)
         /\ \A n \in DOMAIN acks.sent : /\ acks.sent[n].system_id \in SystemIds
                                       /\ Relayed(acks.sent[n]) \in UserAck
         /\ acks.read \in Nat /\ Len(acks.sent) \in Nat /\ Len(userAcks) \in Nat
<1>1. acks.sent \in Seq(LOBAck) /\ acks.read \in Nat /\ userAcks \in Seq(UserAck)
  BY DEF GatewayInv, ThreadTypes
<1>2. Len(acks.sent) \in Nat /\ Len(userAcks) \in Nat
  BY <1>1
<1>3. ASSUME NEW n \in DOMAIN acks.sent
      PROVE  acks.sent[n].system_id \in SystemIds /\ Relayed(acks.sent[n]) \in UserAck
  <2>1. PICK a \in LOBAck : a = acks.sent[n]
    BY <1>1
  <2>2. /\ a.system_id \in SystemIds /\ a.price \in Prices \cup Nat /\ a.quantity \in Nat
        /\ a.status \in Statuses
    BY <2>1 DEF LOBAck
  <2>3. LUT[a.system_id] \in Nat
    BY <2>2 DEF GatewayInv, ThreadTypes
  <2>4. LUT[a.system_id] % Word \in 0 .. Word - 1
    BY ONLY SMT, <2>3, OrderGatewayAssumption
  <2> QED BY <2>1, <2>2, <2>4 DEF Relayed, UserAck
<1> QED BY <1>1, <1>2, <1>3

LEMMA RelayStep ==
  ASSUME GatewayInv, RelayAck
  PROVE  GatewayInv'
<1>1. PICK k \in Nat : k = acks.read
  BY AckTypes
<1>2. Len(userAcks) = k /\ k + 1 \in DOMAIN acks.sent /\ k < Len(acks.sent)
  BY <1>1, AckTypes DEF GatewayInv, AcksRelayed, RelayAck
<1>3. PICK a : a = acks.sent[k + 1]
  OBVIOUS
<1>4. PICK u \in UserAck : u = Relayed(a)
  BY <1>2, <1>3, AckTypes
<1>5. a.system_id \in SystemIds
  BY <1>2, <1>3, AckTypes
<1>6. /\ userAcks' = Append(userAcks, u) /\ gateway' = "release_ack" /\ gateway = "ack"
      /\ UNCHANGED <<flags, main, alpha, requests, inHand, sentLog, idVars, lob, dropped, acks>>
  <2>1. SystemToOrderId(a.system_id) = LUT[a.system_id]
    BY <1>5, OrderGatewayAssumption DEF SystemToOrderId, SystemIds
  <2> QED BY <1>1, <1>3, <1>4, <2>1 DEF RelayAck, Relayed
<1>7. userAcks \in Seq(UserAck)
  BY DEF GatewayInv, ThreadTypes
<1>8. /\ userAcks' \in Seq(UserAck) /\ Len(userAcks') = k + 1 /\ DOMAIN userAcks' = 1 .. k + 1
      /\ DOMAIN userAcks = 1 .. k
      /\ userAcks'[k + 1] = u /\ \A n \in 1 .. k : userAcks'[n] = userAcks[n]
  <2>1. userAcks' \in Seq(UserAck) /\ Len(userAcks') = k + 1
    BY <1>2, <1>6, <1>7, AppendProperties
  <2> QED BY <1>2, <1>6, <1>7, <2>1
<1>9. ThreadTypes'
  <2>1. inHand = None /\ sentLog = None
    BY Zenon, <1>6 DEF GatewayInv, ThreadTypes
  <2> QED BY <1>6, <1>8, <2>1 DEF GatewayInv, ThreadTypes, idVars
<1>10. HandOK' /\ LogOK' /\ IdsLead'
  <2>1. sentLog' = None /\ ~ InHand'
    BY <1>6 DEF GatewayInv, ThreadTypes, InHand
  <2> QED BY <1>6, <2>1 DEF GatewayInv, HandOK, LogOK, InHand, IdsLead, idVars
<1>11. AcksRelayed'
  <2>1. ASSUME NEW n \in 1 .. k + 1
        PROVE  userAcks'[n] = Relayed(acks.sent[n])
    <3>1. n = k + 1 \/ n \in 1 .. k
      OBVIOUS
    <3>2. CASE n = k + 1
      BY <1>3, <1>4, <1>8, <3>2
    <3>3. CASE n \in 1 .. k
      BY <1>8, <3>3 DEF GatewayInv, AcksRelayed
    <3> QED BY <3>1, <3>2, <3>3
  <2>2. k + 1 <= Len(acks.sent)
    BY <1>2, AckTypes
  <2> QED BY <1>1, <1>6, <1>8, <2>1, <2>2 DEF GatewayInv, AcksRelayed, Relayed, idVars
<1>12. ForwardedOnceInOrder'
  <2>1. \A s \in Sources : (Taken(s) = Taken(s)')
    BY <1>6 DEF Taken
  <2> QED BY <1>6, <2>1, TakenStands DEF GatewayInv, ThreadTypes
<1> QED BY <1>9, <1>10, <1>11, <1>12 DEF GatewayInv

LEMMA ReleaseAckStep ==
  ASSUME GatewayInv, ReleaseAck
  PROVE  GatewayInv'
<1>1. PICK k \in Nat : k = acks.read
  BY AckTypes
<1>2. Len(userAcks) = k + 1 /\ k + 1 <= Len(acks.sent)
  BY <1>1, AckTypes DEF GatewayInv, AcksRelayed, ReleaseAck
<1>3. /\ acks'.sent = acks.sent /\ acks'.read = k + 1
      /\ DOMAIN acks' = DOMAIN acks /\ k + 1 \in Nat
  <2>1. acks' = [acks EXCEPT !.read = k + 1] /\ k + 1 \in Nat
    BY <1>1 DEF ReleaseAck
  <2> QED BY <2>1 DEF GatewayInv, ThreadTypes
<1>4. /\ gateway = "release_ack" /\ gateway' = "loop"
      /\ UNCHANGED <<flags, main, alpha, requests, inHand, sentLog, idVars, lob, dropped, userAcks>>
  BY DEF ReleaseAck
<1>5. inHand = None /\ sentLog = None
  BY <1>4 DEF GatewayInv, ThreadTypes
<1>6. ThreadTypes'
  BY <1>2, <1>3, <1>4, <1>5 DEF GatewayInv, ThreadTypes, idVars
<1>7. HandOK' /\ LogOK' /\ IdsLead'
  BY <1>4, <1>5 DEF GatewayInv, HandOK, LogOK, InHand, IdsLead, idVars
<1>8. AcksRelayed'
  BY <1>2, <1>3, <1>4 DEF GatewayInv, AcksRelayed, Relayed, idVars
<1>9. ForwardedOnceInOrder'
  <2>1. \A s \in Sources : (Taken(s) = Taken(s)')
    BY <1>4 DEF Taken
  <2> QED BY <1>4, <2>1, TakenStands DEF GatewayInv, ThreadTypes
<1> QED BY <1>6, <1>7, <1>8, <1>9 DEF GatewayInv

-----------------------------------------------------------------------------
(* The engine's steps, as far as the gateway sees them. *)

(* What a step of the engine that leaves the rest alone keeps: what is said*)
(* of the queue to the engine, and what is said of the acknowledgements.   *)
LobKept ==
  /\ lob' \in [sent : Seq(LOBOrder), read : Nat] /\ lob'.read <= Len(lob'.sent)
  /\ HandOK' /\ IdsLead' /\ LogOK' /\ ForwardedOnceInOrder'

AcksKept ==
  /\ acks'.sent \in Seq(LOBAck) /\ acks'.read \in Nat /\ acks'.read <= Len(acks'.sent)
  /\ AcksRelayed'

LEMMA FillStep ==
  ASSUME GatewayInv, lob.read < Len(lob.sent),
         NEW n \in 0 .. lob.sent[lob.read + 1].quantity,
         lob' = [lob EXCEPT !.sent[lob.read + 1].quantity = n],
         UNCHANGED <<gateway, requests, inHand, sentLog, idVars, dropped>>
  PROVE  LobKept
<1>1. PICK q \in Seq(LOBOrder) : q = lob.sent
  BY DEF GatewayInv, ThreadTypes
<1>2. PICK k \in DOMAIN q : k = lob.read + 1
  BY <1>1 DEF GatewayInv, ThreadTypes
<1>3. PICK e \in LOBOrder : e = q[k]
  BY <1>1, <1>2
<1>4. e.quantity \in 0 .. Word - 1 /\ Word \in Nat
  BY <1>3, OrderGatewayAssumption DEF LOBOrder
<1>5. /\ n \in 0 .. e.quantity
      /\ lob' = [lob EXCEPT !.sent = [q EXCEPT ![k] = [e EXCEPT !.quantity = n]]]
  BY <1>1, <1>2, <1>3
<1>6. PICK f \in LOBOrder : f = [e EXCEPT !.quantity = n]
  <2>1. n \in 0 .. Word - 1
    BY <1>4, <1>5
  <2>2. [e EXCEPT !.quantity = n] \in LOBOrder
    BY <2>1 DEF LOBOrder
  <2> QED BY <2>2
<1>7. /\ f.quantity = n /\ f.from = e.from /\ f.system_id = e.system_id
      /\ f = [e EXCEPT !.quantity = f.quantity]
  BY <1>6 DEF LOBOrder
<1>8. PICK q1 \in Seq(LOBOrder) : q1 = [q EXCEPT ![k] = f]
  <2>1. k \in 1 .. Len(q)
    OBVIOUS
  <2> QED BY <2>1, ExceptSeq
<1>9. /\ lob'.sent = q1 /\ lob'.read = lob.read /\ lob' \in [sent : Seq(LOBOrder), read : Nat]
      /\ DOMAIN q1 = DOMAIN q /\ Len(q1) = Len(q) /\ Len(q) \in Nat
      /\ q1[k] = f /\ \A m \in DOMAIN q : m # k => q1[m] = q[m]
  <2>1. lob' = [lob EXCEPT !.sent = q1]
    BY <1>5, <1>6, <1>8
  <2>2. /\ DOMAIN q1 = DOMAIN q /\ Len(q1) = Len(q) /\ Len(q) \in Nat
        /\ q1[k] = f /\ \A m \in DOMAIN q : m # k => q1[m] = q[m]
    BY <1>8, ExceptSeq
  <2> QED BY <2>1, <2>2 DEF GatewayInv, ThreadTypes
<1>10. \A m \in DOMAIN q : q1[m].from = q[m].from /\ q1[m].system_id = q[m].system_id
  BY ONLY Zenon, <1>3, <1>7, <1>9
<1>11. lob' \in [sent : Seq(LOBOrder), read : Nat] /\ lob'.read <= Len(lob'.sent)
  BY <1>1, <1>9 DEF GatewayInv, ThreadTypes
<1>12. HandOK'
  BY DEF GatewayInv, HandOK, InHand, HasRequest, HeadOf, idVars
<1>13. IdsLead'
  <2>1. UNCHANGED <<next_system_id, LUT>>
    BY Zenon DEF idVars
  <2>2. PICK D : D = DOMAIN lob.sent /\ D = DOMAIN lob'.sent
    BY Zenon, <1>1, <1>9
  <2>3. \A m \in D : /\ lob'.sent[m].from = lob.sent[m].from
                    /\ lob'.sent[m].system_id = lob.sent[m].system_id
    BY <1>1, <1>9, <1>10, <2>2
  <2>4. ASSUME NEW m \in D
        PROVE  /\ LET p == lob'.sent[m].from IN
                  /\ lob'.sent[m].system_id < next_system_id'
                  /\ LUT'[lob'.sent[m].system_id] = Store[p[1]][p[2]].order_id
               /\ m <= lob'.sent[m].system_id + 1
               /\ gateway' = "forward" => lob'.sent[m].system_id < inHand'.system_id
    <3>1. /\ LET p == lob.sent[m].from IN
             /\ lob.sent[m].system_id < next_system_id
             /\ LUT[lob.sent[m].system_id] = Store[p[1]][p[2]].order_id
          /\ m <= lob.sent[m].system_id + 1
          /\ gateway = "forward" => lob.sent[m].system_id < inHand.system_id
      BY Zenon, <2>2 DEF GatewayInv, IdsLead
    <3>2. UNCHANGED <<gateway, inHand>>
      BY Zenon
    <3> QED BY ONLY Zenon, <2>1, <2>3, <3>1, <3>2
  <2>5. ASSUME NEW i \in D, NEW j \in D, i < j
        PROVE  lob'.sent[i].system_id < lob'.sent[j].system_id
    <3>1. lob.sent[i].system_id < lob.sent[j].system_id
      BY Zenon, <2>2, <2>5 DEF GatewayInv, IdsLead
    <3> QED BY ONLY Zenon, <2>3, <3>1
  <2> QED BY Zenon, <2>2, <2>4, <2>5 DEF IdsLead
<1>14. LogOK'
  <2>1. Request(inHand.source)' = Request(inHand.source)
    BY DEF Request, HeadOf
  <2>2. ASSUME gateway = "log"
        PROVE  q1 # <<>> /\ IsLeftOf(q1[Len(q1)], Request(inHand.source))
    <3>1. PICK r \in LOBOrder : r = Request(inHand.source)
      BY <2>2, RequestTypes DEF GatewayInv, InHand
    <3>2. q # <<>> /\ q[Len(q)] = [r EXCEPT !.quantity = q[Len(q)].quantity]
          /\ q[Len(q)].quantity <= r.quantity
      BY <1>1, <2>2, <3>1 DEF GatewayInv, LogOK, IsLeftOf
    <3>3. Len(q) \in DOMAIN q /\ q1 # <<>>
      BY <1>9, <3>2
    <3>4. CASE k # Len(q)
      BY ONLY SMT, <1>9, <3>1, <3>2, <3>3, <3>4 DEF IsLeftOf
    <3>5. CASE k = Len(q)
      <4>1. e = [r EXCEPT !.quantity = e.quantity] /\ e.quantity <= r.quantity
        BY <1>3, <3>2, <3>5
      <4>2. [[r EXCEPT !.quantity = e.quantity] EXCEPT !.quantity = f.quantity]
              = [r EXCEPT !.quantity = f.quantity]
        BY <3>1 DEF LOBOrder
      <4>3. f = [r EXCEPT !.quantity = f.quantity]
        BY <1>7, <4>1, <4>2
      <4>4. r.quantity \in Int
        BY <3>1, OrderGatewayAssumption DEF LOBOrder
      <4>5. f.quantity <= r.quantity
        BY <1>4, <1>5, <1>7, <4>1, <4>4
      <4> QED BY <1>9, <3>1, <3>3, <3>5, <4>3, <4>5 DEF IsLeftOf
    <3> QED BY <3>4, <3>5
  <2>3. sentLog # None => IsLeftOf(sentLog, Request(inHand.source))
    BY DEF GatewayInv, LogOK
  <2> QED BY <1>9, <2>1, <2>2, <2>3 DEF LogOK, IsLeftOf
<1>15. ForwardedOnceInOrder'
  <2>1. \A s \in Sources : (Taken(s) = Taken(s)')
    BY DEF Taken
  <2> QED BY <1>1, <1>9, <1>10, <2>1, TakenStands
<1> QED BY <1>11, <1>12, <1>13, <1>14, <1>15 DEF LobKept

LEMMA EngineTakeStep ==
  ASSUME GatewayInv, lob.read < Len(lob.sent), lob' = [lob EXCEPT !.read = @ + 1],
         UNCHANGED <<gateway, requests, inHand, sentLog, idVars, dropped>>
  PROVE  LobKept
<1>1. /\ lob'.sent = lob.sent /\ lob' \in [sent : Seq(LOBOrder), read : Nat]
      /\ lob'.read <= Len(lob'.sent)
  <2>1. lob.sent \in Seq(LOBOrder) /\ lob.read \in Nat
    BY DEF GatewayInv, ThreadTypes
  <2>2. Len(lob.sent) \in Nat
    BY <2>1
  <2>3. lob.read + 1 \in Nat /\ lob.read + 1 <= Len(lob.sent)
    BY <2>1, <2>2
  <2>4. lob' = [lob EXCEPT !.read = lob.read + 1]
    OBVIOUS
  <2> QED BY <2>3, <2>4 DEF GatewayInv, ThreadTypes
<1>2. HandOK' /\ IdsLead'
  BY Zenon, <1>1 DEF GatewayInv, HandOK, InHand, HasRequest, HeadOf, IdsLead, idVars
<1>3. LogOK'
  BY Zenon, <1>1 DEF GatewayInv, LogOK, IsLeftOf, Request, HeadOf
<1>4. ForwardedOnceInOrder'
  <2>1. \A s \in Sources : (Taken(s) = Taken(s)')
    BY DEF Taken
  <2> QED BY <1>1, <2>1, TakenStands DEF GatewayInv, ThreadTypes
<1> QED BY <1>1, <1>2, <1>3, <1>4 DEF LobKept

LEMMA EngineAckStep ==
  ASSUME GatewayInv, NEW a \in LOBAck, a.system_id < next_system_id,
         acks'.sent = Append(acks.sent, a), acks'.read = acks.read,
         UNCHANGED <<gateway, idVars, userAcks>>
  PROVE  AcksKept
<1>1. PICK k \in Nat : k = Len(acks.sent)
  BY AckTypes
<1>2. /\ acks'.sent \in Seq(LOBAck) /\ Len(acks'.sent) = k + 1
      /\ DOMAIN acks'.sent = 1 .. k + 1 /\ DOMAIN acks.sent = 1 .. k
      /\ acks'.sent[k + 1] = a /\ \A m \in 1 .. k : acks'.sent[m] = acks.sent[m]
  <2>1. acks.sent \in Seq(LOBAck)
    BY AckTypes
  <2>2. PICK q \in Seq(LOBAck) : q = Append(acks.sent, a)
    BY <2>1, AppendProperties
  <2>3. /\ Len(q) = k + 1 /\ DOMAIN q = 1 .. k + 1 /\ DOMAIN acks.sent = 1 .. k
        /\ q[k + 1] = a /\ \A m \in 1 .. k : q[m] = acks.sent[m]
    BY <1>1, <2>1, <2>2
  <2> QED BY <2>2, <2>3
<1>3. acks'.read <= Len(acks'.sent)
  <2>1. acks.read \in Nat /\ acks.read <= k
    BY <1>1 DEF GatewayInv, ThreadTypes
  <2> QED BY <1>1, <1>2, <2>1
<1>4. AcksRelayed'
  <2>1. \A m \in 1 .. k + 1 : m = k + 1 \/ m \in 1 .. k
    BY <1>1
  <2>2. \A m \in 1 .. k + 1 : acks'.sent[m].system_id < next_system_id
    BY <1>2, <2>1 DEF GatewayInv, AcksRelayed
  <2>3. Len(userAcks) <= k + 1 /\ DOMAIN userAcks \subseteq 1 .. k
    <3>1. Len(userAcks) \in Nat /\ Len(userAcks) <= k
      BY <1>1, AckTypes DEF GatewayInv, AcksRelayed
    <3>2. DOMAIN userAcks = 1 .. Len(userAcks)
      BY DEF GatewayInv, ThreadTypes
    <3> QED BY <1>1, <3>1, <3>2
  <2>4. \A m \in DOMAIN userAcks : userAcks[m] = Relayed(acks'.sent[m])
    BY <1>2, <2>3 DEF GatewayInv, AcksRelayed
  <2> QED BY <1>2, <2>2, <2>3, <2>4 DEF GatewayInv, AcksRelayed, Relayed, idVars
<1> QED BY <1>2, <1>3, <1>4 DEF AcksKept, GatewayInv, ThreadTypes

(* A step of the engine: it fills or takes the request at the head of its  *)
(* queue, or does not touch it, and acknowledges something or nothing.     *)
LobTouched ==
  \/ lob' = lob
  \/ /\ lob.read < Len(lob.sent)
     /\ \/ lob' = [lob EXCEPT !.read = @ + 1]
        \/ \E n \in 0 .. lob.sent[lob.read + 1].quantity :
             lob' = [lob EXCEPT !.sent[lob.read + 1].quantity = n]

AcksTouched ==
  /\ {"sent", "read"} \subseteq DOMAIN acks'
  /\ acks'.read = acks.read
  /\ \/ acks'.sent = acks.sent
     \/ \E a \in LOBAck : a.system_id < next_system_id /\ acks'.sent = Append(acks.sent, a)

LEMMA EngineStep ==
  ASSUME GatewayInv, LobTouched, AcksTouched,
         UNCHANGED <<gateway, requests, inHand, sentLog, idVars, dropped, userAcks>>
  PROVE  GatewayInv'
<1>1. LobKept
  <2>1. CASE lob' = lob
    <3>1. HandOK' /\ IdsLead' /\ LogOK'
      BY Zenon, <2>1 DEF GatewayInv, HandOK, InHand, HasRequest, HeadOf, IdsLead, idVars, LogOK,
        IsLeftOf, Request
    <3>2. \A s \in Sources : (Taken(s) = Taken(s)')
      BY DEF Taken
    <3>3. ForwardedOnceInOrder'
      BY <2>1, <3>2, TakenStands DEF GatewayInv, ThreadTypes
    <3> QED BY <2>1, <3>1, <3>3 DEF LobKept, GatewayInv, ThreadTypes
  <2> QED BY <2>1, FillStep, EngineTakeStep DEF LobTouched
<1>2. AcksKept
  <2>1. CASE acks'.sent = acks.sent
    BY <2>1 DEF AcksTouched, AcksKept, GatewayInv, ThreadTypes, AcksRelayed, Relayed, idVars
  <2> QED BY <2>1, EngineAckStep DEF AcksTouched
<1>3. ThreadTypes'
  BY <1>1, <1>2 DEF GatewayInv, ThreadTypes, LobKept, AcksKept, AcksTouched, idVars
<1> QED BY <1>1, <1>2, <1>3 DEF GatewayInv, LobKept, AcksKept

-----------------------------------------------------------------------------
(* The theorems. *)

LEMMA GatewayStep ==
  ASSUME GatewayInv, Gateway
  PROVE  GatewayInv'
<1>1. CASE GatewayLooksForStart
  BY <1>1, MoveStep DEF GatewayLooksForStart
<1>2. CASE GatewayLooksForEnd
  BY <1>2, MoveStep DEF GatewayLooksForEnd
<1>3. CASE NextRound
  BY <1>3, MoveStep DEF NextRound
<1>4. CASE NothingToTake
  <2>1. PICK s \in Sources : GatewayMoves(s, AfterSource[s])
    BY <1>4 DEF NothingToTake
  <2>2. s \in {"sniper", "maker"} /\ AfterSource[s] \in {"maker", "ack"}
    BY <2>1 DEF Sources, AfterSource
  <2> QED BY <2>1, <2>2, MoveStep
<1>5. CASE TakeOutOfIds
  <2>1. GatewayMoves(gateway, "undefined") /\ gateway \in {"sniper", "maker"}
    BY <1>5 DEF TakeOutOfIds, GatewayMoves, Sources
  <2>2. PICK from : from = gateway
    OBVIOUS
  <2> QED BY <2>1, <2>2, MoveStep
<1>6. CASE Forward
  <2>1. CASE gateway' = "log"
    BY <1>6, <2>1, PublishStep DEF Forward
  <2>2. CASE gateway' = "release"
    BY <1>6, <2>2, DropStep DEF Forward
  <2> QED BY <1>6, <2>1, <2>2 DEF Forward
<1>7. CASE NoAckRelayed
  BY <1>7, MoveStep DEF NoAckRelayed
<1>8. CASE Report
  BY <1>8, MoveStep DEF Report
<1> QED BY <1>1, <1>2, <1>3, <1>4, <1>5, <1>6, <1>7, <1>8, TakeStep, LogStep, ReleaseStep,
  RelayStep, ReleaseAckStep DEF Gateway

(* The engine of OrderGateway sends "T" under the id of a request.         *)
LEMMA EngineAcksStep ==
  ASSUME GatewayInv, EngineAcks
  PROVE  GatewayInv'
<1>1. PICK k \in Nat : k = Len(acks.sent)
  BY AckTypes
<1>2. PICK n \in DOMAIN lob.sent :
        acks' = [acks EXCEPT !.sent = Append(@,
          [system_id |-> lob.sent[n].system_id, price |-> lob.sent[n].price,
           quantity |-> k + 1, status |-> "T"])]
  BY <1>1 DEF EngineAcks
<1>3. PICK e \in LOBOrder : e = lob.sent[n]
  BY DEF GatewayInv, ThreadTypes
<1>4. e.system_id \in SystemIds /\ e.price \in Prices /\ e.system_id < next_system_id
  <2>1. e.system_id \in SystemIds /\ e.price \in Prices
    BY <1>3 DEF LOBOrder
  <2>2. e.system_id < next_system_id
    BY <1>3 DEF GatewayInv, IdsLead
  <2> QED BY <2>1, <2>2
<1>5. PICK a \in LOBAck : a = [system_id |-> e.system_id, price |-> e.price,
                              quantity |-> k + 1, status |-> "T"]
  <2>1. k + 1 \in Nat
    OBVIOUS
  <2> QED BY <1>4, <2>1 DEF LOBAck, Statuses
<1>6. a.system_id < next_system_id
  BY <1>4, <1>5
<1>7. acks' = [acks EXCEPT !.sent = Append(acks.sent, a)]
  BY <1>2, <1>3, <1>5
<1>8. /\ acks'.sent = Append(acks.sent, a) /\ acks'.read = acks.read
      /\ {"sent", "read"} \subseteq DOMAIN acks'
  BY <1>7 DEF GatewayInv, ThreadTypes
<1> QED BY <1>6, <1>8, EngineStep DEF EngineAcks, LobTouched, AcksTouched

(* The invariant holds in every state. *)
LEMMA GatewayNext ==
  ASSUME GatewayInv, [Next]_vars
  PROVE  GatewayInv'
<1>1. CASE Main \/ UNCHANGED vars
  BY <1>1, OtherStep DEF Main, MainStarts, MainEnds, MainSets, vars
<1>2. CASE MakerSends
  BY <1>2, SendStep DEF MakerSends, Sources
<1>3. CASE EngineFills
  <2>1. PICK r \in LOBOrder : r = lob.sent[lob.read + 1]
    BY <1>3 DEF EngineFills, GatewayInv, ThreadTypes
  <2>2. \A n \in 0 .. r.quantity - 1 : n \in 0 .. r.quantity
    <3>1. PICK n \in Nat : n = r.quantity
      BY <2>1, OrderGatewayAssumption DEF LOBOrder
    <3>2. \A i \in 0 .. n - 1 : i \in 0 .. n
      BY ONLY <3>1
    <3> QED BY Zenon, <3>1, <3>2
  <2>3. LobTouched /\ AcksTouched
    BY <1>3, <2>1, <2>2 DEF EngineFills, LobTouched, AcksTouched, GatewayInv, ThreadTypes
  <2> QED BY <1>3, <2>3, EngineStep DEF EngineFills
<1>4. CASE EngineTakes
  <2>1. LobTouched /\ AcksTouched
    BY <1>4 DEF EngineTakes, LobTouched, AcksTouched, GatewayInv, ThreadTypes
  <2> QED BY <1>4, <2>1, EngineStep DEF EngineTakes
<1> QED BY <1>1, <1>2, <1>3, <1>4, AlphaStep, GatewayStep, EngineAcksStep DEF Next

LEMMA GatewayInvariant == Spec => []GatewayInv
<1>1. Init => GatewayInv
  BY GatewayInit DEF Init
<1> QED BY <1>1, GatewayNext, PTL DEF Spec

(* The types of what others than the gateway write.                        *)
OwnTypes ==
  /\ main \in {"starting", "started", "running", "told", "joining"}
  /\ flags \subseteq {"start_gateway", "start_alpha", "terminate_gateway", "terminate_alpha"}
  /\ alpha \in {"wait", "check", "send", "done"}
  /\ acks = [sent |-> acks.sent, read |-> acks.read]

(* Every variable of the gateway has its type: no id is written beyond the *)
(* table without the model noticing, and the copy for the log exists only  *)
(* while the order is in hand.                                             *)
THEOREM GatewayTypeCorrect == Spec => []GatewayTypeOK
<1>1. Init => OwnTypes
  BY DEF Init, InitThreads, OwnTypes
<1>2. OwnTypes /\ [Next]_vars => OwnTypes'
  <2> SUFFICES ASSUME OwnTypes, [Next]_vars PROVE OwnTypes'
    OBVIOUS
  <2>1. CASE Main
    BY <2>1 DEF Main, MainStarts, MainEnds, MainSets, OwnTypes, outVars
  <2>2. CASE Alpha
    BY <2>2 DEF Alpha, AlphaLooksForStart, AlphaLooksForEnd, AlphaSends, AlphaReturns, AlphaMoves,
      Send, OwnTypes, outVars
  <2>3. CASE MakerSends \/ UNCHANGED vars
    BY <2>3 DEF MakerSends, Send, vars, OwnTypes, outVars
  <2>4. CASE Gateway
    <3>1. UNCHANGED <<flags, main, alpha>> /\ acks' = [sent |-> acks'.sent, read |-> acks'.read]
      BY <2>4 DEF OwnTypes, Gateway, GatewayLooksForStart, GatewayLooksForEnd, NextRound, NothingToTake,
        GatewayMoves, Take, TakeOutOfIds, Forward, LogSent, Release, NoAckRelayed, RelayAck,
        ReleaseAck, Report, outVars
    <3> QED BY <3>1 DEF OwnTypes
  <2>5. CASE EngineFills \/ EngineTakes \/ EngineAcks
    <3>1. UNCHANGED <<flags, main, alpha>> /\ acks' = [sent |-> acks'.sent, read |-> acks'.read]
      BY <2>5 DEF OwnTypes, EngineFills, EngineTakes, EngineAcks
    <3> QED BY <3>1 DEF OwnTypes
  <2> QED BY <2>1, <2>2, <2>3, <2>4, <2>5 DEF Next
<1>3. GatewayInv /\ OwnTypes => GatewayTypeOK
  <2> SUFFICES ASSUME GatewayInv, OwnTypes PROVE GatewayTypeOK
    OBVIOUS
  <2>1. acks \in [sent : Seq(LOBAck), read : Nat]
    BY DEF GatewayInv, ThreadTypes, OwnTypes
  <2> QED BY <2>1 DEF GatewayInv, ThreadTypes, OwnTypes, GatewayTypeOK, ThreadTypeOK
<1> QED BY <1>1, <1>2, <1>3, GatewayInvariant, PTL DEF Spec

(* Every order taken is forwarded, once and in the order of its queue, or  *)
(* dropped, for any stores and any sizes of the rings.                     *)
THEOREM GatewayForwardsOnce == Spec => []ForwardedOnceInOrder
<1>1. GatewayInv => ForwardedOnceInOrder
  BY DEF GatewayInv
<1> QED BY <1>1, GatewayInvariant, PTL

(* The relayed acknowledgements, by the table that the ids lead through.   *)
LEMMA AcksTold == GatewayInv => AcksReachTheirOrder
<1> SUFFICES ASSUME GatewayInv PROVE AcksReachTheirOrder
  BY Zenon
<1>1. ASSUME NEW n \in DOMAIN userAcks, NEW m \in DOMAIN lob.sent,
             lob.sent[m].system_id = acks.sent[n].system_id
      PROVE  userAcks[n] =
               [order_id |-> Store[lob.sent[m].from[1]][lob.sent[m].from[2]].order_id % Word,
                price |-> acks.sent[n].price, quantity |-> acks.sent[n].quantity,
                status |-> acks.sent[n].status]
  <2>1. userAcks[n] = Relayed(acks.sent[n])
    BY DEF GatewayInv, AcksRelayed
  <2>2. LUT[lob.sent[m].system_id] = Store[lob.sent[m].from[1]][lob.sent[m].from[2]].order_id
    BY DEF GatewayInv, IdsLead
  <2> QED BY Zenon, <1>1, <2>1, <2>2 DEF Relayed
<1>2. Len(userAcks) = acks.read + IF gateway = "release_ack" THEN 1 ELSE 0
  BY DEF GatewayInv, AcksRelayed
<1> QED BY Zenon, <1>1, <1>2 DEF AcksReachTheirOrder

(* Every acknowledgement reaches the client complete, in order and under   *)
(* the id of its order, whatever was dropped before it.                    *)
THEOREM GatewayAcksReachTheirOrder == Spec => []AcksReachTheirOrder
BY AcksTold, GatewayInvariant, PTL

(* What the log shows as sent is the request that was sent, with at most   *)
(* its quantity.                                                           *)
THEOREM GatewayLogsOwnRequest == Spec => []LogShowsOwnRequest
<1>1. GatewayInv => LogShowsOwnRequest
  BY DEF GatewayInv, LogOK, IsLeftOf, LogShowsOwnRequest
<1> QED BY <1>1, GatewayInvariant, PTL
=============================================================================
