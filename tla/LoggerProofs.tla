---------------------------- MODULE LoggerProofs ----------------------------
(* Theorems about Logger: what holds for all rings, limits and buffers.    *)
EXTENDS Logger, SequenceTheorems, TLAPS

-----------------------------------------------------------------------------
(* Facts about constants. *)

(* The numbers are those from zero, and After stays among them. *)
LEMMA NumberFacts ==
  /\ Numbers \subseteq Nat /\ 0 \in Numbers
  /\ \A n \in Numbers : After(n) \in Numbers
BY LoggerAssumption DEF Numbers, After

(* The places that log set a log_id and an alternative that exist, and the *)
(* switch takes that alternative.                                          *)
LEMMA SitesAgree ==
  ASSUME NEW r \in Rings, NEW s \in Sites[r]
  PROVE  s[1] \in 1 .. 10 /\ s[2] \in DOMAIN TextBytes /\ s[2] = Alternative(s[1])
BY DEF Rings, Sites, EngineSites, GatewaySites, TextBytes, Alternative

(* An element takes a number of bytes that the safety margin holds. *)
LEMMA BytesFit ==
  ASSUME NEW a \in DOMAIN TextBytes
  PROVE  ElementBytes(a) \in Nat /\ ElementBytes(a) <= SafetyBytes
<1>1. TextBytes[a] \in Nat
  BY DEF TextBytes, NumberBytes, FloatBytes
<1> QED BY <1>1, SafetyAssumption DEF ElementBytes, NumberBytes

-----------------------------------------------------------------------------
(* Types. *)

(* One step keeps the types. *)
LEMMA StepKeepsTypes ==
  ASSUME LoggerTypeOK, [Next]_vars
  PROVE  LoggerTypeOK'
<1> USE NumberFacts, LoggerAssumption
<1>1. CASE UNCHANGED vars
  BY <1>1 DEF LoggerTypeOK, vars
<1>2. ASSUME NEW r \in Rings, Log(r) PROVE LoggerTypeOK'
  <2>1. PICK s \in Sites[r] :
          ring' = [ring EXCEPT ![r] =
            Append(@, [log_id |-> s[1], alternative |-> s[2], number |-> next[r]])]
    BY <1>2 DEF Log
  <2>2. [log_id |-> s[1], alternative |-> s[2], number |-> next[r]] \in Element
    BY SitesAgree DEF Element, LoggerTypeOK
  <2>3. /\ ring' \in [Rings -> Seq(Element)]
        /\ \A q \in Rings : Len(ring'[q]) <= Slots[q]
    BY <1>2, <2>1, <2>2 DEF LoggerTypeOK, Log
  <2>4. next' \in [Rings -> Numbers]
    BY <1>2 DEF LoggerTypeOK, Log
  <2> QED BY <1>2, <2>3, <2>4 DEF LoggerTypeOK, Log
<1>3. CASE ProducersEnd
  BY <1>3 DEF LoggerTypeOK, ProducersEnd
<1>4. CASE Stop
  BY <1>4 DEF LoggerTypeOK, Stop
<1>5. CASE Open
  BY <1>5 DEF LoggerTypeOK, Open, LoggerMoves, Rings
<1>6. CASE NextRound
  BY <1>6 DEF LoggerTypeOK, NextRound, LoggerMoves, Rings
<1>7. ASSUME Drain, Format PROVE LoggerTypeOK'
  <2>1. /\ logger \in Rings /\ ring[logger] # <<>>
        /\ Len(batch) < Limit
    BY <1>7 DEF Drain, Draining, Room
  <2>2. Head(ring[logger]) \in Element /\ Tail(ring[logger]) \in Seq(Element)
        /\ Len(Tail(ring[logger])) = Len(ring[logger]) - 1
    BY <2>1, HeadTailProperties DEF LoggerTypeOK
  <2>3. batch' \in Seq(Numbers) /\ Len(batch') <= Limit
    BY <1>7, <2>1, <2>2 DEF Format, LoggerTypeOK, Element
  <2>4. offset' \in Nat
    <3>1. PICK e \in Element : e = Head(ring[logger])
      BY Zenon, <2>2
    <3>2. ElementBytes(e.alternative) \in Nat
      BY <3>1, BytesFit DEF Element
    <3>3. offset \in Nat /\ offset' = offset + ElementBytes(e.alternative)
      BY Zenon, <1>7, <3>1 DEF Format, LoggerTypeOK
    <3> QED BY ONLY <3>2, <3>3
  <2>5. /\ ring' \in [Rings -> Seq(Element)]
        /\ \A q \in Rings : Len(ring'[q]) <= Slots[q]
    BY <1>7, <2>1, <2>2 DEF Format, LoggerTypeOK
  <2> QED BY <1>7, <2>1, <2>3, <2>4, <2>5 DEF Format, LoggerTypeOK, Rings
<1>8. ASSUME Drain, LoggerMoves(logger, "terminated") PROVE LoggerTypeOK'
  BY <1>8 DEF LoggerTypeOK, LoggerMoves
<1>9. CASE EndBatch
  <2>1. batch # <<>> => batch[Len(batch)] \in Numbers
    BY DEF LoggerTypeOK
  <2>2. file' \in [Rings -> Numbers]
    BY <1>9, <2>1 DEF EndBatch, LoggerTypeOK
  <2> QED BY <1>9, <2>2 DEF EndBatch, LoggerTypeOK, AfterBatch, Rings
<1> QED
  BY <1>1, <1>2, <1>3, <1>4, <1>5, <1>6, <1>7, <1>8, <1>9 DEF Next, Producers, LoggerStep, Drain

LEMMA InitTypes == Init => LoggerTypeOK
BY NumberFacts, LoggerAssumption DEF Init, LoggerTypeOK, Rings

(* The variables have their types in every state. *)
THEOREM LoggerTypeCorrect == Spec => []LoggerTypeOK
BY InitTypes, StepKeepsTypes, PTL DEF Spec

-----------------------------------------------------------------------------
(* The logger never ends with an exception: every element that waits holds *)
(* the alternative that its log_id stands for, because each place that     *)
(* logs sets the two together.                                             *)
Agrees(e) == e.alternative = Alternative(e.log_id)

ElementsAgree == \A r \in Rings : \A i \in 1 .. Len(ring[r]) : Agrees(ring[r][i])

AgreeInv == LoggerTypeOK /\ ElementsAgree /\ NeverTerminated

(* A step that publishes one element or releases one keeps the rest. *)
LEMMA StepKeepsAgreement ==
  ASSUME AgreeInv, [Next]_vars
  PROVE  AgreeInv'
<1>1. SUFFICES ElementsAgree' /\ NeverTerminated'
  BY StepKeepsTypes DEF AgreeInv
<1>2. CASE UNCHANGED vars
  BY <1>2 DEF AgreeInv, ElementsAgree, NeverTerminated, vars
<1>3. ASSUME NEW r \in Rings, Log(r) PROVE ElementsAgree' /\ NeverTerminated'
  <2>1. PICK s \in Sites[r] :
          ring' = [ring EXCEPT ![r] =
            Append(@, [log_id |-> s[1], alternative |-> s[2], number |-> next[r]])]
    BY <1>3 DEF Log
  <2> DEFINE e == [log_id |-> s[1], alternative |-> s[2], number |-> next[r]]
  <2>2. Agrees(e)
    BY SitesAgree DEF Agrees
  <2>3. e \in Element
    BY SitesAgree DEF Element, AgreeInv, LoggerTypeOK
  <2> HIDE DEF e
  <2>4. /\ ring[r] \in Seq(Element)
        /\ \A q \in Rings \ {r} : ring'[q] = ring[q]
        /\ ring'[r] = Append(ring[r], e)
    BY <2>1 DEF AgreeInv, LoggerTypeOK, e
  <2>5. \A i \in 1 .. Len(ring'[r]) : Agrees(ring'[r][i])
    BY <2>2, <2>3, <2>4 DEF AgreeInv, ElementsAgree
  <2>6. ElementsAgree'
    <3> SUFFICES ASSUME NEW q \in Rings, NEW i \in 1 .. Len(ring'[q])
                 PROVE  Agrees(ring'[q][i])
      BY Zenon DEF ElementsAgree, Agrees
    <3>1. CASE q = r
      BY Zenon, <2>5, <3>1
    <3>2. CASE q # r
      BY Zenon, <2>4, <3>2 DEF AgreeInv, ElementsAgree
    <3> QED BY Zenon, <3>1, <3>2
  <2> QED BY <1>3, <2>6 DEF Log, AgreeInv, NeverTerminated
<1>4. CASE ProducersEnd
  BY <1>4 DEF AgreeInv, ElementsAgree, NeverTerminated, ProducersEnd
<1>5. CASE Stop
  BY <1>5 DEF AgreeInv, ElementsAgree, NeverTerminated, Stop
<1>6. CASE Open
  BY <1>6 DEF AgreeInv, ElementsAgree, NeverTerminated, Open, LoggerMoves
<1>7. CASE NextRound
  BY <1>7 DEF AgreeInv, ElementsAgree, NeverTerminated, NextRound, LoggerMoves
<1>8. CASE Drain
  <2>1. logger \in Rings /\ ring[logger] \in Seq(Element) /\ ring[logger] # <<>>
    BY <1>8 DEF Drain, Draining, AgreeInv, LoggerTypeOK
  <2>2. Agrees(Head(ring[logger]))
    BY <2>1 DEF AgreeInv, ElementsAgree
  <2>3. Format
    BY <1>8, <2>2 DEF Drain, Agrees
  <2>4. /\ \A q \in Rings \ {logger} : ring'[q] = ring[q]
        /\ ring'[logger] = Tail(ring[logger])
    BY <2>1, <2>3 DEF Format, AgreeInv, LoggerTypeOK
  <2>5. \A i \in 1 .. Len(ring'[logger]) : Agrees(ring'[logger][i])
    BY <2>1, <2>4 DEF AgreeInv, ElementsAgree
  <2>6. ElementsAgree'
    <3> SUFFICES ASSUME NEW q \in Rings, NEW i \in 1 .. Len(ring'[q])
                 PROVE  Agrees(ring'[q][i])
      BY Zenon DEF ElementsAgree, Agrees
    <3>1. CASE q = logger
      BY Zenon, <2>5, <3>1
    <3>2. CASE q # logger
      BY Zenon, <2>4, <3>2 DEF AgreeInv, ElementsAgree
    <3> QED BY Zenon, <3>1, <3>2
  <2> QED BY <2>3, <2>6 DEF Format, AgreeInv, NeverTerminated
<1>9. CASE EndBatch
  BY <1>9 DEF AgreeInv, ElementsAgree, NeverTerminated, EndBatch, AfterBatch
<1> QED
  BY <1>2, <1>3, <1>4, <1>5, <1>6, <1>7, <1>8, <1>9
  DEF Next, Producers, LoggerStep

LEMMA InitAgrees == Init => AgreeInv
BY InitTypes DEF Init, AgreeInv, ElementsAgree, NeverTerminated

LEMMA SpecAgrees == Spec => []AgreeInv
BY InitAgrees, StepKeepsAgreement, PTL DEF Spec

(* No element makes std::get throw. *)
THEOREM LoggerNeverTerminates == Spec => []NeverTerminated
<1>1. AgreeInv => NeverTerminated
  BY DEF AgreeInv
<1> QED BY <1>1, SpecAgrees, PTL

-----------------------------------------------------------------------------
(* The buffer: an element is begun below the margin, which holds it.       *)
LEMMA StepKeepsBuffer ==
  ASSUME AgreeInv, BufferNeverOverflows, [Next]_vars
  PROVE  BufferNeverOverflows'
<1> USE DEF BufferNeverOverflows
<1>1. CASE UNCHANGED <<offset>>
  BY <1>1
<1>2. CASE Drain /\ Format
  <2>1. Head(ring[logger]) \in Element /\ offset \in Nat
    BY <1>2 DEF Drain, Draining, AgreeInv, LoggerTypeOK
  <2>2. ElementBytes(Head(ring[logger]).alternative) <= SafetyBytes
        /\ ElementBytes(Head(ring[logger]).alternative) \in Nat
    BY <2>1, BytesFit DEF Element
  <2>3. offset < BufferBytes - SafetyBytes
    BY <1>2 DEF Drain, Draining, Room
  <2> QED BY <1>2, <2>1, <2>2, <2>3, LoggerAssumption DEF Format
<1>3. CASE EndBatch
  BY <1>3, LoggerAssumption DEF EndBatch
<1>4. CASE Drain /\ ~ Format
  BY <1>1, <1>4 DEF Drain, LoggerMoves
<1> QED
  BY <1>1, <1>2, <1>3, <1>4
  DEF Next, Producers, LoggerStep, vars, Log, ProducersEnd, Stop, Open, NextRound, LoggerMoves

(* The text of a batch stays within the buffer, for every size of the      *)
(* buffer and of the margin.                                               *)
THEOREM LoggerBufferSafe == Spec => []BufferNeverOverflows
<1>1. Init => BufferNeverOverflows
  BY LoggerAssumption DEF Init, BufferNeverOverflows
<1> QED BY <1>1, SpecAgrees, StepKeepsBuffer, PTL DEF Spec

-----------------------------------------------------------------------------
(* The order of the file.  FileInOrder says that the numbers on the way to *)
(* it follow one another; as an inductive invariant it is split where the  *)
(* batch ends, so that no step has to rearrange a concatenation.           *)

(* The number that the waiting elements of r go on with. *)
Expected(r) ==
  IF logger = r /\ batch # <<>> THEN After(batch[Len(batch)]) ELSE file[r]

BatchInOrder ==
  logger \in Rings /\ batch # <<>> =>
    /\ batch[1] = file[logger]
    /\ \A i \in 2 .. Len(batch) : batch[i] = After(batch[i - 1])

WaitingInOrder ==
  \A r \in Rings :
    /\ Waiting(r, 1) = Expected(r)
    /\ \A i \in 2 .. Len(ring[r]) + 1 : Waiting(r, i) = After(Waiting(r, i - 1))

OrderInv == AgreeInv /\ BatchInOrder /\ WaitingInOrder

(* A step that leaves the rings, the batch and the file as they are, and   *)
(* does not leave a batch begun, keeps the order.                          *)
LEMMA QuietStep ==
  ASSUME OrderInv, UNCHANGED <<ring, next, batch, file>>,
         logger' = logger \/ batch = <<>>
  PROVE  BatchInOrder' /\ WaitingInOrder'
<1>1. BatchInOrder'
  BY DEF OrderInv, BatchInOrder
<1>2. \A r \in Rings : Expected(r)' = Expected(r)
  BY DEF Expected
<1>3. \A r \in Rings, i \in Nat : Waiting(r, i)' = Waiting(r, i)
  BY DEF Waiting
<1> QED
  BY <1>1, <1>2, <1>3 DEF OrderInv, AgreeInv, LoggerTypeOK, WaitingInOrder, Waiting, Expected

(* An element is published with the number that was next. *)
LEMMA LogKeepsOrder ==
  ASSUME OrderInv, NEW r \in Rings, Log(r)
  PROVE  BatchInOrder' /\ WaitingInOrder'
<1>1. PICK s \in Sites[r] :
        ring' = [ring EXCEPT ![r] =
          Append(@, [log_id |-> s[1], alternative |-> s[2], number |-> next[r]])]
  BY DEF Log
<1> DEFINE e == [log_id |-> s[1], alternative |-> s[2], number |-> next[r]]
<1>2. e \in Element /\ e.number = next[r]
  BY SitesAgree DEF Element, OrderInv, AgreeInv, LoggerTypeOK
<1> HIDE DEF e
<1>3. /\ ring[r] \in Seq(Element)
      /\ \A q \in Rings \ {r} : ring'[q] = ring[q] /\ next'[q] = next[q]
      /\ ring'[r] = Append(ring[r], e) /\ next'[r] = After(next[r])
      /\ UNCHANGED <<logger, batch, file>>
  BY <1>1 DEF OrderInv, AgreeInv, LoggerTypeOK, Log, e
<1>4. BatchInOrder'
  BY <1>3 DEF OrderInv, BatchInOrder
<1>5. \A q \in Rings : Expected(q)' = Expected(q)
  BY <1>3 DEF Expected
<1>6. ASSUME NEW q \in Rings \ {r}
      PROVE  /\ Waiting(q, 1)' = Expected(q)'
             /\ \A i \in 2 .. Len(ring'[q]) + 1 : Waiting(q, i)' = After(Waiting(q, i - 1)')
  BY <1>3, <1>5 DEF OrderInv, WaitingInOrder, Waiting
<1>7. /\ Len(ring'[r]) = Len(ring[r]) + 1
      /\ \A i \in 1 .. Len(ring[r]) + 1 : Waiting(r, i)' = Waiting(r, i)
      /\ \A i \in Nat : i = Len(ring[r]) + 2 => Waiting(r, i)' = After(Waiting(r, i - 1))
  BY <1>2, <1>3 DEF Waiting
<1>8. /\ Waiting(r, 1)' = Expected(r)'
      /\ \A i \in 2 .. Len(ring'[r]) + 1 : Waiting(r, i)' = After(Waiting(r, i - 1)')
  <2>1. Len(ring[r]) \in Nat
    BY <1>3
  <2>2. /\ Waiting(r, 1) = Expected(r)
        /\ \A i \in 2 .. Len(ring[r]) + 1 : Waiting(r, i) = After(Waiting(r, i - 1))
    BY DEF OrderInv, WaitingInOrder
  <2>3. Waiting(r, 1)' = Expected(r)'
    BY <1>5, <1>7, <2>1, <2>2
  <2>4. ASSUME NEW i \in 2 .. Len(ring[r]) + 2
        PROVE  Waiting(r, i)' = After(Waiting(r, i - 1)')
    <3>1. CASE i = Len(ring[r]) + 2
      <4>1. i - 1 = Len(ring[r]) + 1 /\ i - 1 \in 1 .. Len(ring[r]) + 1
        BY <2>1, <3>1
      <4>2. Waiting(r, i - 1)' = Waiting(r, i - 1)
        BY <1>7, <4>1
      <4> QED BY <1>7, <3>1, <4>1, <4>2
    <3>2. CASE i # Len(ring[r]) + 2
      <4>1. i \in 2 .. Len(ring[r]) + 1 /\ i - 1 \in 1 .. Len(ring[r]) + 1
        BY <2>1, <3>2
      <4> QED BY <1>7, <2>1, <2>2, <4>1
    <3> QED BY <3>1, <3>2
  <2> QED BY <1>7, <2>1, <2>3, <2>4
<1> QED BY <1>4, <1>6, <1>8 DEF WaitingInOrder

(* What is formatted goes from the head of the ring to the end of the      *)
(* batch.                                                                  *)
LEMMA FormatKeepsOrder ==
  ASSUME OrderInv, Draining, Format, NEW r \in Rings, logger = r
  PROVE  BatchInOrder' /\ WaitingInOrder'
<1>1. /\ ring[r] \in Seq(Element) /\ ring[r] # <<>>
      /\ batch \in Seq(Numbers) /\ logger' = r
  BY DEF OrderInv, AgreeInv, LoggerTypeOK, Draining, Format
<1>2. /\ Head(ring[r]).number = Waiting(r, 1)
      /\ Waiting(r, 1) \in Numbers
  <2>1. Len(ring[r]) >= 1 /\ Head(ring[r]) = ring[r][1] /\ ring[r][1] \in Element
    BY <1>1
  <2>2. Waiting(r, 1) = ring[r][1].number
    BY <2>1 DEF Waiting
  <2> QED BY <2>1, <2>2 DEF Element
<1>3. /\ batch' = Append(batch, Waiting(r, 1))
      /\ \A q \in Rings \ {r} : ring'[q] = ring[q]
      /\ ring'[r] = Tail(ring[r])
      /\ UNCHANGED <<next, file>>
  BY <1>1, <1>2 DEF Format, OrderInv, AgreeInv, LoggerTypeOK
<1>4. /\ Waiting(r, 1) = Expected(r)
      /\ \A i \in 2 .. Len(ring[r]) + 1 : Waiting(r, i) = After(Waiting(r, i - 1))
  BY <1>1 DEF OrderInv, WaitingInOrder
<1>5. BatchInOrder'
  <2>1. batch'[1] = file'[r]
    BY <1>1, <1>2, <1>3, <1>4 DEF Expected, OrderInv, BatchInOrder
  <2>2. ASSUME NEW i \in 2 .. Len(batch')
        PROVE  batch'[i] = After(batch'[i - 1])
    <3>1. CASE i = Len(batch) + 1
      BY <1>1, <1>2, <1>3, <1>4, <3>1 DEF Expected
    <3>2. CASE i # Len(batch) + 1
      BY <1>1, <1>2, <1>3, <3>2 DEF OrderInv, BatchInOrder
    <3> QED BY <3>1, <3>2
  <2> QED BY <1>1, <2>1, <2>2 DEF BatchInOrder
<1>6. ASSUME NEW q \in Rings \ {r}
      PROVE  /\ Waiting(q, 1)' = Expected(q)'
             /\ \A i \in 2 .. Len(ring'[q]) + 1 : Waiting(q, i)' = After(Waiting(q, i - 1)')
  BY <1>1, <1>3 DEF OrderInv, WaitingInOrder, Waiting, Expected
<1>7. /\ Len(ring'[r]) = Len(ring[r]) - 1
      /\ \A i \in 1 .. Len(ring[r]) : Waiting(r, i)' = Waiting(r, i + 1)
  <2>1. /\ Len(Tail(ring[r])) = Len(ring[r]) - 1
        /\ \A i \in 1 .. Len(Tail(ring[r])) : Tail(ring[r])[i] = ring[r][i + 1]
    BY <1>1, HeadTailProperties
  <2>2. Len(ring[r]) \in Nat
    BY <1>1
  <2> QED BY <1>3, <2>1, <2>2 DEF Waiting
<1>8. Expected(r)' = After(Waiting(r, 1))
  BY <1>1, <1>2, <1>3 DEF Expected
<1>9. /\ Waiting(r, 1)' = Expected(r)'
      /\ \A i \in 2 .. Len(ring'[r]) + 1 : Waiting(r, i)' = After(Waiting(r, i - 1)')
  <2>1. Len(ring[r]) \in Nat \ {0}
    BY <1>1
  <2>2. Waiting(r, 1)' = Waiting(r, 2) /\ Waiting(r, 2) = After(Waiting(r, 1))
    BY <1>4, <1>7, <2>1
  <2>3. ASSUME NEW i \in 2 .. Len(ring[r])
        PROVE  Waiting(r, i)' = After(Waiting(r, i - 1)')
    <3>1. i \in 1 .. Len(ring[r]) /\ i - 1 \in 1 .. Len(ring[r]) /\ i + 1 \in 2 .. Len(ring[r]) + 1
      BY <2>1
    <3>2. Waiting(r, i)' = Waiting(r, i + 1) /\ Waiting(r, i - 1)' = Waiting(r, i)
      BY <1>7, <3>1
    <3> QED BY <1>4, <3>1, <3>2
  <2> QED BY <1>7, <1>8, <2>1, <2>2, <2>3
<1> QED BY <1>5, <1>6, <1>9 DEF WaitingInOrder

(* A batch that is written takes the file to where the batch ended. *)
LEMMA EndBatchKeepsOrder ==
  ASSUME OrderInv, EndBatch
  PROVE  BatchInOrder' /\ WaitingInOrder'
<1>1. logger \in Rings /\ batch' = <<>> /\ UNCHANGED <<ring, next>>
  BY DEF EndBatch
<1>2. BatchInOrder'
  BY <1>1 DEF BatchInOrder
<1>3. \A r \in Rings : Expected(r)' = Expected(r)
  BY <1>1 DEF Expected, EndBatch, OrderInv, AgreeInv, LoggerTypeOK
<1> QED BY <1>1, <1>2, <1>3 DEF OrderInv, WaitingInOrder, Waiting

(* Every step keeps the order. *)
LEMMA StepKeepsOrder ==
  ASSUME OrderInv, [Next]_vars
  PROVE  OrderInv'
<1>1. SUFFICES BatchInOrder' /\ WaitingInOrder'
  BY StepKeepsAgreement DEF OrderInv
<1>2. ASSUME NEW r \in Rings, Log(r) PROVE BatchInOrder' /\ WaitingInOrder'
  BY <1>2, LogKeepsOrder
<1>3. CASE Drain
  <2>1. logger' # "terminated"
    BY StepKeepsAgreement DEF OrderInv, AgreeInv, NeverTerminated
  <2>2. Format
    BY <1>3, <2>1 DEF Drain, LoggerMoves
  <2> QED BY <1>3, <2>2, FormatKeepsOrder DEF Drain, Draining
<1>4. CASE EndBatch
  BY <1>4, EndBatchKeepsOrder
<1>5. CASE UNCHANGED vars \/ ProducersEnd \/ Stop
  BY <1>5, QuietStep DEF vars, ProducersEnd, Stop
<1>6. CASE Open \/ NextRound
  BY <1>6, QuietStep DEF Open, NextRound, LoggerMoves, OrderInv, AgreeInv, LoggerTypeOK
<1> QED
  BY <1>2, <1>3, <1>4, <1>5, <1>6 DEF Next, Producers, LoggerStep

(* The two halves of the line are one line. *)
LEMMA OrderShown == OrderInv => FileInOrder
<1>1. SUFFICES ASSUME OrderInv, NEW r \in Rings
               PROVE  /\ OnTheWay(r)[1] = file[r]
                      /\ \A i \in 2 .. Len(OnTheWay(r)) : OnTheWay(r)[i] = After(OnTheWay(r)[i - 1])
  BY DEF FileInOrder
<1> DEFINE b == Formatted(r)
           n == Len(b)
           m == Len(ring[r]) + 1
           w == [i \in 1 .. m |-> Waiting(r, i)]
<1>2. b \in Seq(Numbers) /\ n \in Nat /\ m \in Nat \ {0}
  BY <1>1 DEF OrderInv, AgreeInv, LoggerTypeOK, Formatted
<1>3. w \in Seq(Numbers) /\ Len(w) = m /\ \A i \in 1 .. m : w[i] = Waiting(r, i)
  <2>1. \A i \in 1 .. m : Waiting(r, i) \in Numbers
    <3>1. next[r] \in Numbers /\ ring[r] \in Seq(Element)
      BY <1>1 DEF OrderInv, AgreeInv, LoggerTypeOK
    <3>2. \A i \in 1 .. Len(ring[r]) : ring[r][i] \in Element
      BY <3>1
    <3>3. \A i \in 1 .. Len(ring[r]) : ring[r][i].number \in Numbers
      BY <3>2 DEF Element
    <3> QED BY <3>1, <3>3 DEF Waiting
  <2> QED BY <1>2, <2>1
<1>4. /\ n = 0 => Expected(r) = file[r]
      /\ n > 0 => b[1] = file[r] /\ Expected(r) = After(b[n])
      /\ \A i \in 2 .. n : b[i] = After(b[i - 1])
  BY <1>1, <1>2 DEF OrderInv, BatchInOrder, Expected, Formatted, AgreeInv, LoggerTypeOK
<1>5. /\ w[1] = Expected(r)
      /\ \A i \in 2 .. m : w[i] = After(w[i - 1])
  BY <1>1, <1>2, <1>3 DEF OrderInv, WaitingInOrder
<1>6. OnTheWay(r) = b \o w
  BY DEF OnTheWay
<1> HIDE DEF b, n, m, w
<1>7. /\ Len(b \o w) = n + m
      /\ \A i \in 1 .. n : (b \o w)[i] = b[i]
      /\ \A i \in n + 1 .. n + m : (b \o w)[i] = w[i - n]
  <2>1. /\ Len(b \o w) = n + m
        /\ \A i \in 1 .. n + m : (b \o w)[i] = IF i <= n THEN b[i] ELSE w[i - n]
    BY <1>2, <1>3, ConcatProperties DEF n
  <2> QED BY <1>2, <2>1
<1>8. (b \o w)[1] = file[r]
  BY <1>2, <1>4, <1>5, <1>7
<1>9. ASSUME NEW i \in 2 .. n + m
      PROVE  (b \o w)[i] = After((b \o w)[i - 1])
  <2>1. CASE i <= n
    <3>1. i \in 2 .. n /\ i \in 1 .. n /\ i - 1 \in 1 .. n
      BY <1>2, <2>1
    <3> QED BY <1>4, <1>7, <3>1
  <2>2. CASE i = n + 1
    BY <1>2, <1>4, <1>5, <1>7, <2>2
  <2>3. CASE i > n + 1
    <3>1. i \in n + 1 .. n + m /\ i - 1 \in n + 1 .. n + m /\ i - n \in 2 .. m
      BY <1>2, <2>3
    <3>2. (i - 1) - n = (i - n) - 1
      BY <1>2
    <3>3. (b \o w)[i] = w[i - n] /\ (b \o w)[i - 1] = w[(i - n) - 1]
      BY <1>7, <3>1, <3>2
    <3> QED BY <1>5, <3>1, <3>3
  <2>4. i <= n \/ i = n + 1 \/ i > n + 1
    BY <1>2
  <2> QED BY <2>1, <2>2, <2>3, <2>4
<1> QED BY <1>6, <1>7, <1>8, <1>9

LEMMA InitOrdered == Init => OrderInv
BY InitAgrees, NumberFacts DEF Init, OrderInv, BatchInOrder, WaitingInOrder, Waiting, Expected

(* The file shows each ring's elements in order, for every size of the     *)
(* rings, of the batch and of the buffer.                                  *)
THEOREM LoggerFileInOrder == Spec => []FileInOrder
BY InitOrdered, StepKeepsOrder, OrderShown, PTL DEF Spec

=============================================================================
