------------------------------- MODULE Logger -------------------------------
(***************************************************************************)
(* The logger thread (header/logger.h, class Async_Logger) between the two *)
(* rings it drains and the file it writes.                                 *)
(*                                                                         *)
(* The engine and the gateway log from the places listed in Sites; an      *)
(* element that finds its ring full is not logged.  The rings are FIFO     *)
(* queues, which is what LFQueue shows them to be.  The elements of a ring *)
(* are numbered in a cycle, so that the producers may log for ever; of the *)
(* text only its length matters.                                           *)
(***************************************************************************)
EXTENDS Integers, Sequences

CONSTANTS
  Slots,        \* what each ring holds: its size less one
  Limit,        \* LIMIT: elements of a batch
  BufferBytes,  \* sizeof(buffer)
  SafetyBytes,  \* the bytes at the end of the buffer that a batch does not begin an element in
  Cycle         \* bound of the model: numbers of the elements of a ring

Rings == {"engine", "gateway"}

(* The numbers of elements, and the number after n. *)
Numbers == 0 .. Cycle - 1

After(n) == (n + 1) % Cycle

ASSUME LoggerAssumption ==
  /\ Slots \in [Rings -> Nat \ {0}]
  /\ Limit \in Nat \ {0} /\ BufferBytes \in Nat /\ SafetyBytes \in 0 .. BufferBytes
  /\ Cycle \in Nat /\ Cycle > Limit      \* a batch lost or written twice shows

VARIABLES
  running,    \* the flag that stop() clears
  producing,  \* the engine or the gateway may still log
  ring,       \* the elements in each ring
  next,       \* the number of the next element of each ring
  logger,     \* where run() is: in a ring's batch, or between batches
  batch,      \* the numbers of the elements formatted in the batch
  offset,     \* the bytes they take in the buffer
  file        \* the number that the file has to go on with for each ring

vars == <<running, producing, ring, next, logger, batch, offset, file>>

Init ==
  /\ running = TRUE /\ producing = TRUE
  /\ ring = [r \in Rings |-> <<>>] /\ next = [r \in Rings |-> 0]
  /\ logger = "opening" /\ batch = <<>> /\ offset = 0
  /\ file = [r \in Rings |-> 0]

-----------------------------------------------------------------------------
(* The producers: the log_id each place sets, and what it assigns to       *)
(* log_data.                                                               *)

EngineSites ==
  {<<3, "LOBOrder">>,     \* readOrder
   <<4, "LOBOrder">>,     \* aggresiveMatch
   <<5, "LOBOrder">>,     \* create_order
   <<6, "LOBOrder">>,     \* deleteOrder
   <<7, "LOBOrder">>}     \* updateOrder

AckLoggedAsReceived ==           \* mutant: what was received is logged as what was sent
  {<<1, "UserOrder">>, <<2, "LOBOrder">>, <<9, "LOBAck">>, <<10, "LOBAck">>}

GatewaySites ==
  {<<1, "UserOrder">>,    \* an order of a participant arrived
   <<2, "LOBOrder">>,     \* it was sent to the engine
   <<9, "LOBAck">>,       \* an acknowledgement arrived
   <<10, "UserAck">>}     \* it was sent to the client

Sites == [engine |-> EngineSites, gateway |-> GatewaySites]

Log(r) ==
  /\ producing
  /\ Len(ring[r]) < Slots[r]
  /\ \E s \in Sites[r] :
       ring' = [ring EXCEPT ![r] =
         Append(@, [log_id |-> s[1], alternative |-> s[2], number |-> next[r]])]
  /\ next' = [next EXCEPT ![r] = After(@)]
  /\ UNCHANGED <<running, producing, logger, batch, offset, file>>

(* main joins the engine and the gateway before it stops the logger. *)
ProducersEnd ==
  /\ producing
  /\ producing' = FALSE
  /\ UNCHANGED <<running, ring, next, logger, batch, offset, file>>

Stop ==
  /\ ~ producing /\ running
  /\ running' = FALSE
  /\ UNCHANGED <<producing, ring, next, logger, batch, offset, file>>

-----------------------------------------------------------------------------
(* The text of an element: its labels and separators, five numbers of at   *)
(* most 20 digits in an order, two in an acknowledgement, and a price.     *)

NumberBytes == 20
FloatBytes == NumberBytes + 3

TextBytes ==
  [UserOrder |-> 102 + 5 * NumberBytes + FloatBytes,
   LOBOrder  |-> 120 + 5 * NumberBytes + FloatBytes,
   LOBAck    |-> 44 + 2 * NumberBytes + FloatBytes,
   UserAck   |-> 43 + 2 * NumberBytes + FloatBytes]

ElementBytes(alternative) == 19 + 2 * NumberBytes + TextBytes[alternative] + 2

(* The margin that the code calls safety is wide enough for any element.   *)
ASSUME SafetyAssumption ==
  \A a \in DOMAIN TextBytes : ElementBytes(a) <= SafetyBytes

(* What the switch on log_id takes from the variant. *)
Alternative(log_id) ==
  CASE log_id = 1 -> "UserOrder"
    [] log_id \in 2 .. 7 -> "LOBOrder"
    [] log_id \in {8, 9} -> "LOBAck"
    [] log_id = 10 -> "UserAck"

-----------------------------------------------------------------------------
(* run and drainBatch. *)

LoggerMoves(from, to) ==
  /\ logger = from
  /\ logger' = to
  /\ UNCHANGED <<running, producing, ring, next, batch, offset, file>>

(* A file that cannot be opened ends the thread at once. *)
Open == LoggerMoves("opening", "loop") \/ LoggerMoves("opening", "done")

NextRound == IF running THEN LoggerMoves("loop", "engine") ELSE LoggerMoves("loop", "done")

RoomUncounted ==                 \* mutant: a batch ends with the buffer only
  offset < BufferBytes - SafetyBytes

RoomWhileInside ==               \* mutant: the safety margin is forgotten
  Len(batch) < Limit /\ offset < BufferBytes

Room == Len(batch) < Limit /\ offset < BufferBytes - SafetyBytes

Draining == logger \in Rings /\ Room /\ ring[logger] # <<>>

(* The element at the head of the ring is formatted and released. *)
FormatKeepsHead ==               \* mutant: the last element of a full batch is not released
  /\ batch' = Append(batch, Head(ring[logger]).number)
  /\ offset' = offset + ElementBytes(Head(ring[logger]).alternative)
  /\ ring' = [ring EXCEPT ![logger] = IF Len(batch) + 1 = Limit THEN @ ELSE Tail(@)]
  /\ UNCHANGED <<running, producing, next, logger, file>>

Format ==
  /\ batch' = Append(batch, Head(ring[logger]).number)
  /\ offset' = offset + ElementBytes(Head(ring[logger]).alternative)
  /\ ring' = [ring EXCEPT ![logger] = Tail(@)]
  /\ UNCHANGED <<running, producing, next, logger, file>>

(* An alternative that the variant does not hold: std::get throws, out of  *)
(* a function that is noexcept.                                            *)
Drain ==
  /\ Draining
  /\ IF Head(ring[logger]).alternative = Alternative(Head(ring[logger]).log_id)
       THEN Format
       ELSE LoggerMoves(logger, "terminated")

AfterBusyBatch(r) ==             \* mutant: the second ring is drained when the first was empty
  IF r = "engine" /\ batch = <<>> THEN "gateway" ELSE "loop"

AfterBatch(r) == IF r = "engine" THEN "gateway" ELSE "loop"

(* What was formatted is written at the end of the batch. *)
EndBatch ==
  /\ logger \in Rings
  /\ ~ Draining
  /\ file' = IF batch = <<>> THEN file
             ELSE [file EXCEPT ![logger] = After(batch[Len(batch)])]
  /\ batch' = <<>> /\ offset' = 0
  /\ logger' = AfterBatch(logger)
  /\ UNCHANGED <<running, producing, ring, next>>

LoggerStep == Open \/ NextRound \/ Drain \/ EndBatch

Producers == (\E r \in Rings : Log(r)) \/ ProducersEnd

Next == Producers \/ Stop \/ LoggerStep

Spec == Init /\ [][Next]_vars

(* The logger's thread is scheduled again and again; nothing is asked of   *)
(* the threads that log, which may go on for ever.                         *)
FairSpec == Spec /\ WF_vars(LoggerStep)

-----------------------------------------------------------------------------
(* Properties. *)

Element == [log_id : 1 .. 10, alternative : DOMAIN TextBytes, number : Numbers]

(* Every variable has its type. *)
LoggerTypeOK ==
  /\ running \in BOOLEAN /\ producing \in BOOLEAN /\ (producing => running)
  /\ ring \in [Rings -> Seq(Element)] /\ \A r \in Rings : Len(ring[r]) <= Slots[r]
  /\ next \in [Rings -> Numbers] /\ file \in [Rings -> Numbers]
  /\ logger \in Rings \cup {"opening", "loop", "done", "terminated"}
  /\ batch \in Seq(Numbers) /\ Len(batch) <= Limit /\ offset \in Nat
  /\ logger \in {"opening", "loop", "done"} => batch = <<>> /\ offset = 0

(* The alternative that log_id makes the logger take from the variant is   *)
(* the one that the producer stored there, at each of the nine places that *)
(* set the two.                                                            *)
NeverTerminated == logger # "terminated"

(* However the elements mix, the text of a batch stays within the buffer:  *)
(* the writers of the text check no bound, and the loop only the offset    *)
(* before each element.                                                    *)
BufferNeverOverflows == offset <= BufferBytes

(* The numbers on their way to the file: the elements formatted, then those *)
(* that wait in the ring, and the next to be published.                    *)
Formatted(r) == IF logger = r THEN batch ELSE <<>>

Waiting(r, i) == IF i <= Len(ring[r]) THEN ring[r][i].number ELSE next[r]

OnTheWay(r) == Formatted(r) \o [i \in 1 .. Len(ring[r]) + 1 |-> Waiting(r, i)]

(* The file shows the elements of each ring in the order in which they     *)
(* were published, none twice and none left out, whatever ended a batch:   *)
(* the limit, the buffer or an empty ring; and once the thread has ended,  *)
(* only what still is in the rings is missing from it.                     *)
FileInOrder ==
  \A r \in Rings :
    /\ OnTheWay(r)[1] = file[r]
    /\ \A i \in 2 .. Len(OnTheWay(r)) : OnTheWay(r)[i] = After(OnTheWay(r)[i - 1])

(* What is published is taken from its ring in the end, unless the thread  *)
(* ends before: a producer that never stops logging does not keep the      *)
(* logger from the other ring.                                             *)
RingsServed ==
  \A r \in Rings : \A n \in Numbers :
    ring[r] # <<>> /\ ring[r][1].number = n
      ~> (ring[r] # <<>> => ring[r][1].number # n) \/ logger = "done"

=============================================================================
