# TradeEngine: specification and verification

TLA+ specifications of the trading engine in `src/`, TLC configurations that check them on small
instances, and proofs that TLAPS checks for all instances. The program is one process with five
threads: `main`, the client (`AlphaServer`), the `OrderGateway`, the `MatchingEngine` and the
`Async_Logger`, connected by single-producer single-consumer rings (`LFQueue`).

    AlphaServer --sniperOrder--> OrderGateway --lob--> MatchingEngine --broadCast--> (no reader)
    AlphaServer <--sniperAck---  OrderGateway <-lobAck-- MatchingEngine
      (never reads)               |                      |
                                  +------ log rings -----+--> Async_Logger --> eventLog.log

## 1. Inventory

| component | state it keeps | operations | what is hard | what makes it correct |
|---|---|---|---|---|
| limit order book, `header/lob_struct.h` | levels of entries, id table `LUT`, `active_counts`, `best_price` | `createOrder`, `UpdateOrderQuantity`, `deleteOrder`, `peekOrder`, gliding of the best price | four redundant structures changed by hand; entries are emptied but never removed; index -1, level 0 and `max_price_possible` | the table leads each order to its entry, counts do not drift, best price is exact, no order overtakes another |
| matching engine, `matching/matching.cpp` | two books, the request in its slot (reduced in place), the loop position | `readOrder`, `create_order`, `updateOrder`, `deleteOrder`, `aggresiveMatch`, `changeInQuantity`, `Ack` | deletion in the middle of an iteration; loops that end only if the books are consistent; a full ring answered by waiting in one place and by dropping in another | price-time priority, an uncrossed book, messages that add up to the book, every request ends |
| ring, `header/lock_free_queue.h` | slots, two atomic indices | `getNextToWriteTo`, `updateWriteIndex`, `getNextToRead`, `updateReadIndex` | two threads, slots filled in place, wrap-around | no torn read, FIFO, no failed assertion |
| order gateway, `order_gateway/order_gateway.cpp` | `next_system_id`, `LUT` (system id to order id), `map` (written, never read) | a round: one sniper order, one maker order, one acknowledgement | a full ring drops an order or stops the relay; every request gets a fresh id | orders once and in order, acknowledgements under the right order |
| client, `alpha_tester.cpp` | `TestStore`, its position | send in order, wait while the ring is full | ignores its terminate flag while it sends; reads no acknowledgement | does not prevent shutdown |
| `main.cpp` | six flags | start, terminate, join | flags set one by one while threads poll them | all threads end |
| logger, `header/logger.h` | `running`, the batch in its buffer | `run`, `drainBatch`, `stop` | two rings that fill while they are drained; text written without bounds; `log_id` and variant set in nine places; no drain after stop | each ring in order in the file, no overflow, no ring left waiting |
| thread start, `header/Thread.h` | `running`, `failed` | handshake with the new thread | locals used by reference after return, null thread pointer | the new thread runs what it was given |
| price arithmetic | | `price * 10` truncated, `float_to_char` | tenths are no floats | each tick has its own level |
| `bench.h` | measured times | `showBenchmark` | reads of an empty vector | only these reads are modelled |
| `prewarmer.h`, `memoryPool.h`, examples | warm-up; the pool is included nowhere | | | not modelled, see section 7 |

Interaction is by rings only, apart from the flags of `main.cpp`. `PROJECT.json` lists the hazards
with their lines and the properties aimed at them; where no property catches one, such as the
truncation of quantities to 32 bits, its note says why.

## 2. Modules

| module | models |
|---|---|
| `OrderBook` | one `limitedOrderBook<isBuy>`; `isBuy` is a constant, so the module is instantiated twice by the engine |
| `MatchingEngine` | the engine thread on a `Buy` and a `Sell` instance of `OrderBook`; the gateway appears as `Arrival` and `TakeAck` |
| `PriceTimeMatching` | abstract: a set of resting orders and one incoming order, matched by price and time; implemented by `MatchingEngine` |
| `LFQueue` | the ring, a writer thread and a reader thread, one step for each access to a field of a slot or to the other thread's index |
| `BoundedFIFO` | abstract: a queue of at most N - 1 items; implemented by `LFQueue` |
| `OrderGateway` | the gateway thread, the client thread and the flags by which `main` starts and ends these two |
| `Logger` | the logger thread, the two log rings and the places that log |
| `ThreadStart` | `createAndStartThread` and the new thread up to the call of its function |
| `TradeEngine` | the program: `main` statement by statement, with `ThreadStart`, `OrderGateway` and `MatchingEngine` as instances |
| `PriceTicks` | prices in single precision, their levels and their texts |
| `MCOrderBook`, `MCMatchingEngine`, `MCOrderGateway`, `MCLogger`, `MCTradeEngine` | values for TLC, and two statements of comments that the code does not keep |
| `OrderBookProofs`, `LFQueueProofs`, `LoggerProofs`, `OrderGatewayProofs`, `PriceTimeProofs`, `PriceTicksProofs` | theorems about one component |
| `MatchingEngineProofs` | theorems about the engine: books, market data and acknowledgements; prices and the refinement of `PriceTimeMatching` |
| `TradeEngineProofs` | theorems about the program, from those of the gateway and the engine |

**OrderBook.** A level is a sequence of entries. Columns count from 1 (from 0 in the code). A price
is a member of `Prices`, and `PriceIndex` is `static_cast<size_t>(price * 10)`: the TLC instances
let two prices share a level, as truncation does. `CreateOrder`, `UpdateOrderQuantity` (with
`Reduce` and `Enlarge`), `DeleteOrder` and `TakeQuantity` are whole member functions or statements
of the matching loop; `Glides` is the loop of `glide_best_prize`. The operations are enabled only
where the code indexes within its vectors; `MatchingEngine.OutOfBounds` lists the accesses where it
does not, and leads to `pc = "undefined"`, where the model stops. `BookSpec` uses one book the way
the engine does: an id is created while it does not rest, an amendment carries the entry's price,
a fill leaves something, a deletion is of a resting id.

**MatchingEngine.** `pc` follows the handler of one request. A pass of the `for` loop is
`TradeNext` (subtract, tell the aggressor), `TellResting` (tell the owner of the entry; the gateway
may read in between) and `Settle` (delete what was filled, leave or go on). The buy and the sell
branch of `aggresiveMatch` are one set of actions, with the comparison and the book chosen by the
side. `Publish` is `changeInQuantity` followed by `Ack`. `acks` and `feed` keep their history,
because the properties are about what a reader can reconstruct from them. `Ack`'s yield and second
attempt need no step of their own: a gateway that reads during the yield has read just before. Both
creation and price change of `updateOrder` go through `match` and `rest`, as in the code.
`Arrival` hands out system ids as the gateway does (a creation takes the next id), and also lets
an amendment name any id already handed out, which is the traffic the engine's handlers are
written for; a participant amends only its own orders. The ids the gateway gave to orders that it
then dropped never reach the engine: up to `MaxGap` of them lie between two requests.

**LFQueue.** A slot is a pair, so that a half-written item can be seen. The indices are
sequentially consistent atomics, so an operation that reads the other thread's index once is a
step. A full or empty ring returns null and changes nothing. A reader releases the slot it has read or
leaves it (`"kept"`) and asks for it again, as the gateway does with an acknowledgement for which the
client's ring has no room (`order_gateway.cpp:190`). No fairness is assumed: a reader may also stop
anywhere, as the threads do at their terminate flags, or never begin, as with `broadCast` and
`sniperAck`, which nothing reads.

**OrderGateway.** One round of `run` is `sniper`, `maker`, `ack`. `Take` assigns the id, `Forward`
publishes to the engine's ring or drops, `LogSent` copies the forwarded request from its slot for
the log, `Release` frees the slot of the user order: four steps on four pieces of shared state.
`RelayAck` and `ReleaseAck` are the two publications of the acknowledgement path. Orders have the
fields of `UserOrder`; quantity and order id are cut to `Word`, which stands for 2^32. The rings are
FIFO queues, justified by `RingImplementsFIFO`. The engine is the environment: it reduces the
quantity of the request at the head of its queue in place, takes requests in order, and
acknowledges anything it has begun. `map` is left out because nothing reads it.

**Logger.** `EngineSites` and `GatewaySites` list, for each place that logs, the `log_id` it sets
and the alternative it stores; `Alternative` is what the `switch` takes out. `Drain` is one turn of
`drainBatch`'s loop, which formats the element or ends the process when the variant holds another
alternative; `EndBatch` is its end by the limit, by the buffer or by an empty ring, with the write. Lengths are those of the code's labels with every number at its longest (20 digits).
Elements are numbered modulo `Cycle`, so that the producers may log for ever.

**ThreadStart.** The callable is a temporary of main's statement: it exists until the creation
returns. `CallFunction` after that may find what it needs or lead to `"undefined"`.

**TradeEngine.** `Program` is main's sequence of creations, stores to flags and joins. The engine's
thread adds the loop of `matchingEngine` to `MatchingEngine`'s handler; the request in its hand is
the slot at the head of the gateway's queue, so that a fill is seen there, and both modules work on
one queue of acknowledgements. `Report` is the read of the first measured time, undefined when there
is none. Of the logger only opening and ending appear here; its rings drop when full, so nothing
waits for it.

**PriceTicks.** Floats are integers of 24 bits over a power of two, each product rounded to even.
The result agrees with the compiled expressions for all 10,000 ticks.

## 3. Properties and hazards

* `IndexConsistent`, `CountsMatchLUT`, `ActiveCountsLive`, `BestPriceExact` (a book) and
  `BooksConsistent`, `BestPricesExact` (both, during matching): the four structures agree.
  Between a fill and its deletion the best price may be stale; `BestPricesExact` says exactly where.
* `TimePriorityKept`: no operation lets an order overtake another of its level, except behind an
  enlargement.
* `NotCrossed`: the best bid is below the best ask, even in the middle of a match.
* `PriceTimePriority`: the engine implements `PriceTimeMatching`, with `LiveOrders` (table and
  levels) as the resting set and the request in hand as the incoming order.
* `EngineImplemented`: the engine's thread in the program implements `MatchingEngine`, with requests
  that arrive as the gateway forwards them; what is proved of the engine there holds here.
* `ClientView`: N, U, T and D acknowledgements of an order add up to what rests, unless one of
  them was dropped.
* `FeedNeverUnderstates`: market data never hides quantity that rests (it does overstate: see
  `claim_feed`).
* `RequestsComplete`: every request is handled to its end.
* `NeverSameSlot`, `AssertionsHold`, `NoTornRead`, `ImplementsFIFO`: the ring.
* `KeptSlotStays`: a slot that was read and not released is still there and whole, however far the
  writer goes on; the next read takes the same item.
* `ForwardedOnceInOrder`, `AcksReachTheirOrder`: the gateway, whatever is full.
* `SniperServed`: the gateway takes every order of the client although the relay stops for ever. It must
  do so in behaviours in which `main` never tells it to end, so that its end cannot stand in for service.
* `LogShowsOwnRequest`: the copy taken after publication is of the request just sent; only its
  quantity may already be reduced by the engine.
* `FileInOrder`, `BufferNeverOverflows`, `NeverTerminated`, `RingsServed`: the logger. What is in
  the rings when the logger sees its flag is lost (it does not drain them); `FileInOrder` says that
  nothing else is.
* `ClientAccounts`, `TradesHaveTwoSides`: end to end. What the client was told it traded never
  exceeds the order, and once all queues are drained it makes up the order together with what rests;
  buys and sells it was told of are equal.
* `ShutdownCompletes`: the program ends, or has reached an access that no check guards: a null
  thread joined, a callable gone, an empty vector reported.
* The type invariants cover every variable of their module. `BookTypeOK` says with the types that no
  count falls below zero, `ProgramTypeOK` that a thread past its first loop was made and that a request
  stays in its slot while it is handled.
* `TickHasOwnLevel`, `TextWithinAHundredth`: levels and texts of prices.

## 4. Runs

| run | bounds | shows |
|---|---|---|
| `order_book` | 3 ids, 3 levels, prices 0, 1, 4 in half ticks (0 and 1 share level 0, level 1 stays empty), quantities 1 and 2, 3 entries a level | all book properties on a buy book; 414,706 states |
| `engine_mixed` | 3 requests of any kind, 3 prices on 2 levels, 2 traders, 2 acknowledgement slots | all safety properties, the refinement, dropped acknowledgements, and no request waits for the gateway; 768,107 states |
| `engine_creates` | 5 creations, quantities 1 and 3, one price above the last level | sweeps over several entries and levels, ids that the gateway skipped, and the liveness of each request; 352,234 states |
| `lf_queue` | 4 slots, 3 values | the ring fills, drains and wraps, and its reader leaves slots to be read again; 53,512 states |
| `gateway_tight` | rings of 1 or 2 slots, 3 client orders, 1 maker order, 3 ids, words of 4 values | drops, a stalled relay, fills in the slot, an exhausted id table; 299,793 states |
| `logger` | rings of 1 and 2 slots, 3 elements a batch, a buffer that two orders or three acknowledgements fill | every end of a batch, the loss at the end; 214,326 states |
| `trade_engine` | 3 orders: a sell, a buy that takes it and rests, a sell that takes the rest, an id and a quantity beyond a word of 8; the engine's queue holds 1, the acknowledgements 2, the client's queue and market data just 3 | the program from first to last statement, and its engine as an implementation of `MatchingEngine`; 298,259 states |
| `price_ticks` | all ticks of `main.cpp` | exact for the program's book; 10,000 states |

Why the bounds are enough: three orders are the fewest that give a level a first, a middle and a
last entry, an order behind an emptied one, and a trade that sweeps two; two levels with an empty
one between make the best price glide more than a step; a ring of four slots is full and empty at
every position of its indices. The largest behaviours (five creations) interleave two sweeps with a
partial fill. The logger's cycle of numbers is longer than a batch, so that a batch lost or written
twice shows. In `trade_engine` the client's queue and the market data hold just what the
client sends, which is the relation main.cpp has (200,004 against 99,999): with one slot less,
`ShutdownCompletes` fails. The theorems of section 6 remove the
bounds for the book, the ring, the logger, the engine, the gateway and their composition, and widen
the book of `price_ticks`.

Four runs expect a violation; each checks one statement of the repository:

* `claim_loop_ends`: `matching.cpp:360` says the infinite loop is fixed. A sell order at price
  level 0 still loops for ever: level 0 is also the best price of an empty buy book, and a level
  whose entries are all emptied is not an empty vector.
* `claim_feed`: `order_gateway_struct.h:127` lists a trade message. Trades are not broadcast, so
  market data keeps showing what was traded.
* `claim_system_ids`: `order_gateway_struct.h:55` says every order has its unique id. The gateway
  gives every request a fresh one, amendments included, so that an amendment never finds its order.
* `claim_callable`: `Thread.h:25` says that the callable is executed in the new thread. It may be
  gone: the thread calls it after `running`, when the statement that owns it may have ended.

Other differences between comments and code that no run checks: `lob_struct.h:25` (`active_counts`
counts live orders, but an update to quantity zero empties an entry and leaves it counted; the
book's properties hold for positive quantities, and none of them catches this), `logger.h:228` (50 elements a batch; it is 100),
`order_gateway_struct.h:36` (no payload; a deletion is logged with one) and line 40 (never logged),
`bench.h:56` (the 25th percentile is printed as P50), `order_gateway_struct.h:81` (the
quantity of N is what is left after matching, not the initial size), lines 83 and 85 (a
cancellation is acknowledged with D and the request's quantity; C and R are never sent), `README.md:45`
(the client reads neither executions nor market data), line 46 (no request is validated) and line 74
(the log buffer has 64 KB).

Deadlock is checked in every engine run and in `lf_queue`. `order_book` turns it off because a book is passive
and the bound on entries ends the calls; the other runs because their threads are meant to end.

## 5. Fairness

* `MatchingEngine.FairSpec`: `WF(Engine)`. The thread loops without blocking and is scheduled by
  the operating system. Nothing is asked of the gateway: `RequestsComplete` holds however slow it
  is. The broadcast ring has room in the runs (`FeedSlots`): in the program nothing reads it, but
  it has 200,004 slots and the client's 99,999 creations cause at most one message each.
* `LFQueue`: none. Not every ring has a reader, and a reader may end or keep its slot for ever.
* `OrderGateway.FairSpec`: `WF` of `MainStarts`, `Alpha` and `Gateway`. The two threads are always
  scheduled again and `main` sets their start flags; when it sets the terminate flags is left open
  (less than the code guarantees: it sleeps three seconds), so that `SniperServed` must be met by
  service. Nothing is asked of the engine or of market makers.
* `Logger.FairSpec`: `WF(LoggerStep)`; the producers may log for ever or stop.
* `TradeEngine.FairSpec`: `WF` of each of the five threads and of the new threads' beginnings.

`RequestsComplete` is not true of updates to quantity zero (they reach the loop of
`claim_loop_ends` from any level) nor of level 0; the passing runs leave both out, by
positive quantities and by prices of level 1 and above. The client of the program sends neither.

## 6. Proofs

All by TLAPS, for every value of the constants under the named assumptions of the modules.

**The book** (`OrderBookProofs`). `BookIndexConsistent`: `BookShape` (the types, with counts that are
integers) and `IndexConsistent` together are inductive; neither is alone, because an operation finds its
entry through the table. One lemma for each operation (`CreateOrderKeepsIndex`, `DeleteOrderKeepsIndex`,
...), the in-place changes sharing `InPlaceKeepsIndex`. `BookCountsMatch` adds
`CountsMatchLUT`: the set of ids the table places in a level grows or shrinks by one. `BookTypeCorrect` follows:
counts that are sizes of such sets are natural numbers (`TypedByCounts`), which no operation shows by
itself, since a deletion subtracts without looking.
`BookBestPrice` and `BookActiveCounts` need that every counted order still has quantity,
which holds when `0 \notin Quantities`: the set of live columns is then the image of the set of
placed ids. An update to quantity zero, which the code accepts, breaks both. `NoneBetter` and
`BestIsActive` are the strengthening: best price in terms of counts is inductive, best price in
terms of entries follows. The lemmas do not mention `BookNext`, so the engine's proof can use them.

**The ring** (`LFQueueProofs`). `LFInv` adds to the type invariant: every published slot is whole,
the slot being written is not published, the slot being read is, and what each thread has written
or read so far. From it `RingAssertionsHold`, `RingNeverSameSlot`, `RingNoTornRead`, `RingKeptSlotStays`, and
`RingImplementsFIFO`: publication appends to the queue, release takes its head, every other step
leaves the queue alone. `SlotValue` does the arithmetic modulo N once.

**The logger** (`LoggerProofs`). `LoggerNeverTerminates` needs `ElementsAgree`: every waiting element
holds the alternative its `log_id` stands for, which `SitesAgree` reads off the places that log.
`LoggerBufferSafe` adds the length of one element (`BytesFit`) to an offset that `Room` keeps below
the margin. `LoggerFileInOrder` is about a concatenation, so its inductive form is split where the
batch ends: the batch is in order (`BatchInOrder`), and the waiting elements go on with what the batch
or the file ended with (`WaitingInOrder`, `Expected`). One lemma per action keeps the two parts, and
`OrderShown` joins them again. Assumed: `LoggerAssumption`, and `SafetyAssumption`, that the margin
holds the longest element.

**The abstract matching** (`PriceTimeProofs`). `AbstractNotCrossed`: if ticks and sizes are natural
numbers, a matching by price and time never rests crossed. `NotCrossed` is inductive with the types:
`Rest` is the only step that adds a price, and only when nothing is crossed.

**The engine** (`MatchingEngineProofs`). The books' lemmas are cited under two instances, `BuyBook`
and `SellBook`, and are said once for both sides (`CreateOnBook`, `TakeOnBook`, ...): what the
operation does to the one order it names, and that it leaves the rest alone. `EngineInv` is
inductive: both books are in order (`BookOK`), the handler's local state and the queues have their
types, and

* `IdsHandedOut`: nothing rests under an id that is still to come, so that a creation finds a free
  slot of the table; no id rests on both sides;
* `IncomingAway`: the order being matched does not rest, so that `rest` stores it once; an
  amendment of the price has deleted it before;
* `CursorInLevel`: between a trade and its settlement the loop's position is an entry.

From it `EngineTypeCorrect` and `EngineBooksConsistent`. `EngineFeedCovers` adds `FeedCovers`: what
rests is announced, or waits in `publish` for room in the queue.

`EngineClientView` is about `OpenByAcks`, a recursion over the messages. No induction over them is
needed: `AddsUp(i, x)` says that some function which satisfies the recursion gives x, and a message
appended takes it from x to `Told(x, ...)` (`BalanceAfter`). `ClientKnows` is the inductive form:
for an order none of whose messages was dropped the balance is what rests plus `Owed`, the trade
the owner of the resting entry is still to be told of, unless a change of it is `Untold`. Beside it,
`PendingSays` (the book already shows what is about to be published), `OwnerKept` (a participant
amends its own order) and `CursorLeads` (the entry traded with is that of an order).

**Prices and priority** (the second half of `MatchingEngineProofs`). `EngineNotCrossed`: `Uncrossed` with
`ReachesNothing`, an order that is to rest reaches no order of the other side. `EngineBestPrices`
assumes `0 \notin Quantities` and adds `OrdersLive`: the only order without quantity is the entry
just filled. `EnginePriceTimePriority` is the refinement. `InPosition` says that the loops
visit the other side in order: no order that rests is better than the cursor's level, nor before the
cursor in it, so the entry traded with is the abstract one. `RequestInPlace` ties the
place in the handler to the kind of request; `LevelsBounded` keeps the columns within the stamps
of the abstract queue. There is one lemma for each abstract step (`TradeImplements`, `StoreImplements`,
`CancelImplements`, `AmendImplements`). It assumes positive quantities: an order of quantity zero
rests in the book and cannot trade, and the abstract matching has none. It also assumes that the value
`None` is no order, which is what `None` is for.

**The gateway** (`OrderGatewayProofs`). `GatewayInv`: `ThreadTypes`; the order in hand is still the
head of its queue (`HandOK`); `ForwardedOnceInOrder`, which is inductive with it; ids in the engine's
queue rise and lead to their orders (`IdsLead`); the client was told of each acknowledgement taken
under the order id of its system id (`AcksRelayed`); the slot read for the log is that of the order
in hand, less what was traded (`LogOK`). The steps of the engine are lemmas about what they do
to the two queues, so that the program's proof can use them for the real engine.

**The program** (`TradeEngineProofs`). `ProgramInv` joins the gateway's and the engine's invariants
with what connects them: the request in the engine's hand is the slot at the head of the gateway's
queue (`SlotInHand`), and slots behind it are as the client asked (`StillAsAsked`). From the gateway's
half come the rising ids that `MatchingEngine.Arrival` asks for, and from the engine's half
(`EngineSeen`, `PendingHandedOut`) come acknowledgements with ids already handed out and fills that only reduce the slot,
which is what the gateway's proof asks for. `ProgramRunsEngine` is `EngineImplemented`, `ProgramRelays` the
gateway's properties with the real engine, `ProgramTypeCorrect` the types of all variables: those of the
gateway and of the engine by the two invariants, the rest (`main` and the flags, the creation of threads,
the client, the places of the threads) by one of their own. `ProgramViewsAgree` and
`ProgramPriceTimePriority` (again for quantities other than zero) bring the engine's theorems into
the program. Assumed: `TradeEngineAssumption` only. The first lemmas of the
module say that definitions of one module are the same under several instances.

`ProgramClientAccounts` and `ProgramTradesTwoSides` are the end-to-end results. They assume, beyond
that, what `AlphaServer` does: all its orders are creations, and their ids are distinct once cut to
a word (`DistinctIds`). Without the second the client could not tell two of its orders apart; with
amendments a filled quantity is no longer what was asked less what rests. The orders of
`MCTradeEngine` satisfy both. Only the sniper's queue has a writer, so system ids are places in it
(`HandNumbered`, `SlotsNumbered`). Of an order, what all acknowledgements sent tell as traded and
what is `Left` (resting, still being matched, or told to the other side only) is what the engine
`Owes`: the whole quantity once the request is begun, nothing before; less if an acknowledgement was
lost (`Accounts`). Over all orders, buys less sells told are zero but for the half-told trade (`Even`).
`ToldOfSent` brings both to what was relayed. The sums are relations, `SumsTo(w, L, x)`: some
function that satisfies the recursion over the first L weights ends in x. `InductionOnNat` is derived
from the least-element principle of well-founded sets for a set of numbers, not an operator, and from
it come that such a function exists and is unique, and that a table's sums by rows and by columns
agree (`SumByColumns`), which turns the sum over orders into one over messages.

**Prices** (`PriceTicksProofs`). The run steps through the ten thousand ticks of the program's book;
`TicksHaveOwnLevels` holds for any book of less than ten times 2^20 ticks, and
`TextsAreWithinAHundredth` for less than ten times 2^17. No induction: a state is one tick, and the
facts are about its arithmetic. `PriceScale` finds the scale of a price and shows that a tenth weighs
`p`, a multiple of 16 units of the last place (128 in the smaller book). A rounding is at most half a
unit off (`NearestMultiple`), so ten times a mantissa is within 4 of `k * p` (`TenMantissas`); the
product has three or four bits too many for a float, so it is rounded to a multiple of 8 or 16, and the
nearest one is `k * p` itself, a tie going to the even one (`ProductIsExact`). Cutting off `p` leaves `k`. The text
multiplies the rest of the price by 100, which makes the error of the price at most 40 and adds a
rounding of at most 64 (`FloatNear`): together less than `p`, so the cut fraction is the right one or a
hundredth less (`HundredthsOfRest`). Assumed: the bound on `MaxTick`, which is 9,999 in `main.cpp`.

Only model-checked: liveness (`RequestsComplete`, `SniperServed`, `RingsServed`,
`ShutdownCompletes`), since fairness speaks of `ENABLED`, which is beyond the prover.

## 7. Not modelled

* Cycle counts and percentiles (`bench.h`): nothing depends on them. Two of them are computed from
  stale or zero values (`matching.cpp:131`, `:187`), listed as hazards.
* The pre-warmer: threads that spin for a fixed time and are joined before anything starts.
* The memory pool: included nowhere, and it does not compile.
* The examples and `test.cpp`: demonstrations with their own `main`, not part of the program.
* The characters of the log: only lengths, and the digits of a price.
* Weak memory: the rings' indices are sequentially consistent atomics in the code, the flags
  release stores with acquire loads, so that interleaving is what can be observed.
* Timing: the three-second sleeps of `main` and the sleeps before the reports are left out; every
  order of events is allowed.

## 8. Plan

All safety properties of the passing runs are proved. What remains to be done:

* the prices of books with more ticks than the bounds of `PriceTicksProofs`, where a tenth weighs
  less than sixteen units of the last place;
* the accounts of an order that is amended, which need what an amendment adds to the quantity owed.
