# A verification project for the HFT order book gateway

The gateway turns a NASDAQ ITCH feed into best-bid-and-offer (BBO) updates and
option snapshots for TCP subscribers. This directory models its core in TLA+,
checks the models with TLC on small instances and proves with TLAPS, for every
instance, every safety property that the passing runs check: of the order books, the
TCP server, the option chains, the pricing, the generator, the bytes that come in and
go out, the counters and the path through the gateway. Paths below are relative to the
repository (`src/main.rs` is the `main.rs` of the crate).

## 1. Inventory of the system

| Component | State | Operations | Interacts with |
|---|---|---|---|
| `BookSide` (`src/orderbook/mod.rs:128-262`) | price -> (volume, order count) | `add_order`, `remove_shares`, `delete_all_at_price`, `replace_atomically`, `best_snapshot` | owned by a book |
| `SingleOrderBook` (`:264-508`) | two sides, resting orders, last published BBO, update number | `apply_event` | owned by `OrderBook` |
| `OrderBook` (`:510-623`) | a book per stock, index from references to stocks | `apply_event`, `get_or_create`, `all_consistent` | called by the writer only |
| Pipeline (`src/pipeline.rs`) | bounded lock-free queues | push, pop | producer and writer |
| Writer thread (`src/main.rs:170-268`) | books and chains | a batch of feed events, a batch of option events, again | pipeline, TCP server |
| Consumer thread (`src/main.rs:270-297`) | none | receive, parse, push, ignoring a full queue | multicast socket, pipeline |
| TCP server (`src/network/tcp_broadcast.rs`) | two bounded queues, drop counters, client list under a lock, `running` flag | `enqueue_*`, acceptor thread, broadcaster thread, `shutdown` | writer, main thread, clients |
| Option chains (`src/options/mod.rs`) | chain per stock: spot price, contract books, cached pricings with dirty flags | `update_spot_price`, `apply_option_order_event`, `aggregate_snapshot`, `register_contract` | called by the writer only |
| Test generator (`src/main.rs:299-456`) | tick, next reference, base price | six feed events per tick, option events | pipeline |
| Parser and receiver (`src/protocol/mod.rs`, `src/network/mod.rs`) | offset in a datagram | receive, go through the messages of a datagram, decode one | consumer |
| Frames (`src/orderbook/mod.rs:85-119`, `src/options/mod.rs:655-714`, `src/network/tcp_broadcast.rs:181-202`) | none | serialise a BBO or a snapshot behind type and length | broadcaster, clients |
| Option pricing (`src/pricing/mod.rs`) | the state of a search | implied volatility by Newton's method, Greeks | chains |
| Contract expiry (`src/options/mod.rs:24-41, 164-171`) | none | date to seconds, time to maturity | chains, generator |
| Statistics (`src/main.rs:75-100`) | three atomic counters | writer adds, monitor takes and logs | writer |

Behaviour that is hard to test: sequences of events that let levels, orders,
index and published BBO drift apart; events and updates lost at full queues;
clients that join, fail and time out while a batch is written; removal by index
of several clients at once; shutdown against the acceptor; cached pricings that
are stale when a snapshot shows them; wrap-around and rounding; datagrams that are
cut short or not understood; length fields that count different things; searches
that may not end well; counters shared by two threads. `PROJECT.json`
lists each of these hazards at its line.

What makes each component correct: a level is the sum of its orders; the index
names the book that has the order; an update is sent exactly when the BBO has
changed; the books behind a feed without losses show what the exchange shows;
the client list has exactly the open connections and each client gets every
frame in order; a snapshot prices a contract from the quote and the spot beside it;
a datagram yields exactly its good messages; a subscriber can always tell where a
frame begins; the search returns the best it has seen; what the writer has done is
counted once, and neither of its queues starves the other.

## 2. Modules

| Module | Models | Correspondence |
|---|---|---|
| `BookSide` | one side of a book | a function from prices to levels for the `BTreeMap`; one operator per method |
| `SingleOrderBook` | one book | a record; one operator per arm of `apply_event`, `touched` for its common end |
| `RestingShares` | reference definition | shares at a price counted from the orders, one set element per share, without recursion |
| `OrderBook` | all books and the index | one action per group of arms of `OrderBook::apply_event`; `bbo` is the value returned |
| `OrderLedger` | what the books promise | abstract: the live orders, and quotes computed from them afresh |
| `OrderBookRefinement` | the books as an implementation of the ledger | `LiveOrders` puts the orders of all books together; a quote is the last published BBO |
| `TcpBroadcast` | the TCP server | one action per atomic operation of acceptor, broadcaster, producer and `shutdown`; under the lock one per write and one per `swap_remove` |
| `Gateway` | exchange, consumer, writer, books, subscriber | extends `OrderBook`; the exchange and the subscriber are external |
| `OptionChain` | chains and how the writer drives them | one action per event handled, the aggregation and its panic included |
| `TestGenerator` | the generator with queues, writer, books and chains | composes `OrderBook` (extended) and `OptionChain` (instantiated) |
| `ItchParser` | consumer thread, socket and parser | one action per message of a datagram; of a message its type, length and side |
| `Framing` | the bytes of the TCP stream | kinds, widths and length fields of frames; a connection that delivers in pieces, and a subscriber, are external |
| `Expiry` | dates and time to maturity | one operator per function, next to a calendar that counts its days |
| `ImpliedVol` | the search for a volatility and the Greeks | one action per way through the loop; the price function is any function, the Newton step any step |
| `OptionPricing` | pricing a contract on a day | composes `Expiry` and `ImpliedVol` |
| `RunningFlag` | the flag `running` that main and its threads share | extended by `ItchParser`, `WriterThread` and `Gateway` |
| `WriterThread` | batches, counts and end of the writer; the monitor | one action per pop, per addition to a counter and per exchange of one |
| `BookSideProofs` | lemmas about levels, orders and the shares at a price | used by the books of stocks and of options alike |
| `OrderBookProofs`, `GatewayProofs`, `TcpBroadcastProofs`, `OptionChainProofs`, `OptionPricingProofs`, `TestGeneratorProofs`, `ThreadProofs` | theorems | see section 5 |
| `MC*` | instances for TLC | model values, symmetry, values of functions |

Abstractions: books are total functions of the stocks (a missing book and an
empty one behave alike); timestamps, top-ten levels and match numbers are left
out, because no decision depends on them; a frame is its kind and number; a
pricing is what it was computed from; whether the solver finds one is open. The
executions with and without price, and the two kinds of adds, are one action
each, because the code treats them alike. In `ImpliedVol` volatilities are a range
of integers and the error of each is any number, so that nothing depends on the
Black-Scholes formula; of delta, gamma and vega only the kind is kept: zero, a number,
infinite, not a number.

Each module has a section of mutated forms (`Mut_...`): plausible bugs that
show that the property named with them in `PROJECT.json` can fail. No
specification uses them.

### Two specifications of the order books

`Spec` takes every event the parser can deliver: duplicate references, empty
orders, events for unknown orders. `FeedSpec` keeps to the ITCH rules: a new
reference is not in use, a new order has shares. Exact conservation and a
complete index hold only for `FeedSpec`; for `Spec` the weaker forms
(`VolumeCovered`, `IndexSound`) hold. That the gateway stays within `FeedSpec`,
lost events included, is `FeedOnly`: checked in the run `gateway_path` and proved
(`BooksSeeAFeed`), so that every theorem about `FeedSpec` holds of its books.

## 3. Runs and what they show

| Run | Bounds | Shows |
|---|---|---|
| `books` | 2 stocks, 2 references, 1 price, orders of 0 or 1 share, at most 2 shares and a count of 2 per level | `TypeOK`, `IndexSound`, `SnapshotCurrent`, `VolumeCovered` whatever arrives. Two references suffice for duplicates and for replacements onto a reference in use; two stocks for the same reference in two books |
| `feed` | 2 stocks, 3 references, 2 prices, 1 or 2 shares, update numbers that wrap at 2 | `VolumeConserved`, `IndexComplete`, `CountBounded`, `UpdatesTell`, and the refinement `ImplementsLedger` on a feed. Two prices give a best and a second level, partial executions, and replacements at the same and at another price |
| `tcp_clients` | 4 connections, 3 places, 2 removals per batch, 2 BBO frames, a queue of 1, batches of 2 | `ListExact`, `Gapless`, `InOrder`, `LateClient`, `Accounted`. The second frame is dropped or, once the first is in the batch, follows it; option frames go the same way (`Fill`, `enqueue`) and are in `tcp_live`. Three clients and two removals are the least for `swap_remove` to move an index that matters; the fourth is refused |
| `tcp_live` | 2 clients, 1 removal per batch, queues of 1, 1 frame of each kind, fairness | `Delivered`, `ShutdownStops`. As in the code (256 and 64), more clients may fail in a batch than `to_remove` has room for, and the panic is reached: both properties name it as an outcome |
| `tcp_skip` | 1 client | **violated**: `FramesIntact`; after a write cut short the client is not skipped but written to again |
| `gateway_path` | 2 stocks, 2 references, 2 prices, event queue of 2, broadcast queue and batch of 1, 4 events | `NeverCrossedUnlessLost`, `CaughtUp`, `ViewCurrent`, `FeedOnly`. Both queues overflow |
| `options` | 2 contracts of one chain, 2 references, room for 1 contract in a snapshot, a spot quote whose mid loses a half and then, at 3, one more | `SnapshotFresh`, `CleanMeansCurrent`, `SpotNotAbove`, `OptionVolumeCovered` |
| `generator_feed` | 20 ticks, the numbers of the code, prices that wrap at 2^21, at most 14 events waiting when a tick begins | `FreshRefs`, `PricesNearBase`; deletes reach orders from the twelfth tick, the twentieth has an option event |
| `generator_registered` | 2 ticks | **violated**: `Registered`; the contracts that the log announces do not exist |
| `wire` | datagrams of at most 2 messages of 10 types, with complete, short, zero and odd lengths, that lose 0, 1 or 24 bytes at the end; 3 frames of 1 or 128 contracts or a BBO, in pieces that end anywhere around a boundary; fairness | `DeliveredExactly`, `PacketDone` of the parser; `InStep`, `AllRead` of the frames. Two messages put a bad one before and behind a good one; three frames put one between two others; 128 contracts are the most |
| `pricing` | every day from 1970 to April 2100; contracts of 6 dates priced on 2026-12-31 and 2027-01-01; 4 volatilities with errors of 0 to 3, 3 iterations | `DateIsDay`, `GeneratedNeverExpire`, `ExpiredUnpriced`, `ResultIsBest`, `GreeksDefined`. The days include 29 February 2000 and the year 2100, which is not a leap year; all 256 price functions, and steps that overshoot at both ends |
| `turns` | queues of 2, batches of 1, counters that wrap at 3, fairness | `CountedOnce`, `Served`, `ThreadsStop`; the queues can always be refilled before a batch is over |

`CHECK_DEADLOCK FALSE` is set where the system may really stop: the gateway after
Ctrl-C and the last event, the option chains after the panic, the threads of
`wire` and `turns` after Ctrl-C, a pricing when it is done. Symmetry is used
only with safety properties; references, stocks and connections are compared for
equality and nothing else. The only constant that is not a plain bound is
`Lossy`: the prices `x` for which `(x / 10000.0) * 10000.0` falls below `x` in
double precision; 3 is the smallest one, and 0, which loses nothing, is excluded.

The bounds that exist only in the models are named in each module:
`MaxVolume` and `MaxCount` (in the guard `Headroom`), `MaxFrames`, `MaxEvents`,
`MaxTicks`, `MaxBacklog`, `MaxMessages`, `LastDay` and `MaxError`. `SeqSpace` and
`WordSize` stand for the 2^64 of the counters and of `u64`. In `wire` the two ends of
the gateway move only while the other one rests: they share no state.

## 4. Fairness

The `FairSpec` of `TcpBroadcast` asks that the
acceptor and the broadcaster are scheduled (they are threads that sleep and poll,
and never wait for anything but the lock), that a call of `shutdown` runs to its
end, and that a thread waiting for the lock of the client list gets it: the
lock is `parking_lot`'s, which hands itself over fairly from time to time, and
its holder never waits for more than the write timeout of 100 ms per client.
Nothing is assumed about producers, clients or the caller of `shutdown`. `Delivered`
allows for a shutdown, since the broadcaster leaves its loop without emptying the
queues, and for the panic of `to_remove`, after which there is no broadcaster. Without
these two a queued frame is broadcast, whatever the clients do; and the panic leaves
the lock free, so that `ShutdownStops` holds after it too.

`WriterThread` asks that writer and monitor, two threads that never block, are
scheduled; nothing is assumed about the producers, which may fill the queues
without a pause. In `wire` the consumer thread goes on while it has a datagram (`recv`
itself may wait for ever), the bytes that were written arrive in the end, and the
subscriber reads what it has: the last two are promises of TCP and of the reader,
not of the gateway.

A panic is modelled as the end of the thread, as in a development build. A
release build (`panic = "abort"` in `Cargo.toml`) ends the whole process instead.

## 5. What is proved

Each theorem holds for all constants that satisfy the named assumptions of the
modules (`ASSUME`, evaluated by TLC in every run): references and prices are finite
sets, prices and shares are natural numbers (`BookAssumption`); the bounds of the
models are numbers (`CapAssumption`, `MaxFrames`, `MaxEvents`, ...); capacities, batch
sizes and the ranges of counters are positive (`SeqAssumption`, `GatewayAssumption`,
`BroadcastAssumption`, `WriterAssumption`, `ChainAssumption`, `SolverAssumption`); lengths
are those of a `u16`, a snapshot has at most 128 contracts (`ParserAssumption`,
`FramingAssumption`); what the generator sends fits into the sets of references, shares and
prices, and below the width of its words (`GeneratorAssumption`). All of that is what the types
and constants of the code give. Three theorems have a hypothesis of their own, named below.

Most properties are not inductive alone. Each module of proofs states one inductive
invariant, one lemma per action that keeps it, and theorems that read the
properties off it.

### The order books, whatever arrives (`OrderBookProofs`)

| Theorem | Statement |
|---|---|
| `TypeCorrect` | `Spec => []TypeOK` |
| `SnapshotIsCurrent` | `Spec => []SnapshotCurrent` |
| `IndexIsSound` | `Spec => []IndexSound` |
| `VolumeIsCovered` | `Spec => []VolumeCovered` |
| `UpdatesAreTold` | `Spec => UpdatesTell`: an update is returned exactly when a BBO has changed |

`Inv` says of each book that it is typed, that its last snapshot is the BBO of its
levels, and that its levels cover its orders; of the index that it is typed and
sound; of the last update that it is typed. That the index stays sound needs that a
book drops an order only with the event that makes the index forget it; that a
level covers its orders needs that a reduction never exceeds the order.

The proof goes bottom up: volumes before and after an operation on a side, counting
shares (`Units` is finite and splits into the units of one order and those of the
others), the type of a BBO (a non-empty finite set of numbers has a greatest and a
least element), all in `BookSideProofs`; then one lemma per arm of `apply_event`
and one step per action.

### The order books on an ITCH feed (`OrderBookProofs`)

| Theorem | Statement |
|---|---|
| `IndexIsComplete` | `FeedSpec => []IndexComplete` |
| `VolumeIsConserved` | `FeedSpec => []VolumeConserved` |
| `CountIsBounded` | `FeedSpec => []CountBounded` |
| `BooksImplementLedger` | `FeedSpec => ImplementsLedger` |

`FeedInv` adds to `Inv` that the index is complete and that every book is exact: no
order without shares, no empty level, the volume of a level is the sum of its
orders and its count at most their number. The complete index needs exact books: an
entry is forgotten when the order is gone or has no shares left, which is the same
only where no order without shares rests.

The refinement rests on two consequences of `FeedInv`. `LiveExact`: each live order is
in exactly one book, so that `LiveOrders` is their union. `QuoteCurrent`: the last published BBO, kept up to date by
increments, is the one the ledger computes afresh. There is a lemma for each way in
which live orders change (`AddEnters`, `RemovedOrder`, `ReducedOrder`, `AmendedOrder`),
and `LedgerStep` maps every action to its step of the ledger.

### The path through the gateway (`GatewayProofs`)

| Theorem | Statement |
|---|---|
| `BooksSeeAFeed` | `GatewaySpec => FeedOnly` |
| `NeverCrossedWithoutLoss` | `GatewaySpec => []NeverCrossedUnlessLost` |
| `BooksCatchUp` | `GatewaySpec => []CaughtUp` |
| `SubscriberIsCurrent` | `GatewaySpec => []ViewCurrent` |

`CaughtUp` and `ViewCurrent` speak of empty queues; the invariant has to say what is in
them. `GatewayInv` is `FeedInv` with: the exchange's orders are typed and never cross
(`MarketInv`); the references that the queued events bring in are new, each brought in
once (so that lost events leave a feed a feed); as long as none was lost, the queued events lead,
one by one through maps of orders that never cross, from the orders of the books to
those of the exchange (`LeadTo`); as long as no update was refused, the last update
of a stock in the broadcast queue, or what the subscriber shows if there is none, is the stock's BBO (`Latest`).

### The TCP server (`TcpBroadcastProofs`)

| Theorem | Statement |
|---|---|
| `TypesAndCapacities` | `Spec => []TypeOK` |
| `ListIsExact` | `Spec => []ListExact` |
| `OneLateClient` | `Spec => []LateClient` |
| `NoClientMissesAFrame` | `Spec => []Gapless` |
| `FramesArriveInOrder` | `Spec => []InOrder` |
| `FramesAreAccounted` | `Spec => []Accounted` |

`IInv` has a part for each. `LockInv` ties the lock to the broadcaster's place.
`ListInv` says why several `swap_remove`s by index are right: `to_remove` has exactly the
places of the failed clients in rising order and they are removed from its end, so that the last element, which
moves, never is a failed one. `GapInv` splits the list at the client whose write is due:
those before it have the batch, those from it on still lack it. `OrderInv` orders
producer, queue, batch and sockets: what is ahead is older. The induction is on
steps only; facts about concatenation and filtering come as lemmas (`ConcatOrder`, `CountConcat`).

### Option chains (`OptionChainProofs`)

| Theorem | Statement |
|---|---|
| `ChainsTyped` | `Spec => []TypeOK` |
| `SnapshotsAreFresh` | `Spec => []SnapshotFresh` |
| `CleanBooksAreCurrent` | `Spec => []CleanMeansCurrent` |
| `SpotIsNeverRaised` | `Spec => []SpotNotAbove` |
| `OptionOrdersAreCovered` | `Spec => []OptionVolumeCovered` |

`ChainInv` states each of them of chains and books by themselves and adds their types,
with the absent entries that the code's `Option`s stand for. A fresh snapshot needs clean
books, and those need that every change of a quote or a spot price raises the flag. `SpotNotAbove` needs
that 0 loses nothing in the conversion: the proof found that `Lossy` had to exclude it.

### Pricing and expiry (`OptionPricingProofs`)

| Theorem | Statement |
|---|---|
| `BestIsReturned` | `PricingSpec => []ResultIsBest` |
| `GreeksAreNumbers` | `PricingSpec => []GreeksDefined` |
| `DatesAreDays` | `PricingSpec => []DateIsDay` |
| `GeneratedLiveForever` | `LastDay < 19000000` implies `PricingSpec => []GeneratedNeverExpire` |
| `ExpiredAreUnpriced` | `RealDates` implies `PricingSpec => []ExpiredUnpriced` |

For every range of volatilities, every price function, every path of Newton's method:
`IInv` adds to the first two what the search keeps, that the best of the volatilities
tried is at hand (`BestOfTried`), none of those tried was as good as a hit, and the
first iteration tries one. A volatility of zero comes only from the intrinsic
value, which is why the Greeks of all other options are defined.

For every number of days: `CalendarInv` says that the formula, which counts years from
March, gives the day that the calendar has reached, with a lemma for each kind of night
(within a month, end of month, end of February, end of year). `DaysInOrder` compares any two dates, for an
expired contract need not be near today. The two hypotheses: a number of days
since 1970 reads as a date before 1970 only for some fifty thousand years; and the
contracts have dates that exist (the ones of the generator, which do not, are the subject of
`GeneratedLiveForever`). The run `pricing` satisfies both.

### The test generator (`TestGeneratorProofs`)

| Theorem | Statement |
|---|---|
| `RefsAreFresh` | `GeneratorSpec => []FreshRefs` |
| `PricesAreNear` | `GeneratorSpec => []PricesNearBase` |
| `GeneratorIsFeed` | `GeneratorSpec => FeedSpec` |
| `GeneratorImplementsLedger` | `GeneratorSpec => ImplementsLedger` |

`FreshRefs` is about the queue; the invariant has to say the same of what is not in it
yet. `GeneratorInv` is `FeedInv` with: `order_ref` is a function of the ticks (`Counting`);
the orders that rest are older than those in the queue, and these than those still to
be pushed, each rising (`InOrder`); the orders that rest have prices the generator sends
(`OrdersNear`). Each step of the generator and the writer is then a step of `FeedSpec`
or leaves the books alone, and a level is near the base price because, on a feed,
an order rests at it. `MidPrice` shows that the wraps of the cast, of the product and of
the sum cancel out, for every width of the words above the prices.

### Datagrams, frames and counters (`ThreadProofs`)

| Theorem | Statement |
|---|---|
| `EventsAreExact` | `ParserSpec => []DeliveredExactly` |
| `ParserKeepsPlace` | `ParserSpec => []AtBoundary`: the safe half of `PacketDone`, which no run checks by itself |
| `SubscriberInStep` | `CountsAll = {"Options"}` implies `FramingSpec => []InStep` |
| `EachIsCountedOnce` | `Spec => []CountedOnce` |

For datagrams of any number of messages and any lengths: the parser's offset is where a
message starts, and events and errors split the messages before it. The start of a
message is defined by the number of bytes before it, the cardinality of a set of
pairs, which spares a sum over the messages. `AtBoundary` says that the parser never takes
the inside of a message for a length and never reads beyond one, which would panic.

For any number of frames of any sizes, in any pieces: `StreamInv` says that the frames fill the
stream one after the other, each at its own place; `SubscriberInv` that the subscriber
is at the place of the next frame or behind its header. `FrameSize` is the arithmetic: with its length field,
cut to 16 bits, a frame ends where it ends and has the contracts it has, for up to 128 of
them. The hypothesis says which length the subscriber takes to count the whole frame;
the run `wire` satisfies it, and section 6 tells what happens otherwise.

`CountedOnce` holds for counters that wrap at any number; its invariant adds types
and that a turn counts no more updates and snapshots than events.

### Only model-checked

Liveness: `Delivered`, `ShutdownStops`, `Served`, `ThreadsStop`, `PacketDone`, `AllRead`.
Fairness speaks of ENABLED, which the prover does not expand. All other
properties of the passing runs are theorems.

No module declares a RECURSIVE operator. Facts that would need induction over data are
avoided by counting with cardinalities, or follow from a least counterexample
(`LeastNat` in `BookSideProofs`).

## 6. Findings

1. A client whose write timed out keeps its place in the list and gets the next
   batch behind the cut frame, although the log says it is skipped (`tcp_skip`).
2. The contracts that the generator announces are never registered, so the gateway
   never sends an option snapshot (`generator_registered`).

Further observations, each with the way in which the models show it:

- More than 64 clients failing in one batch panic the broadcaster, whose list holds
  256 (`src/network/tcp_broadcast.rs:223`), and no frame is broadcast any more while
  the writer goes on to fill the queues: `Delivered` fails in `tcp_live` without its
  last disjunct, `bc.at = "panicked"`.
- Events lost at a full queue are ignored, and one is enough for a crossed book,
  which `src/orderbook/mod.rs:467` asserts never to happen: `NeverCrossed` fails in
  `gateway_path`, where `NeverCrossedUnlessLost` holds.
- The test generator crosses its own book in the fourth tick: `NeverCrossed` of
  `TestGenerator` fails in `generator_feed`. The model is a release build, where the
  assertion is compiled out and the negative drift wraps; a build with overflow
  checks ends the generator's thread in its first tick, at `src/main.rs:360`.
- The length field of an option frame counts its own three bytes of type and length
  (`src/options/mod.rs:698`), that of a BBO frame does not. A reader that takes both
  for the length of what follows, as the test client of
  `src/network/tcp_broadcast.rs:347-351` does, loses the boundaries behind the first
  option frame: `InStep` fails in `wire` with `CountsAll = {}`.
- At the intrinsic value the volatility is zero, and gamma (for some prices delta
  too) is not a number, while the tests of priced options ask for a positive one
  (`src/options/mod.rs:775-777`): `GreeksDefined` fails without its condition.
- The expiries of the generator are numbers of days, read as dates yyyymmdd: a time
  before 1970, which as a `u64` never comes (`GeneratedNeverExpire`).
- The test at `src/options/mod.rs:735` takes the clock of the day it runs on; its
  contract has between 0.4 and 0.8 years left only from March to August 2026.
- The parsers of seven of the nine message types require more bytes than they read
  (`expected` and `bytes_read` in `ItchParser`): a delete with exactly the 14 bytes of
  its time and reference is refused.
- A snapshot shows a one-sided contract with the pricing of an earlier quote and spot
  (`SnapshotFresh` is about two-sided contracts only), and option events lower the
  spot price of a chain by rounding (`SpotNotAbove` bounds it from above only).
- A snapshot may overtake the BBO update that caused it, since the broadcaster looks
  at its two queues one after the other (`Fill` in `TcpBroadcast`).

## 7. Not modelled

- The values of message fields, of frame fields and of prices and Greeks: fixed
  layouts and floating-point mathematics.
- The set-up of the sockets, argument parsing, the creation of threads, log lines,
  benchmarks, `bbo_rx` and `option_snapshot_rx` (never used by the program).
- The writer's consistency check, which only logs; `NeverCrossed` states what it
  looks for.
- The move of the generator's base price after tick 1000: beyond TLC's reach with
  the numbers of the code.
- That a feed goes on: after Ctrl-C the consumer stays in `recv` until the next
  datagram, and the process ends without it.

## 8. Plan

In order of importance; all of it is done.

1. `BookSide`, `SingleOrderBook`, `OrderBook`: the core, `Spec` and `FeedSpec`.
2. `OrderLedger` and the refinement, checked.
3. `OrderBookProofs`: types, current snapshot, sound index, covered volume.
4. `TcpBroadcast`: interleavings, failures, shutdown, liveness.
5. `Gateway`: composition of exchange, queues, books and subscriber.
6. `OptionChain`, and `TestGenerator` composing everything behind the pipeline.
7. `ItchParser` and `Framing`: the two ends of the gateway, down to the boundaries of messages.
8. `Expiry`, `ImpliedVol`, `OptionPricing` and `OptionPricingProofs`.
9. `WriterThread`: fairness between queues, counters, end of the threads.
10. Proofs: the books on a feed and the ledger, the gateway, the TCP server, option
    chains, dates, counting.
11. Proofs: `DeliveredExactly` and `InStep` at the two ends of the gateway, `FreshRefs` and
    `PricesNearBase` of the generator.
