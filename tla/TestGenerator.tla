--------------------------- MODULE TestGenerator ----------------------------
(***************************************************************************)
(* The gateway with its test generator switched on (run_test_generator of  *)
(* main.rs): the generator fills the event queue and the option queue of   *)
(* the pipeline, the writer empties them in turn and applies the events to *)
(* the order books and to the option chains.                               *)
(*                                                                         *)
(* The generator is deterministic, so its numbers are those of the code;   *)
(* what is left open is how its steps and the writer's interleave.         *)
(* MaxTicks bounds the run to its first ticks, before any queue or batch   *)
(* can be full and before the base price moves (tick 1000 at the earliest).*)
(* Arithmetic is that of a release build: it wraps, at WordSize. (A build  *)
(* with overflow checks panics in mid_price, in the first tick.)           *)
(***************************************************************************)
EXTENDS OrderBook, SequencesExt

CONSTANTS
  AAPL,        \* STOCK_AAPL
  MaxTicks,    \* bound on the ticks of the generator, within one batch of 1024 events
  MaxBacklog,  \* bound on the events that wait when a tick begins
  WordSize     \* a u64 wraps at 2^64; any power of two above all prices will do

\* The numbers of the generator's orders: shares, prices in units of 1000, references.
SentShares == 1 .. 749
SentPrices == {1000 * i : i \in 1448 .. 1551}
SentRefs   == 0 .. 21 + 4 * MaxTicks

ASSUME GeneratorAssumption ==
  /\ AAPL \in Stocks
  /\ MaxTicks \in Nat /\ 6 * MaxTicks =< 1024
  /\ MaxBacklog \in Nat
  /\ WordSize \in Nat /\ WordSize > 1600000
  /\ SentRefs \subseteq Refs /\ SentShares \subseteq Shares /\ SentPrices \subseteq Prices

VARIABLES
  tick_count,
  order_ref,
  registered,    \* the flag of the generator, set when it logs its message
  outbox,        \* the events of this tick that are still to be pushed
  event_queue,   \* Pipeline.event_tx
  option_queue,  \* Pipeline.option_event_tx
  writer,        \* "events" or "options", the loop the writer is in
  chains, snapshot, health, mid   \* OptionChain, health being its writer

generator == <<tick_count, order_ref, registered, outbox>>

Strikes == <<1400000, 1450000, 1500000, 1550000, 1600000>>

Expiries == <<"near", "far">>

Types == <<"Call", "Put">>

Contracts == Range(Strikes) \X Range(Expiries) \X Range(Types)

Options == INSTANCE OptionChain
  WITH Underlyings <- Stocks, UnderlyingOf <- [c \in Contracts |-> AAPL],
       Prices <- 0 .. WordSize - 1, SpotQuotes <- Nat \X Nat, MaxContracts <- 128,
       MaxVolume <- [c \in Contracts |-> MaxVolume], Lossy <- {}, writer <- health

GeneratorInit ==
  /\ Init
  /\ Options!Init
  /\ tick_count = 0 /\ order_ref = 1 /\ registered = FALSE
  /\ outbox = <<>> /\ event_queue = <<>> /\ option_queue = <<>>
  /\ writer = "events"

-----------------------------------------------------------------------------
(* Mutated forms used by the mutation runs; no specification uses them. *)

\* The addition saturates.
Mut_mid_price(tick) ==
  LET product == ((((tick % 100) - 50) % WordSize) * 1000) % WordSize
  IN  IF 1500000 + product < WordSize THEN 1500000 + product ELSE WordSize - 1

\* The four orders of a tick use up three references.
Mut_after_tick(ref) == ref + 3

-----------------------------------------------------------------------------
(* The generator. *)

\* base_price + drift * 1000, where the drift is cast from i64 to u64.
mid_price(tick) ==
  (1500000 + (((((tick % 100) - 50) % WordSize) * 1000) % WordSize)) % WordSize

\* order_ref is incremented once per order of a tick.
after_tick(ref) == ref + 4

Add(r, side, n, p) ==
  [type |-> "add", r |-> r, side |-> side, n |-> n, p |-> p]

OptionAdd(c, r, side, n, p) ==
  [type |-> "option", c |-> c, r |-> r, side |-> side, n |-> n, p |-> p]

\* The events that announce the contracts, ref being the next reference.
registration(ref) ==
  [i \in 1 .. 20 |->
     LET c == <<Strikes[((i - 1) \div 4) + 1], Expiries[(((i - 1) \div 2) % 2) + 1],
                Types[((i - 1) % 2) + 1]>>
     IN  OptionAdd(c, ref + i - 1, IF c[3] = "Call" THEN "Buy" ELSE "Sell",
                   10 + ((ref + i - 1) % 50), c[1] \div 30)]

\* The six spot events of a tick, ref being order_ref before them.
spot_events(tick, ref) ==
  LET m == mid_price(tick)
  IN  << Add(ref + 1, "Buy", 100 + (tick % 500), m - 1000),
         Add(ref + 2, "Buy", 200 + (tick % 300), m - 2000),
         Add(ref + 3, "Sell", 150 + (tick % 400), m + 1000),
         Add(ref + 4, "Sell", 250 + (tick % 200), m + 2000),
         [type |-> "delete", r |-> saturating_sub(after_tick(ref), 48)],
         [type |-> "delete", r |-> saturating_sub(after_tick(ref), 47)] >>

\* The option event of every twentieth tick.
option_events(tick) ==
  LET strike == Strikes[(tick % 5) + 1]
      expiry == Expiries[((tick \div 5) % 2) + 1]
      type   == Types[((tick \div 3) % 2) + 1]
      side    == IF tick % 3 = 0 THEN "Buy" ELSE "Sell"
  IN  IF tick % 20 # 0 THEN <<>>
      ELSE << OptionAdd(<<strike, expiry, type>>, 100000 + tick, side, 5 + (tick % 20),
                        (strike \div 30) + ((tick % 100) * 10)) >>

\* The next turn of the loop.
Tick ==
  /\ outbox = <<>> /\ tick_count < MaxTicks /\ Len(event_queue) =< MaxBacklog
  /\ tick_count' = tick_count + 1
  /\ LET first == IF registered THEN <<>> ELSE registration(order_ref)
         ref   == order_ref + Len(first)
     IN  /\ outbox' = first \o spot_events(tick_count', ref) \o option_events(tick_count')
         /\ order_ref' = after_tick(ref)
  /\ registered' = TRUE
  /\ UNCHANGED <<event_queue, option_queue, writer, chains, snapshot, health, mid,
                 books, order_to_stock, bbo>>

\* push_event or push_option_event.
Push ==
  /\ outbox # <<>>
  /\ outbox' = Tail(outbox)
  /\ \/ /\ Head(outbox).type = "option"
        /\ option_queue' = Append(option_queue, Head(outbox))
        /\ UNCHANGED event_queue
     \/ /\ Head(outbox).type # "option"
        /\ event_queue' = Append(event_queue, Head(outbox))
        /\ UNCHANGED option_queue
  /\ UNCHANGED <<tick_count, order_ref, registered, writer, chains, snapshot, health,
                 mid, books, order_to_stock, bbo>>

-----------------------------------------------------------------------------
(* The writer. *)

\* One turn of the loop over the event queue: an update goes on to the chains.
WriteEvent ==
  /\ writer = "events" /\ event_queue # <<>>
  /\ event_queue' = Tail(event_queue)
  /\ LET e == Head(event_queue)
     IN  \/ e.type = "add" /\ AddOrder(e.r, AAPL, e.side, e.n, e.p)
         \/ e.type = "delete" /\ OrderDelete(e.r)
  /\ \/ bbo' = {} /\ UNCHANGED <<chains, snapshot, health, mid>>
     \/ \E u \in bbo' : Options!SpotUpdate(u.stock, u.snap.bid_price, u.snap.ask_price)
  /\ UNCHANGED <<generator, option_queue, writer>>

WriteOption ==
  /\ writer = "options" /\ option_queue # <<>>
  /\ option_queue' = Tail(option_queue)
  /\ LET e == Head(option_queue)
     IN  Options!AddOption(e.c, e.r, e.side, e.p, e.n)
  /\ UNCHANGED <<generator, event_queue, writer, books, order_to_stock, bbo>>

\* A loop that finds its queue empty ends.
WriterTurn ==
  /\ \/ writer = "events" /\ event_queue = <<>> /\ writer' = "options"
     \/ writer = "options" /\ option_queue = <<>> /\ writer' = "events"
  /\ UNCHANGED <<generator, event_queue, option_queue, chains, snapshot, health, mid,
                 books, order_to_stock, bbo>>

GeneratorNext == Tick \/ Push \/ WriteEvent \/ WriteOption \/ WriterTurn

everything == <<generator, event_queue, option_queue, writer, chains, snapshot, health,
                mid, books, order_to_stock, bbo>>

GeneratorSpec == GeneratorInit /\ [][GeneratorNext]_everything

-----------------------------------------------------------------------------
\* No order of the generator takes the reference of one that still rests or
\* waits: what it sends is a feed in the sense of FeedSpec.
FreshRefs ==
  \A i \in 1 .. Len(event_queue) : event_queue[i].type = "add" =>
     /\ event_queue[i].r \notin Live
     /\ \A j \in 1 .. Len(event_queue) :
          i # j /\ event_queue[j].type = "add" => event_queue[i].r # event_queue[j].r

\* The cast of a negative drift and the overflows after it cancel out: the
\* prices that reach the books stay around the base price.
PricesNearBase ==
  \A s \in Stocks, sd \in Side : \A p \in DOMAIN books[s].levels[sd] :
     p >= 1500000 - 52000 /\ p =< 1500000 + 52000

\* The debug assertion of apply_event says that a book is never crossed.
NeverCrossed == \A s \in Stocks : ~is_crossed(snapshot_bbo(books[s].levels))

\* The generator logs "Registered 20 option contracts for AAPL".  Then, when its
\* option events have been taken from the queue, the chain has the contracts.
Registered ==
  registered /\ outbox = <<>> /\ option_queue = <<>> =>
     AAPL \in DOMAIN chains /\ DOMAIN chains[AAPL].contracts = Contracts
=============================================================================
