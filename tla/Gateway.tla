------------------------------ MODULE Gateway -------------------------------
(***************************************************************************)
(* The way of an event through the gateway: from the exchange over the     *)
(* event queue of the pipeline (pipeline.rs, run_multicast_consumer of     *)
(* main.rs) to the order books (run_orderbook_writer), and of an update    *)
(* from there over the broadcast queue to a subscriber.  The threads only  *)
(* share the queues and the running flag.                                  *)
(*                                                                         *)
(* The exchange is not part of the repository.  It is modelled by what the *)
(* books assume of it: it never lets two orders rest that would trade, it  *)
(* never uses a reference twice, and it tells every change by one event.   *)
(***************************************************************************)
EXTENDS OrderBook, SequencesExt, RunningFlag

CONSTANTS
  EventCap,      \* EVENT_QUEUE_CAP
  BroadcastCap,  \* BROADCAST_QUEUE_CAP
  BatchSize,     \* BATCH_SIZE of the writer
  MaxEvents      \* bound on the events of the exchange

ASSUME GatewayAssumption ==
  /\ EventCap \in Nat \ {0} /\ BroadcastCap \in Nat \ {0}
  /\ BatchSize \in Nat \ {0} /\ MaxEvents \in Nat

VARIABLES
  consumer,     \* whether the consumer's loop still runs
  market,       \* the exchange: reference -> its resting order
  used,         \* the exchange: the references it has used
  event_queue,  \* Pipeline.event_tx
  writer,       \* the writer's place and the events left in its batch
  broadcast,    \* the broadcast queue
  view,         \* a subscriber: stock -> the last update it got, {} if none
  events,       \* history: the number of events sent
  lost,         \* history: the number of events that push_event refused
  unsent        \* history: the number of updates that enqueue_bbo refused

gateway == <<running, consumer, market, used, event_queue, writer, broadcast, view,
             events, lost, unsent, books, order_to_stock, bbo>>

GatewayInit ==
  /\ Init
  /\ Started /\ consumer = TRUE
  /\ market = EmptyMap /\ used = {}
  /\ event_queue = <<>>
  /\ writer = [at |-> "top", left |-> BatchSize]
  /\ broadcast = <<>>
  /\ view = [s \in Stocks |-> {}]
  /\ events = 0 /\ lost = 0 /\ unsent = 0

-----------------------------------------------------------------------------
(* Mutated forms used by the mutation runs; no specification uses them. *)

\* The queue is a stack.
Mut_next == Len(event_queue)

\* The event is looked at, and not taken off the queue.
Mut_remaining == event_queue

\* A full queue makes room by forgetting its newest update, and counts nothing.
Mut_enqueue_bbo ==
  /\ broadcast' = IF bbo' = {} THEN broadcast
                  ELSE Append(IF Len(broadcast) < BroadcastCap THEN broadcast
                              ELSE SubSeq(broadcast, 1, Len(broadcast) - 1),
                              CHOOSE u \in bbo' : TRUE)
  /\ UNCHANGED unsent

-----------------------------------------------------------------------------
(* The exchange and the multicast consumer. *)

\* An order that may rest: nothing on the other side of its stock would trade
\* with it.
MayRest(s, side, price) ==
  \A r \in DOMAIN market : market[r].stock = s /\ market[r].side # side =>
     IF side = "Buy" THEN price < market[r].price ELSE price > market[r].price

\* The consumer pushes the event and ignores the result: on a full queue the
\* event is lost without a trace.
push_event(e) ==
  /\ consumer /\ events < MaxEvents
  /\ events' = events + 1
  /\ \/ /\ Len(event_queue) < EventCap
        /\ event_queue' = Append(event_queue, e)
        /\ UNCHANGED lost
     \/ /\ Len(event_queue) = EventCap
        /\ lost' = lost + 1
        /\ UNCHANGED event_queue
  /\ UNCHANGED <<running, consumer, writer, broadcast, view, unsent, books,
                 order_to_stock, bbo>>

\* The consumer's loop ends after the packet at hand.
ConsumerStop ==
  /\ consumer /\ ~running
  /\ consumer' = FALSE
  /\ UNCHANGED <<running, market, used, event_queue, writer, broadcast, view, events,
                 lost, unsent, books, order_to_stock, bbo>>

Enter(r, s, side, n, p) ==
  /\ MayRest(s, side, p)
  /\ market' = Put(market, r, [stock |-> s, side |-> side, price |-> p, shares |-> n])
  /\ used' = used \cup {r}
  /\ push_event([type |-> "add", r |-> r, s |-> s, side |-> side, n |-> n, p |-> p])

\* An execution or a cancel of some or all of the shares.
Reduce(r, n) ==
  /\ n =< market[r].shares
  /\ market' = IF n = market[r].shares THEN Without(market, r)
               ELSE [market EXCEPT ![r].shares = @ - n]
  /\ push_event([type |-> "reduce", r |-> r, n |-> n])
  /\ UNCHANGED used

Withdraw(r) ==
  /\ market' = Without(market, r)
  /\ push_event([type |-> "delete", r |-> r])
  /\ UNCHANGED used

Amend(r, new_r, n, p) ==
  /\ MayRest(market[r].stock, market[r].side, p)
  /\ market' = Put(Without(market, r), new_r,
                   [market[r] EXCEPT !.price = p, !.shares = n])
  /\ used' = used \cup {new_r}
  /\ push_event([type |-> "replace", r |-> r, new_r |-> new_r, n |-> n, p |-> p])

-----------------------------------------------------------------------------
(* The writer. *)

WriterLoop ==
  /\ writer.at = "top"
  /\ writer' = [at |-> IF running THEN "batch" ELSE "done", left |-> BatchSize]
  /\ UNCHANGED <<running, consumer, market, used, event_queue, broadcast, view, events,
                 lost, unsent, books, order_to_stock, bbo>>

next == 1

remaining == RemoveAt(event_queue, next)

apply_event(e) ==
  \/ e.type = "add" /\ AddOrder(e.r, e.s, e.side, e.n, e.p)
  \/ e.type = "reduce" /\ OrderReduced(e.r, e.n)
  \/ e.type = "delete" /\ OrderDelete(e.r)
  \/ e.type = "replace" /\ OrderReplace(e.r, e.new_r, e.n, e.p)

\* The update of the event, if there is one, goes to the broadcast queue, unless
\* that is full.
enqueue_bbo ==
  LET full == Len(broadcast) = BroadcastCap
  IN  /\ broadcast' = IF bbo' = {} \/ full THEN broadcast
                      ELSE Append(broadcast, CHOOSE u \in bbo' : TRUE)
      /\ unsent' = IF bbo' # {} /\ full THEN unsent + 1 ELSE unsent

\* One turn of the writer's loop over the event queue, or its end.
WriteEvent ==
  /\ writer.at = "batch"
  /\ \/ /\ writer.left > 0 /\ event_queue # <<>>
        /\ apply_event(event_queue[next])
        /\ enqueue_bbo
        /\ event_queue' = remaining
        /\ writer' = [writer EXCEPT !.left = @ - 1]
     \/ /\ writer.left = 0 \/ event_queue = <<>>
        /\ writer' = [writer EXCEPT !.at = "top"]
        /\ UNCHANGED <<event_queue, broadcast, unsent, books, order_to_stock, bbo>>
  /\ UNCHANGED <<running, consumer, market, used, view, events, lost>>

-----------------------------------------------------------------------------
\* The broadcaster takes the oldest update out of its queue and writes it to a
\* subscriber.  Batches, writes cut short and clients that fail are in TcpBroadcast.
Deliver ==
  /\ broadcast # <<>>
  /\ broadcast' = Tail(broadcast)
  /\ view' = [view EXCEPT ![Head(broadcast).stock] = {Head(broadcast)}]
  /\ UNCHANGED <<running, consumer, market, used, event_queue, writer, events, lost,
                 unsent, books, order_to_stock, bbo>>

Stop ==
  /\ Interrupt
  /\ UNCHANGED <<consumer, market, used, event_queue, writer, broadcast, view, events,
                 lost, unsent, books, order_to_stock, bbo>>

Exchange ==
  \/ \E r \in Refs \ used, s \in Stocks, sd \in Side, n \in Shares \ {0}, p \in Prices :
        Enter(r, s, sd, n, p)
  \/ \E r \in DOMAIN market, n \in Shares \ {0} : Reduce(r, n)
  \/ \E r \in DOMAIN market : Withdraw(r)
  \/ \E r \in DOMAIN market, new_r \in Refs \ used, n \in Shares \ {0}, p \in Prices :
        Amend(r, new_r, n, p)

GatewayNext == Exchange \/ ConsumerStop \/ WriterLoop \/ WriteEvent \/ Deliver \/ Stop

GatewaySpec == GatewayInit /\ [][GatewayNext]_gateway

-----------------------------------------------------------------------------
Crossed == \E s \in Stocks : is_crossed(snapshot_bbo(books[s].levels))

\* The debug assertion of apply_event and the error message of the writer's loop
\* say that a book is never crossed.
NeverCrossed == ~Crossed

\* A book that has got every event so far is never crossed, although the writer
\* is behind the exchange: it only shows what the exchange showed before.
NeverCrossedUnlessLost == lost = 0 => ~Crossed

\* The resting orders of all books, the way the exchange tells them.
Resting ==
  UNION {{[r |-> r, stock |-> s, order |-> books[s].orders[r]]
           : r \in DOMAIN books[s].orders} : s \in Stocks}

\* When no event was lost and the queue is empty, the books hold exactly the
\* orders that rest at the exchange.
CaughtUp ==
  event_queue = <<>> /\ lost = 0 =>
     Resting = {[r |-> r, stock |-> market[r].stock,
                 order |-> [side |-> market[r].side, price |-> market[r].price,
                            shares |-> market[r].shares]] : r \in DOMAIN market}

\* When no update was refused and the broadcast queue is empty, a subscriber that
\* keeps the last update of every stock sees the BBO of every book.
ViewCurrent ==
  broadcast = <<>> /\ unsent = 0 =>
     \A s \in Stocks : snapshot_bbo(books[s].levels) =
                          IF view[s] = {} THEN NoBbo
                          ELSE (CHOOSE u \in view[s] : TRUE).snap

\* Lost events included, the books are only ever asked for what FeedSpec allows:
\* every event is applied at most once, so no reference is added while in use.
FeedOnly == FeedSpec
=============================================================================
