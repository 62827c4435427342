----------------------------- MODULE OrderBook ------------------------------
(***************************************************************************)
(* The order books of all stocks (struct OrderBook of orderbook/mod.rs):   *)
(* one book per stock and the index from order references to stocks that   *)
(* routes the events which do not name a stock.  A step is one call of     *)
(* OrderBook::apply_event; bbo is what the call returned.                  *)
(*                                                                         *)
(* A stock without a book and a stock with a new, empty book cannot be     *)
(* told apart by later events, so books is total and books are created     *)
(* empty.                                                                  *)
(*                                                                         *)
(* Two specifications share the actions.  Spec takes every event that the  *)
(* parser can deliver: references used twice, orders and replacements of   *)
(* no shares, unknown references.  FeedSpec is restricted to what the ITCH *)
(* feed sends: the reference of a new order is not in use and it has       *)
(* shares.  Lost events are allowed in both.                               *)
(***************************************************************************)
EXTENDS SingleOrderBook, RestingShares

CONSTANTS
  Stocks,
  MaxVolume,   \* bound on the volume of a level, u64 in the code
  MaxCount     \* bound on the order count of a level, u32 in the code

ASSUME CapAssumption == MaxVolume \in Nat /\ MaxCount \in Nat

VARIABLES
  books,           \* stock -> book
  order_to_stock,  \* order reference -> stock, for the orders the index knows
  bbo              \* the result of the last call: {} or {update}

vars == <<books, order_to_stock, bbo>>

Update == [stock : Stocks, seq_num : 0 .. SeqSpace - 1, snap : BboSnapshot]

-----------------------------------------------------------------------------
Init ==
  /\ books = [s \in Stocks |-> NewBook]
  /\ order_to_stock = EmptyMap
  /\ bbo = {}

\* Mutated form: an update is returned for every event that reaches a book.
Mut_create_bbo_update(s, before, after) ==
  { [stock |-> s, seq_num |-> before.seq_num, snap |-> after.last_snapshot] }

\* The update that a book returns with the event, when its BBO has changed.
create_bbo_update(s, before, after) ==
  IF after.last_snapshot = before.last_snapshot THEN {}
  ELSE { [stock |-> s, seq_num |-> before.seq_num, snap |-> after.last_snapshot] }

Apply(s, after) ==
  /\ books' = [books EXCEPT ![s] = after]
  /\ bbo' = create_bbo_update(s, books[s], after)

Ignored == books' = books /\ bbo' = {}

Known(r) == r \in DOMAIN order_to_stock

\* The bound on the size of a level, for an event that adds shares to it.
Headroom(s, shares, price) ==
  \A sd \in Side :
     /\ Volume(books[s].levels[sd], price) + shares =< MaxVolume
     /\ OrderCount(books[s].levels[sd], price) < MaxCount

-----------------------------------------------------------------------------
\* Mutated forms used by the mutation runs; no specification uses them.

\* The index keeps an order that a reduction has used up.
Mut_OrderReduced(r, n) ==
  \/ /\ ~Known(r)
     /\ Ignored
     /\ UNCHANGED order_to_stock
  \/ /\ Known(r)
     /\ Apply(order_to_stock[r], on_reduce(books[order_to_stock[r]], r, n))
     /\ UNCHANGED order_to_stock

\* The index is told of the new reference, and the old one is left in it.
Mut_OrderReplace(r, new_r, shares, price) ==
  \/ /\ ~Known(r)
     /\ Ignored
     /\ UNCHANGED order_to_stock
  \/ /\ Known(r)
     /\ LET s == order_to_stock[r]
        IN  /\ Headroom(s, shares, price)
            /\ order_to_stock' = Put(order_to_stock, new_r, s)
            /\ Apply(s, on_replace(books[s], r, new_r, shares, price))

-----------------------------------------------------------------------------
\* AddOrder and AddOrderMpid.
AddOrder(r, s, side, shares, price) ==
  /\ Headroom(s, shares, price)
  /\ order_to_stock' = Put(order_to_stock, r, s)
  /\ Apply(s, on_add(books[s], r, side, shares, price))

\* OrderExecuted, OrderExecutedPrice and OrderCancel.  The index forgets the
\* order once the book has no shares left of it.
OrderReduced(r, n) ==
  \/ /\ ~Known(r)
     /\ Ignored
     /\ UNCHANGED order_to_stock
  \/ /\ Known(r)
     /\ LET s     == order_to_stock[r]
            after == on_reduce(books[s], r, n)
            gone  == r \notin DOMAIN after.orders \/ after.orders[r].shares = 0
        IN  /\ Apply(s, after)
            /\ order_to_stock' = IF gone THEN Without(order_to_stock, r)
                                 ELSE order_to_stock

\* A delete does not use the index: it goes to the first book, in the order of
\* the hash map, that has the reference.
OrderDelete(r) ==
  /\ order_to_stock' = Without(order_to_stock, r)
  /\ \/ /\ \A s \in Stocks : r \notin DOMAIN books[s].orders
        /\ Ignored
     \/ \E s \in Stocks : /\ r \in DOMAIN books[s].orders
                          /\ Apply(s, on_delete(books[s], r))

OrderReplace(r, new_r, shares, price) ==
  \/ /\ ~Known(r)
     /\ Ignored
     /\ UNCHANGED order_to_stock
  \/ /\ Known(r)
     /\ LET s == order_to_stock[r]
        IN  /\ Headroom(s, shares, price)
            /\ order_to_stock' = Put(Without(order_to_stock, r), new_r, s)
            /\ Apply(s, on_replace(books[s], r, new_r, shares, price))

\* Trades, system events, the stock directory and the rest of the feed.
OtherEvent == Ignored /\ UNCHANGED order_to_stock

-----------------------------------------------------------------------------
Next ==
  \/ \E r \in Refs, s \in Stocks, sd \in Side, n \in Shares, p \in Prices :
        AddOrder(r, s, sd, n, p)
  \/ \E r \in Refs, n \in Shares : OrderReduced(r, n)
  \/ \E r \in Refs : OrderDelete(r)
  \/ \E r, new_r \in Refs, n \in Shares, p \in Prices : OrderReplace(r, new_r, n, p)
  \/ OtherEvent

Spec == Init /\ [][Next]_vars

\* The references in use: those of the resting orders of all books.
Live == UNION {DOMAIN books[s].orders : s \in Stocks}

FeedNext ==
  \/ \E r \in Refs \ Live, s \in Stocks, sd \in Side, n \in Shares \ {0}, p \in Prices :
        AddOrder(r, s, sd, n, p)
  \/ \E r \in Refs, n \in Shares : OrderReduced(r, n)
  \/ \E r \in Refs : OrderDelete(r)
  \/ \E r \in Refs, new_r \in Refs \ Live, n \in Shares \ {0}, p \in Prices :
        OrderReplace(r, new_r, n, p)
  \/ OtherEvent

FeedSpec == Init /\ [][FeedNext]_vars

-----------------------------------------------------------------------------
TypeOK ==
  /\ books = [s \in Stocks |-> books[s]]
  /\ \A s \in Stocks : IsBook(books[s])
  /\ IsMap(order_to_stock, Refs, Stocks)
  /\ bbo \subseteq Update
  /\ \A u, v \in bbo : u = v

\* What the book remembers as published is the BBO of its levels: after every
\* event a subscriber that has taken all updates knows the true BBO.
SnapshotCurrent ==
  \A s \in Stocks : books[s].last_snapshot = snapshot_bbo(books[s].levels)

\* Whatever arrives, the index only routes to a book that has the order, so an
\* event never reaches the wrong stock (the arms of OrderBook::apply_event).
IndexSound ==
  \A r \in DOMAIN order_to_stock : r \in DOMAIN books[order_to_stock[r]].orders

\* On an ITCH feed the index knows exactly the resting orders, and no order
\* rests in two books: a delete, which searches the books, finds the one order.
IndexComplete ==
  \A s \in Stocks, r \in Refs :
     r \in DOMAIN books[s].orders <=> Known(r) /\ order_to_stock[r] = s

\* Whatever arrives, a level covers the orders that rest at it, so the
\* saturating subtractions of BookSide never lose shares.
VolumeCovered ==
  \A s \in Stocks, sd \in Side, p \in Prices :
     Outstanding(books[s].orders, sd, p) =< Volume(books[s].levels[sd], p)

\* On an ITCH feed a level is exactly the shares of the orders that rest at its
\* price, and there is no level where nothing rests.
VolumeConserved ==
  \A s \in Stocks, sd \in Side, p \in Prices :
     /\ Volume(books[s].levels[sd], p) = Outstanding(books[s].orders, sd, p)
     /\ p \in DOMAIN books[s].levels[sd] => At(books[s].orders, sd, p) # {}

\* On an ITCH feed the order count of a level is at most the number of its
\* orders.  It is not the number: a partial execution takes one off too.
CountBounded ==
  \A s \in Stocks, sd \in Side : \A p \in DOMAIN books[s].levels[sd] :
     books[s].levels[sd][p].order_count =< Cardinality(At(books[s].orders, sd, p))

\* What an event tells of a stock: an update with its new BBO and the next number
\* if it has changed the BBO, and nothing otherwise.
Told(s) ==
  LET old == books[s]
      new == books'[s]
  IN  IF snapshot_bbo(new.levels) = snapshot_bbo(old.levels)
      THEN /\ new.seq_num = old.seq_num
           /\ \A u \in bbo' : u.stock # s
      ELSE /\ bbo' = { [stock |-> s, seq_num |-> old.seq_num,
                        snap  |-> snapshot_bbo(new.levels)] }
           /\ new.seq_num = (old.seq_num + 1) % SeqSpace

\* An event changes the BBO of at most one stock; it returns an update exactly
\* when it has changed one, for that stock, with its new BBO and the number that
\* follows the one of the stock's previous update.
UpdatesTell == [][\A s \in Stocks : Told(s)]_vars
=============================================================================
