-------------------------- MODULE SingleOrderBook ---------------------------
(***************************************************************************)
(* The order book of one stock (struct SingleOrderBook of                  *)
(* orderbook/mod.rs): the resting orders, the two sides that aggregate     *)
(* them by price, the last best-bid-and-offer (BBO) it has published and   *)
(* the number of the next update.  Each arm of apply_event is an operator  *)
(* from the book to the book after the event.  The field generation is     *)
(* left out: it only feeds the message of a debug assertion.               *)
(***************************************************************************)
EXTENDS BookSide

CONSTANT SeqSpace   \* seq_num is a wrapping counter: 2^64 in the code

ASSUME SeqAssumption == SeqSpace \in Nat \ {0}

BboSnapshot == [bid_price : Nat, bid_volume : Nat, ask_price : Nat, ask_volume : Nat]

IsBook(b) ==
  /\ b = [levels |-> b.levels, orders |-> b.orders,
          last_snapshot |-> b.last_snapshot, seq_num |-> b.seq_num]
  /\ b.levels = [sd \in Side |-> b.levels[sd]]
  /\ \A sd \in Side : IsMap(b.levels[sd], Prices, Level)
  /\ IsMap(b.orders, Refs, OrderInfo)
  /\ b.last_snapshot \in BboSnapshot
  /\ b.seq_num \in 0 .. SeqSpace - 1

NoBbo == [bid_price |-> 0, bid_volume |-> 0, ask_price |-> 0, ask_volume |-> 0]

\* SingleOrderBook::new.
NewBook == [levels        |-> [sd \in Side |-> EmptyMap],
            orders        |-> EmptyMap,
            last_snapshot |-> NoBbo,
            seq_num       |-> 0]

snapshot_bbo(levels) ==
  LET bid == best_snapshot(levels["Buy"], "Buy")
      ask == best_snapshot(levels["Sell"], "Sell")
  IN  [bid_price |-> bid[1], bid_volume |-> bid[2],
       ask_price |-> ask[1], ask_volume |-> ask[2]]

is_crossed(snap) ==
  snap.bid_price # 0 /\ snap.ask_price # 0 /\ snap.bid_price > snap.ask_price

-----------------------------------------------------------------------------
\* Mutated forms used by the mutation runs; no specification uses them.

\* The update is published, but the book does not remember that it was.
Mut_touched(book, levels, orders) ==
  [book EXCEPT !.levels  = levels,
               !.orders  = orders,
               !.seq_num = IF snapshot_bbo(levels) = book.last_snapshot
                           THEN @ ELSE (@ + 1) % SeqSpace]

\* A reduction does not stop at the shares the order has left.
Mut_reduced(info, n) == n

-----------------------------------------------------------------------------
\* The end of apply_event, reached when the event touched the levels: the new
\* BBO is remembered and, when it differs from the last one, numbered.
touched(book, levels, orders) ==
  [levels        |-> levels,
   orders        |-> orders,
   last_snapshot |-> snapshot_bbo(levels),
   seq_num       |-> IF snapshot_bbo(levels) = book.last_snapshot
                     THEN book.seq_num ELSE (book.seq_num + 1) % SeqSpace]

\* AddOrder and AddOrderMpid.
on_add(book, r, side, shares, price) ==
  touched(book,
          [book.levels EXCEPT ![side] = add_order(@, price, shares)],
          Put(book.orders, r, [side |-> side, price |-> price, shares |-> shares]))

\* The shares an execution or a cancel takes from an order.
reduced(info, n) == IF n < info.shares THEN n ELSE info.shares

\* OrderExecuted, OrderExecutedPrice and OrderCancel.  A reduction by nothing
\* leaves the levels alone, but still drops an order that has no shares.
on_reduce(book, r, n) ==
  LET info   == book.orders[r]
      cut    == reduced(info, n)
      orders == IF info.shares = cut THEN Without(book.orders, r)
                ELSE [book.orders EXCEPT ![r].shares = @ - cut]
  IN  IF r \notin DOMAIN book.orders THEN book
      ELSE IF cut = 0 THEN [book EXCEPT !.orders = orders]
      ELSE touched(book,
                   [book.levels EXCEPT ![info.side] = remove_shares(@, info.price, cut)],
                   orders)

on_delete(book, r) ==
  LET info == book.orders[r]
  IN  IF r \notin DOMAIN book.orders THEN book
      ELSE touched(book,
                   [book.levels EXCEPT ![info.side] = remove_shares(@, info.price, info.shares)],
                   Without(book.orders, r))

\* Mutated form: the replacement rests under the old reference.
Mut_on_replace(book, r, new_r, shares, price) ==
  LET old == book.orders[r]
  IN  IF r \notin DOMAIN book.orders THEN book
      ELSE touched(book,
                   [book.levels EXCEPT ![old.side] =
                      replace_atomically(@, old.price, old.shares, price, shares)],
                   Put(book.orders, r,
                       [side |-> old.side, price |-> price, shares |-> shares]))

on_replace(book, r, new_r, shares, price) ==
  LET old == book.orders[r]
  IN  IF r \notin DOMAIN book.orders THEN book
      ELSE touched(book,
                   [book.levels EXCEPT ![old.side] =
                      replace_atomically(@, old.price, old.shares, price, shares)],
                   Put(Without(book.orders, r), new_r,
                       [side |-> old.side, price |-> price, shares |-> shares]))
=============================================================================
