---------------------------- MODULE OptionChain -----------------------------
(***************************************************************************)
(* The option chains (options/mod.rs) and the way the writer thread drives *)
(* them (main.rs).  A chain belongs to an underlying stock and keeps one   *)
(* book per registered contract and the spot price of the stock; a book    *)
(* keeps its orders, its levels and its last pricing.  A step is one event *)
(* handled by the writer; snapshot is what it sends for it.                *)
(*                                                                         *)
(* The spot price is a floating-point number in the code.  Here it is      *)
(* counted in half price units, so that a mid price is a sum of two prices.*)
(* A pricing is what it was computed from, the BBO and the spot; whether   *)
(* the solver finds one depends on time and on numerics and is left open.  *)
(* Fields that are written and never read (chain_dirty, last_bbo, the      *)
(* spot of a book, the dates) are left out.                                *)
(***************************************************************************)
EXTENDS BookSide, RestingShares

CONSTANTS
  Underlyings,
  Contracts,     \* contract keys
  UnderlyingOf,  \* contract -> its underlying
  MaxContracts,  \* MAX_CONTRACTS_PER_CHAIN
  SpotQuotes,    \* the best bids and offers of the stocks
  MaxVolume,     \* contract -> bound on the volume of a level, u64 in the code
  MaxCount,      \* bound on the order count of a level, u32 in the code
  Lossy          \* the prices x for which (x / 10000.0) * 10000.0 falls below x; not 0

ASSUME ChainAssumption ==
  /\ UnderlyingOf \in [Contracts -> Underlyings]
  /\ SpotQuotes \subseteq Nat \X Nat /\ Lossy \subseteq Nat \ {0}
  /\ MaxContracts \in Nat \ {0} /\ MaxVolume \in [Contracts -> Nat] /\ MaxCount \in Nat

VARIABLES
  chains,    \* underlying -> chain
  snapshot,  \* the snapshot sent by the last event: {} or {snapshot}
  writer,    \* "up", or "panicked" when a snapshot has overflowed
  mid        \* history: underlying -> {} or {the last mid price it was told}

vars == <<chains, snapshot, writer, mid>>

Init ==
  /\ chains = EmptyMap
  /\ snapshot = {}
  /\ writer = "up"
  /\ mid = [u \in Underlyings |-> {}]

NewChain == [contracts |-> EmptyMap, spot |-> {}]

NewOptionBook == [levels |-> [sd \in Side |-> EmptyMap], orders |-> EmptyMap,
                  pricing |-> {}, dirty |-> TRUE]

bbo_snapshot(book) ==
  <<best_snapshot(book.levels["Buy"], "Buy"), best_snapshot(book.levels["Sell"], "Sell")>>

\* The condition for mid_price to be known.
TwoSided(quote) == quote[1][1] > 0 /\ quote[2][1] > 0

-----------------------------------------------------------------------------
(* Mutated forms used by the mutation runs; no specification uses them. *)

\* A deletion does not mark the pricing as out of date.
Mut_delete_order(book, r) ==
  IF r \notin DOMAIN book.orders THEN book
  ELSE LET info == book.orders[r]
       IN  [book EXCEPT !.orders = Without(@, r),
                        !.levels[info.side] = remove_shares(@, info.price, info.shares)]

\* A new spot price leaves the pricings as they are.
Mut_update_spot(chain, spot) == [chain EXCEPT !.spot = {spot}]

\* The spot price is rounded up.
Mut_spot_raw(spot) == (spot + 1) \div 2

\* A cancel takes what the event says off the level.
Mut_remove_order(book, r, n) ==
  IF r \notin DOMAIN book.orders THEN book
  ELSE LET info == book.orders[r]
           left == saturating_sub(info.shares, n)
       IN  [book EXCEPT !.orders = IF left = 0 THEN Without(@, r)
                                   ELSE Put(@, r, [info EXCEPT !.shares = left]),
                        !.levels[info.side] = remove_shares(@, info.price, n),
                        !.dirty = TRUE]

\* A cancel does not stop at the shares the order has left.
Mut_remove_order_any(book, r, n) ==
  IF r \notin DOMAIN book.orders THEN book
  ELSE LET info == book.orders[r]
       IN  [book EXCEPT !.orders = IF info.shares = n THEN Without(@, r)
                                   ELSE Put(@, r, [info EXCEPT !.shares = @ - n]),
                        !.levels[info.side] = remove_shares(@, info.price, n),
                        !.dirty = TRUE]

\* The prices of the writer are whole: the spot price is multiplied back and
\* truncated, which loses a half and, for some prices, one more.
spot_raw(spot) ==
  IF spot % 2 = 0 /\ spot \div 2 \in Lossy THEN spot \div 2 - 1 ELSE spot \div 2

-----------------------------------------------------------------------------
(* OptionBook. *)

add_option_order(book, r, side, price, shares) ==
  [levels  |-> [book.levels EXCEPT ![side] = add_order(@, price, shares)],
   orders  |-> Put(book.orders, r, [side |-> side, price |-> price, shares |-> shares]),
   pricing |-> book.pricing,
   dirty   |-> TRUE]

remove_order(book, r, n) ==
  IF r \notin DOMAIN book.orders THEN book
  ELSE LET info == book.orders[r]
           cut  == IF n < info.shares THEN n ELSE info.shares
           left == info.shares - cut
       IN  [levels  |-> [book.levels EXCEPT ![info.side] =
                           IF cut = 0 THEN @ ELSE remove_shares(@, info.price, cut)],
            orders  |-> IF left = 0 THEN Without(book.orders, r)
                        ELSE Put(book.orders, r, [info EXCEPT !.shares = left]),
            pricing |-> book.pricing,
            dirty   |-> book.dirty \/ cut > 0]

delete_order(book, r) ==
  IF r \notin DOMAIN book.orders THEN book
  ELSE LET info == book.orders[r]
       IN  [levels  |-> [book.levels EXCEPT ![info.side] =
                           remove_shares(@, info.price, info.shares)],
            orders  |-> Without(book.orders, r),
            pricing |-> book.pricing,
            dirty   |-> TRUE]

\* A one-sided book is left alone: it stays dirty and keeps its last pricing.
compute_pricing(book, spot, solved) ==
  IF ~TwoSided(bbo_snapshot(book)) THEN book
  ELSE [book EXCEPT !.pricing = IF solved THEN {[quote |-> bbo_snapshot(book), spot |-> spot]}
                                ELSE {},
                    !.dirty = FALSE]

-----------------------------------------------------------------------------
(* OptionChain. *)

update_spot(chain, spot) ==
  [spot |-> {spot},
   contracts |-> [c \in DOMAIN chain.contracts |-> [chain.contracts[c] EXCEPT !.dirty = TRUE]]]

update_all_pricing(chain, spot, solved) ==
  [spot |-> chain.spot,
   contracts |-> [c \in DOMAIN chain.contracts |->
     IF chain.contracts[c].dirty THEN compute_pricing(chain.contracts[c], spot, c \in solved)
     ELSE chain.contracts[c]]]

\* What a snapshot shows of a chain: the contracts with a pricing, whatever its
\* age, and a price on either side.
Listed(chain) ==
  UNION { {[contract |-> c, quote |-> bbo_snapshot(chain.contracts[c]), pricing |-> p]
              : p \in chain.contracts[c].pricing}
          : c \in {d \in DOMAIN chain.contracts :
                     \E side \in 1 .. 2 : bbo_snapshot(chain.contracts[d])[side][1] > 0} }

\* aggregate_snapshot and the enqueuing of its result.  The chain takes the spot
\* price of the call; the array of contracts has a fixed capacity, and a push
\* beyond it panics.
aggregate_snapshot(u, chain, spot) ==
  \E solved \in SUBSET DOMAIN chain.contracts :
     LET after == update_all_pricing(update_spot(chain, spot), spot, solved)
     IN  /\ chains' = Put(chains, u, after)
         /\ \/ /\ Cardinality(Listed(after)) > MaxContracts
               /\ writer' = "panicked"
               /\ snapshot' = {}
            \/ /\ Cardinality(Listed(after)) =< MaxContracts
               /\ snapshot' = IF Listed(after) = {} THEN {}
                              ELSE {[underlying |-> u, spot |-> spot, contracts |-> Listed(after)]}
               /\ UNCHANGED writer

Quiet == snapshot' = {} /\ UNCHANGED writer

-----------------------------------------------------------------------------
(* The writer and the manager. *)

\* A new BBO of the stock.  A one-sided BBO, and a stock without a chain, are of
\* no interest to the chains.
SpotUpdate(u, bid, ask) ==
  /\ writer = "up"
  /\ \/ /\ bid = 0 \/ ask = 0
        /\ UNCHANGED <<chains, mid>> /\ Quiet
     \/ /\ bid > 0 /\ ask > 0
        /\ mid' = [mid EXCEPT ![u] = {bid + ask}]
        /\ \/ u \notin DOMAIN chains /\ UNCHANGED chains /\ Quiet
           \/ u \in DOMAIN chains /\ aggregate_snapshot(u, chains[u], bid + ask)

ChainOf(c) ==
  IF UnderlyingOf[c] \in DOMAIN chains THEN chains[UnderlyingOf[c]] ELSE NewChain

Registered(c) == c \in DOMAIN ChainOf(c).contracts

BookOf(c) == IF Registered(c) THEN ChainOf(c).contracts[c] ELSE NewOptionBook

\* The chain of c with this book for the contract.
WithBook(c, book) == [contracts |-> Put(ChainOf(c).contracts, c, book), spot |-> ChainOf(c).spot]

\* Registers a contract; one that is registered already gets a new, empty book.
register_contract(c) ==
  /\ writer = "up"
  /\ chains' = Put(chains, UnderlyingOf[c], WithBook(c, NewOptionBook))
  /\ UNCHANGED mid /\ Quiet

\* An option event that takes the book of c to book.  It creates the chain, if
\* there is none, but never the contract.  A pricing is tried when the spot price
\* is known; when it is found, the whole chain is sent, with the spot price put
\* through spot_raw.
apply_option_order_event(c, book) ==
  LET u         == UnderlyingOf[c]
      priceable == TwoSided(bbo_snapshot(book)) /\ ChainOf(c).spot # {}
  IN  /\ writer = "up"
      /\ UNCHANGED mid
      /\ \/ /\ ~Registered(c)
            /\ chains' = Put(chains, u, ChainOf(c)) /\ Quiet
         \/ /\ Registered(c) /\ ~priceable
            /\ chains' = Put(chains, u, WithBook(c, book)) /\ Quiet
         \/ /\ Registered(c) /\ priceable
            /\ \E spot \in ChainOf(c).spot :
                 \/ /\ chains' = Put(chains, u, WithBook(c, compute_pricing(book, spot, FALSE)))
                    /\ Quiet
                 \/ aggregate_snapshot(u, WithBook(c, compute_pricing(book, spot, TRUE)),
                                       2 * spot_raw(spot))

\* The bound on the size of a level.
Headroom(c, side, price, shares) ==
  LET levels == BookOf(c).levels[side]
  IN  Volume(levels, price) + shares =< MaxVolume[c] /\ OrderCount(levels, price) < MaxCount

AddOption(c, r, side, price, shares) ==
  /\ Headroom(c, side, price, shares)
  /\ apply_option_order_event(c, add_option_order(BookOf(c), r, side, price, shares))

CancelOption(c, r, n) == apply_option_order_event(c, remove_order(BookOf(c), r, n))

DeleteOption(c, r) == apply_option_order_event(c, delete_order(BookOf(c), r))

OptionEvent ==
  \E c \in Contracts, r \in Refs :
     \/ \E sd \in Side, p \in Prices, n \in Shares : AddOption(c, r, sd, p, n)
     \/ \E n \in Shares : CancelOption(c, r, n)
     \/ DeleteOption(c, r)

Next ==
  \/ \E u \in Underlyings, q \in SpotQuotes : SpotUpdate(u, q[1], q[2])
  \/ \E c \in Contracts : register_contract(c)
  \/ OptionEvent

Spec == Init /\ [][Next]_vars

-----------------------------------------------------------------------------
OptionBookOK(b) ==
  /\ \A sd \in Side : IsMap(b.levels[sd], Prices, Level)
  /\ IsMap(b.orders, Refs, OrderInfo)
  /\ \A p \in b.pricing : DOMAIN p = {"quote", "spot"} /\ p.spot \in Nat
  /\ Cardinality(b.pricing) =< 1
  /\ b.dirty \in BOOLEAN

TypeOK ==
  /\ DOMAIN chains \subseteq Underlyings
  /\ \A u \in DOMAIN chains :
       /\ chains[u].spot \subseteq Nat /\ Cardinality(chains[u].spot) =< 1
       /\ DOMAIN chains[u].contracts \subseteq {c \in Contracts : UnderlyingOf[c] = u}
       /\ \A c \in DOMAIN chains[u].contracts : OptionBookOK(chains[u].contracts[c])
  /\ Cardinality(snapshot) =< 1
  /\ writer \in {"up", "panicked"}
  /\ \A u \in Underlyings : mid[u] \subseteq Nat /\ Cardinality(mid[u]) =< 1

\* A contract that a snapshot shows with two sides is priced from exactly that
\* quote and from the spot price of the same snapshot.  (A one-sided contract is
\* shown with the pricing of an earlier quote and spot: compute_pricing gives up
\* before it drops it.)
SnapshotFresh ==
  \A s \in snapshot : \A e \in s.contracts :
     TwoSided(e.quote) => e.pricing = [quote |-> e.quote, spot |-> s.spot]

\* A book that is not dirty needs no pricing: what it has was computed from its
\* present quote and the present spot price of its chain.
CleanMeansCurrent ==
  \A u \in DOMAIN chains : \A c \in DOMAIN chains[u].contracts :
     LET b == chains[u].contracts[c]
     IN  ~b.dirty => \A p \in b.pricing : p.quote = bbo_snapshot(b) /\ {p.spot} = chains[u].spot

\* Option events put the spot price through spot_raw, again and again, but never
\* raise it: a snapshot never shows a spot above the last mid price of the stock.
SpotNotAbove ==
  \A u \in DOMAIN chains : \A spot \in chains[u].spot : \E m \in mid[u] : spot =< m

\* Whatever arrives, a level of a contract covers the orders that rest at it.
OptionVolumeCovered ==
  \A u \in DOMAIN chains : \A c \in DOMAIN chains[u].contracts : \A sd \in Side, p \in Prices :
     Outstanding(chains[u].contracts[c].orders, sd, p)
       =< Volume(chains[u].contracts[c].levels[sd], p)
=============================================================================
