------------------------------ MODULE BookSide ------------------------------
(***************************************************************************)
(* One side of a limit order book (struct BookSide of orderbook/mod.rs): a *)
(* map from prices to levels.  The code keeps it in a BTreeMap, whose only *)
(* use is to find the best price; here it is a function whose domain is    *)
(* the set of prices that have a level.  The price field of a level always *)
(* equals its key, so a level is its volume and its order count.           *)
(***************************************************************************)
EXTENDS Integers, FiniteSetsExt, Functions

CONSTANTS
  Refs,      \* order reference numbers (u64)
  Prices,    \* prices (u32 on the wire, u64 in the book)
  Shares     \* share quantities an event may carry (u32)

ASSUME BookAssumption ==
  /\ IsFiniteSet(Refs)
  /\ IsFiniteSet(Prices) /\ Prices \subseteq Nat
  /\ Shares \subseteq Nat

Side == {"Buy", "Sell"}

Level == [volume : Nat, order_count : Nat]

\* A resting order.
OrderInfo == [side : Side, price : Prices, shares : Nat]

\* f maps some of the keys in K to values in V.
IsMap(f, K, V) == DOMAIN f \subseteq K /\ f \in [DOMAIN f -> V]

EmptyMap == [k \in {} |-> k]

Put(f, k, v) == [x \in DOMAIN f \cup {k} |-> IF x = k THEN v ELSE f[x]]

Without(f, k) == Restrict(f, DOMAIN f \ {k})

\* u64::saturating_sub and u32::saturating_sub.
saturating_sub(a, b) == IF a >= b THEN a - b ELSE 0

Volume(levels, price) == IF price \in DOMAIN levels THEN levels[price].volume ELSE 0

OrderCount(levels, price) == IF price \in DOMAIN levels THEN levels[price].order_count ELSE 0

-----------------------------------------------------------------------------
\* Mutated forms used by the mutation runs; no specification uses them.

\* A level is dropped when its order count, not its volume, reaches zero.
Mut_remove_shares(levels, price, shares) ==
  IF price \notin DOMAIN levels THEN levels
  ELSE IF levels[price].order_count =< 1 THEN Without(levels, price)
  ELSE Put(levels, price, [volume      |-> saturating_sub(levels[price].volume, shares),
                           order_count |-> levels[price].order_count - 1])

\* The order count is left alone.
Mut_remove_shares_only(levels, price, shares) ==
  LET volume == saturating_sub(Volume(levels, price), shares)
  IN  IF price \in DOMAIN levels /\ volume > 0
      THEN Put(levels, price, [levels[price] EXCEPT !.volume = volume])
      ELSE Without(levels, price)

\* A replacement at the same price forgets to take the old shares off.
Mut_replace_atomically(levels, old_price, old_shares, new_price, new_shares) ==
  Put(levels, new_price,
      [volume      |-> Volume(levels, new_price) + new_shares,
       order_count |-> OrderCount(levels, new_price)])

-----------------------------------------------------------------------------
add_order(levels, price, shares) ==
  Put(levels, price, [volume      |-> Volume(levels, price) + shares,
                      order_count |-> OrderCount(levels, price) + 1])

\* Also delete_all_at_price, whose body is the same.  Every reduction takes one
\* off the order count, a partial one included.
remove_shares(levels, price, shares) ==
  LET volume == saturating_sub(Volume(levels, price), shares)
  IN  IF price \in DOMAIN levels /\ volume > 0
      THEN Put(levels, price,
               [volume      |-> volume,
                order_count |-> saturating_sub(levels[price].order_count, 1)])
      ELSE Without(levels, price)

\* At an unchanged price the level keeps its order count; otherwise this is a
\* removal followed by an insertion.
replace_atomically(levels, old_price, old_shares, new_price, new_shares) ==
  LET volume == saturating_sub(Volume(levels, old_price), old_shares) + new_shares
      kept   == IF old_price \in DOMAIN levels THEN levels[old_price].order_count ELSE 1
  IN  IF old_price # new_price
      THEN add_order(remove_shares(levels, old_price, old_shares), new_price, new_shares)
      ELSE IF old_price \in DOMAIN levels /\ volume = 0
           THEN Without(levels, old_price)
           ELSE Put(levels, new_price, [volume |-> volume, order_count |-> kept])

\* The best price and its volume; <<0, 0>> on an empty side.
best_snapshot(levels, side) ==
  IF DOMAIN levels = {} THEN <<0, 0>>
  ELSE LET best == IF side = "Buy" THEN Max(DOMAIN levels) ELSE Min(DOMAIN levels)
       IN  <<best, levels[best].volume>>
=============================================================================
