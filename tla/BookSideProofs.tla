--------------------------- MODULE BookSideProofs ---------------------------
(***************************************************************************)
(* Lemmas about the levels of a side and the orders that rest at them, for *)
(* every finite set of references and of prices.  The order books of the   *)
(* stocks and those of the option contracts are proved from them.          *)
(***************************************************************************)
EXTENDS BookSide, RestingShares, FiniteSetTheorems, WellFoundedInduction, TLAPS

-----------------------------------------------------------------------------
(* Maps. *)

LEMMA PutFacts ==
  ASSUME NEW f, NEW k, NEW v
  PROVE  /\ DOMAIN Put(f, k, v) = DOMAIN f \cup {k}
         /\ Put(f, k, v)[k] = v
         /\ \A x \in DOMAIN f \ {k} : Put(f, k, v)[x] = f[x]
BY DEF Put

LEMMA WithoutFacts ==
  ASSUME NEW f, NEW k
  PROVE  /\ DOMAIN Without(f, k) = DOMAIN f \ {k}
         /\ \A x \in DOMAIN f \ {k} : Without(f, k)[x] = f[x]
BY DEF Without, Restrict

LEMMA PutType ==
  ASSUME NEW f, NEW K, NEW V, IsMap(f, K, V), NEW k \in K, NEW v \in V
  PROVE  IsMap(Put(f, k, v), K, V)
BY DEF Put, IsMap

LEMMA WithoutType ==
  ASSUME NEW f, NEW K, NEW V, IsMap(f, K, V), NEW k
  PROVE  IsMap(Without(f, k), K, V)
BY DEF Without, Restrict, IsMap

-----------------------------------------------------------------------------
(* Levels. *)

IsLevels(levels) == IsMap(levels, Prices, Level)

\* The levels of a book.
IsSides(levels) ==
  /\ levels = [sd \in Side |-> levels[sd]]
  /\ \A sd \in Side : IsLevels(levels[sd])

LEMMA VolumeType ==
  ASSUME NEW levels, IsLevels(levels), NEW p
  PROVE  /\ Volume(levels, p) \in Nat
         /\ OrderCount(levels, p) \in Nat
         /\ p \in DOMAIN levels => levels[p] \in Level
BY DEF IsLevels, IsMap, Volume, OrderCount, Level

\* No level is empty.  It holds on an ITCH feed.
NoneEmpty(levels) == \A p \in DOMAIN levels : levels[p].volume > 0

\* What storing a level at a price does to the volumes.
LEMMA PutLevel ==
  ASSUME NEW levels, IsLevels(levels), NEW price \in Prices,
         NEW level \in Level, NEW new, new = Put(levels, price, level)
  PROVE  /\ IsLevels(new)
         /\ NoneEmpty(levels) /\ level.volume > 0 => NoneEmpty(new)
         /\ \A p : Volume(new, p) = IF p = price THEN level.volume ELSE Volume(levels, p)
<1>1. IsLevels(new)
  BY PutType DEF IsLevels
<1>2. /\ DOMAIN new = DOMAIN levels \cup {price}
      /\ new[price] = level
      /\ \A x \in DOMAIN levels \ {price} : new[x] = levels[x]
  BY DEF Put
<1>3. NoneEmpty(levels) /\ level.volume > 0 => NoneEmpty(new)
  BY <1>2 DEF NoneEmpty
<1>4. ASSUME NEW p
      PROVE  Volume(new, p) = IF p = price THEN level.volume ELSE Volume(levels, p)
  BY <1>2 DEF Volume
<1>5. QED
  BY <1>1, <1>3, <1>4

LEMMA WithoutLevel ==
  ASSUME NEW levels, IsLevels(levels), NEW price \in Prices,
         NEW new, new = Without(levels, price)
  PROVE  /\ IsLevels(new)
         /\ NoneEmpty(levels) => NoneEmpty(new)
         /\ \A p : Volume(new, p) = IF p = price THEN 0 ELSE Volume(levels, p)
<1>1. IsLevels(new)
  BY WithoutType DEF IsLevels
<1>2. /\ DOMAIN new = DOMAIN levels \ {price}
      /\ \A x \in DOMAIN levels \ {price} : new[x] = levels[x]
  BY WithoutFacts
<1>3. NoneEmpty(levels) => NoneEmpty(new)
  BY <1>2 DEF NoneEmpty
<1>4. ASSUME NEW p
      PROVE  Volume(new, p) = IF p = price THEN 0 ELSE Volume(levels, p)
  BY <1>2 DEF Volume
<1>5. QED
  BY <1>1, <1>3, <1>4

\* add_order adds the shares to the level of the price and to no other.
LEMMA AddOrderFacts ==
  ASSUME NEW levels, IsLevels(levels), NEW price \in Prices, NEW shares \in Nat,
         NEW new, new = add_order(levels, price, shares)
  PROVE  /\ IsLevels(new)
         /\ NoneEmpty(levels) /\ shares > 0 => NoneEmpty(new)
         /\ \A p : Volume(new, p) = IF p = price THEN Volume(levels, p) + shares
                                    ELSE Volume(levels, p)
<1> DEFINE level == [volume      |-> Volume(levels, price) + shares,
                     order_count |-> OrderCount(levels, price) + 1]
<1>1. /\ level \in Level
      /\ level.volume = Volume(levels, price) + shares
      /\ shares > 0 => level.volume > 0
  BY VolumeType DEF Level
<1>2. new = Put(levels, price, level)
  BY DEF add_order
<1> HIDE DEF level
<1>3. QED
  BY <1>1, <1>2, PutLevel

LEMMA SaturatingSub ==
  ASSUME NEW a \in Nat, NEW b \in Nat
  PROVE  /\ saturating_sub(a, b) \in Nat
         /\ saturating_sub(a, b) >= a - b
         /\ a >= b => saturating_sub(a, b) = a - b
BY DEF saturating_sub

\* remove_shares takes the shares, as far as they are there, from the level of
\* the price and from no other, and drops the level when nothing is left of it.
LEMMA RemoveSharesFacts ==
  ASSUME NEW levels, IsLevels(levels), NEW price \in Prices, NEW shares \in Nat,
         NEW new, new = remove_shares(levels, price, shares)
  PROVE  /\ IsLevels(new)
         /\ NoneEmpty(levels) => NoneEmpty(new)
         /\ \A p : Volume(new, p) =
              IF p = price THEN saturating_sub(Volume(levels, p), shares)
              ELSE Volume(levels, p)
<1> DEFINE volume == saturating_sub(Volume(levels, price), shares)
<1>1. volume \in Nat
  BY VolumeType, SaturatingSub
<1>2. CASE price \in DOMAIN levels /\ volume > 0
  <2> DEFINE level == [volume      |-> volume,
                       order_count |-> saturating_sub(levels[price].order_count, 1)]
  <2>1. saturating_sub(levels[price].order_count, 1) \in Nat
    BY <1>2, VolumeType, SaturatingSub DEF Level
  <2>2. level \in Level /\ level.volume = volume
    BY <1>1, <2>1 DEF Level
  <2>3. new = Put(levels, price, level)
    BY <1>2 DEF remove_shares
  <2> HIDE DEF level
  <2>4. QED
    BY <1>2, <2>2, <2>3, PutLevel
<1>3. CASE ~(price \in DOMAIN levels /\ volume > 0)
  <2>1. new = Without(levels, price)
    BY <1>3 DEF remove_shares
  <2>2. volume = 0
    BY <1>1, <1>3 DEF Volume, saturating_sub
  <2>3. QED
    BY <2>1, <2>2, WithoutLevel
<1>4. QED
  BY <1>2, <1>3

\* A replacement takes the old shares off the old price and adds the new ones to
\* the new price, whether the two prices are the same or not.
LEMMA ReplaceFacts ==
  ASSUME NEW levels, IsLevels(levels),
         NEW old_price \in Prices, NEW old_shares \in Nat,
         NEW new_price \in Prices, NEW new_shares \in Nat,
         NEW new, new = replace_atomically(levels, old_price, old_shares, new_price, new_shares)
  PROVE  /\ IsLevels(new)
         /\ NoneEmpty(levels) /\ new_shares > 0 => NoneEmpty(new)
         /\ \A p : Volume(new, p) =
              (IF p = old_price THEN saturating_sub(Volume(levels, p), old_shares)
               ELSE Volume(levels, p))
              + (IF p = new_price THEN new_shares ELSE 0)
<1> DEFINE volume == saturating_sub(Volume(levels, old_price), old_shares) + new_shares
<1>1. volume \in Nat /\ (new_shares > 0 => volume > 0)
  <2>1. saturating_sub(Volume(levels, old_price), old_shares) \in Nat
    BY VolumeType, SaturatingSub
  <2>2. QED
    BY <2>1
<1>2. CASE old_price # new_price
  <2>1. PICK mid : mid = remove_shares(levels, old_price, old_shares)
    OBVIOUS
  <2>2. /\ IsLevels(mid)
        /\ NoneEmpty(levels) => NoneEmpty(mid)
        /\ \A p : Volume(mid, p) =
             IF p = old_price THEN saturating_sub(Volume(levels, p), old_shares)
             ELSE Volume(levels, p)
    BY <2>1, RemoveSharesFacts
  <2>3. new = add_order(mid, new_price, new_shares)
    BY <1>2, <2>1 DEF replace_atomically
  <2>4. /\ IsLevels(new)
        /\ NoneEmpty(mid) /\ new_shares > 0 => NoneEmpty(new)
        /\ \A p : Volume(new, p) = IF p = new_price THEN Volume(mid, p) + new_shares
                                   ELSE Volume(mid, p)
    BY <2>2, <2>3, AddOrderFacts
  <2>5. \A p : Volume(mid, p) \in Nat
    BY <2>2, VolumeType
  <2>6. QED
    BY <2>2, <2>4, <2>5
<1>3. CASE old_price = new_price /\ old_price \in DOMAIN levels /\ volume = 0
  <2>1. new = Without(levels, old_price)
    BY <1>3 DEF replace_atomically
  <2>2. /\ IsLevels(new)
        /\ NoneEmpty(levels) => NoneEmpty(new)
        /\ \A p : Volume(new, p) = IF p = old_price THEN 0 ELSE Volume(levels, p)
    BY <2>1, WithoutLevel
  <2>3. \A p : Volume(levels, p) \in Nat
    BY VolumeType
  <2>4. QED
    BY <1>3, <2>2, <2>3
<1>4. CASE old_price = new_price /\ ~(old_price \in DOMAIN levels /\ volume = 0)
  <2> DEFINE level == [volume      |-> volume,
                       order_count |-> IF old_price \in DOMAIN levels
                                       THEN levels[old_price].order_count ELSE 1]
  <2>1. level \in Level /\ level.volume = volume
    BY <1>1, VolumeType DEF Level
  <2>2. new = Put(levels, new_price, level)
    BY <1>4 DEF replace_atomically
  <2> HIDE DEF level
  <2>3. /\ IsLevels(new)
        /\ NoneEmpty(levels) /\ level.volume > 0 => NoneEmpty(new)
        /\ \A p : Volume(new, p) = IF p = new_price THEN level.volume ELSE Volume(levels, p)
    BY <2>1, <2>2, PutLevel
  <2>4. \A p : Volume(levels, p) \in Nat
    BY VolumeType
  <2>5. QED
    BY <1>1, <1>4, <2>1, <2>3, <2>4
<1>5. QED
  BY <1>2, <1>3, <1>4

-----------------------------------------------------------------------------
(* Resting shares. *)

IsOrders(orders) == IsMap(orders, Refs, OrderInfo)

\* The shares of one order at a price.
Own(orders, r, sd, p) ==
  IF r \in At(orders, sd, p) THEN orders[r].shares ELSE 0

LEMMA OwnType ==
  ASSUME NEW orders, IsOrders(orders), NEW r, NEW sd, NEW p
  PROVE  Own(orders, r, sd, p) \in Nat
BY DEF IsOrders, IsMap, OrderInfo, Own, At

LEMMA UnitsFinite ==
  ASSUME NEW orders, IsOrders(orders), NEW sd, NEW p
  PROVE  /\ IsFiniteSet(Units(orders, sd, p))
         /\ Outstanding(orders, sd, p) \in Nat
<1> DEFINE A == At(orders, sd, p)
           f == [r \in A |-> {r} \X (1 .. orders[r].shares)]
           T == {{r} \X (1 .. orders[r].shares) : r \in A}
<1>1. IsFiniteSet(A)
  <2>1. A \in SUBSET Refs
    BY DEF At, IsOrders, IsMap
  <2>2. QED
    BY <2>1, BookAssumption, FS_Subset DEF BookAssumption
<1>2. f \in Surjection(A, T)
  BY DEF Surjection
<1>3. IsFiniteSet(T)
  BY <1>1, <1>2, FS_Surjection
<1>4. \A t \in T : IsFiniteSet(t)
  <2>1. SUFFICES ASSUME NEW r \in A
                 PROVE  IsFiniteSet({r} \X (1 .. orders[r].shares))
    OBVIOUS
  <2>2. orders[r].shares \in Int
    BY DEF At, IsOrders, IsMap, OrderInfo
  <2>3. IsFiniteSet(1 .. orders[r].shares)
    <3>1. PICK n \in Int : n = orders[r].shares
      BY <2>2
    <3>2. IsFiniteSet(1 .. n)
      BY FS_Interval
    <3>3. QED
      BY <3>1, <3>2
  <2>4. IsFiniteSet({r})
    BY FS_Singleton
  <2>5. QED
    BY <2>3, <2>4, FS_Product
<1>5. IsFiniteSet(Units(orders, sd, p))
  BY <1>3, <1>4, FS_UNION DEF Units
<1>6. QED
  BY <1>5, FS_CardinalityType DEF Outstanding

LEMMA IntervalSize ==
  ASSUME NEW n \in Nat
  PROVE  IsFiniteSet(1 .. n) /\ Cardinality(1 .. n) = n
<1>1. 1 \in Int /\ n \in Int
  OBVIOUS
<1>2. /\ IsFiniteSet(1 .. n)
      /\ Cardinality(1 .. n) = IF 1 > n THEN 0 ELSE n - 1 + 1
  BY <1>1, FS_Interval, Zenon
<1>3. QED
  BY <1>2

\* The shares at a price are those of one order and those of the others.
LEMMA Split ==
  ASSUME NEW orders, IsOrders(orders), NEW r, NEW sd, NEW p
  PROVE  Outstanding(orders, sd, p) =
           Outstanding(Without(orders, r), sd, p) + Own(orders, r, sd, p)
<1> DEFINE others == Without(orders, r)
           mine   == IF r \in At(orders, sd, p) THEN {r} \X (1 .. orders[r].shares) ELSE {}
<1>1. /\ At(others, sd, p) = At(orders, sd, p) \ {r}
      /\ \A x \in At(others, sd, p) : others[x] = orders[x]
  BY DEF At, Without, Restrict
<1>2. IsOrders(others)
  BY WithoutType DEF IsOrders
<1>3. IsFiniteSet(mine) /\ Cardinality(mine) = Own(orders, r, sd, p)
  <2>1. CASE r \in At(orders, sd, p)
    <3>1. orders[r].shares \in Nat
      BY <2>1 DEF At, IsOrders, IsMap, OrderInfo
    <3>2. /\ IsFiniteSet(1 .. orders[r].shares)
          /\ Cardinality(1 .. orders[r].shares) = orders[r].shares
      BY <3>1, IntervalSize
    <3>3. IsFiniteSet({r}) /\ Cardinality({r}) = 1
      BY FS_Singleton
    <3>4. /\ IsFiniteSet({r} \X (1 .. orders[r].shares))
          /\ Cardinality({r} \X (1 .. orders[r].shares)) = 1 * orders[r].shares
      <4>1. /\ IsFiniteSet({r} \X (1 .. orders[r].shares))
            /\ Cardinality({r} \X (1 .. orders[r].shares))
                 = Cardinality({r}) * Cardinality(1 .. orders[r].shares)
        BY <3>2, <3>3, FS_Product, Zenon
      <4>2. QED
        BY <3>2, <3>3, <4>1, Zenon
    <3>5. QED
      BY <2>1, <3>1, <3>4 DEF Own
  <2>2. CASE r \notin At(orders, sd, p)
    BY <2>2, FS_EmptySet DEF Own
  <2>3. QED
    BY <2>1, <2>2
<1>4. Units(orders, sd, p) = Units(others, sd, p) \cup mine
  <2> HIDE DEF others
  <2>1. \A u : u \in Units(orders, sd, p) <=>
           \E x \in At(orders, sd, p) : u \in {x} \X (1 .. orders[x].shares)
    BY DEF Units
  <2>2. \A u : u \in Units(others, sd, p) <=>
           \E x \in At(orders, sd, p) \ {r} : u \in {x} \X (1 .. orders[x].shares)
    BY <1>1 DEF Units
  <2>3. \A u : u \in mine <=>
           r \in At(orders, sd, p) /\ u \in {r} \X (1 .. orders[r].shares)
    OBVIOUS
  <2> HIDE DEF mine
  <2>4. QED
    BY <2>1, <2>2, <2>3, Zenon
<1>5. Units(others, sd, p) \cap mine = {}
  <2>1. \A u \in mine : u[1] = r
    OBVIOUS
  <2>2. \A u \in Units(others, sd, p) : u[1] \in At(others, sd, p)
    BY DEF Units
  <2>3. QED
    BY <1>1, <2>1, <2>2
<1>6. IsFiniteSet(Units(others, sd, p))
  BY <1>2, UnitsFinite
<1>7. Cardinality(Units(others, sd, p) \cup mine) =
        Cardinality(Units(others, sd, p)) + Cardinality(mine)
  <2> HIDE DEF others, mine
  <2>1. Cardinality(Units(others, sd, p) \cup mine) =
          Cardinality(Units(others, sd, p)) + Cardinality(mine) - Cardinality({})
    BY <1>3, <1>5, <1>6, FS_Union
  <2>2. /\ Cardinality({}) = 0
        /\ Cardinality(Units(others, sd, p)) \in Nat
        /\ Cardinality(mine) \in Nat
    BY <1>3, <1>6, FS_EmptySet, FS_CardinalityType
  <2>3. QED
    BY <2>1, <2>2
<1>8. QED
  BY <1>3, <1>4, <1>7 DEF Outstanding

\* What removing an order and storing an order do to the resting shares.
LEMMA OutstandingWithout ==
  ASSUME NEW orders, IsOrders(orders), NEW r, NEW new, new = Without(orders, r)
  PROVE  /\ IsOrders(new)
         /\ \A sd, p : Outstanding(new, sd, p) =
              Outstanding(orders, sd, p) - Own(orders, r, sd, p)
<1>1. IsOrders(new)
  BY WithoutType DEF IsOrders
<1>2. ASSUME NEW sd, NEW p
      PROVE  Outstanding(new, sd, p) =
               Outstanding(orders, sd, p) - Own(orders, r, sd, p)
  <2>1. Outstanding(orders, sd, p) = Outstanding(new, sd, p) + Own(orders, r, sd, p)
    BY Split
  <2>2. Outstanding(new, sd, p) \in Nat /\ Own(orders, r, sd, p) \in Nat
    BY <1>1, UnitsFinite, OwnType
  <2>3. QED
    BY <2>1, <2>2
<1>3. QED
  BY <1>1, <1>2

LEMMA OutstandingPut ==
  ASSUME NEW orders, IsOrders(orders), NEW r \in Refs, NEW info \in OrderInfo,
         NEW new, new = Put(orders, r, info)
  PROVE  /\ IsOrders(new)
         /\ \A sd, p : Outstanding(new, sd, p) =
              Outstanding(orders, sd, p) - Own(orders, r, sd, p)
              + (IF info.side = sd /\ info.price = p THEN info.shares ELSE 0)
<1>1. IsOrders(new)
  BY PutType DEF IsOrders
<1>2. PICK rest : rest = Without(orders, r)
  OBVIOUS
<1>3. Without(new, r) = rest
  BY <1>2 DEF Put, Without, Restrict
<1>4. ASSUME NEW sd, NEW p
      PROVE  Outstanding(new, sd, p) =
               Outstanding(orders, sd, p) - Own(orders, r, sd, p)
               + (IF info.side = sd /\ info.price = p THEN info.shares ELSE 0)
  <2>1. Own(new, r, sd, p) =
          IF info.side = sd /\ info.price = p THEN info.shares ELSE 0
    BY DEF Own, At, Put
  <2>2. Outstanding(new, sd, p) = Outstanding(rest, sd, p) + Own(new, r, sd, p)
    BY <1>1, <1>3, Split
  <2>3. Outstanding(rest, sd, p) = Outstanding(orders, sd, p) - Own(orders, r, sd, p)
    BY <1>2, OutstandingWithout
  <2>4. QED
    BY <2>1, <2>2, <2>3
<1>5. QED
  BY <1>1, <1>4

-----------------------------------------------------------------------------
(* The best price. *)

LEMMA LeastNat ==
  ASSUME NEW T \in SUBSET Nat, T # {}
  PROVE  \E x \in T : \A y \in T : x =< y
<1> DEFINE Less == {q \in Nat \X Nat : q[1] < q[2]}
<1>1. IsWellFoundedOn(Less, Nat)
  BY NatLessThanWellFounded DEF OpToRel
<1> HIDE DEF Less
<1>2. PICK x \in T : \A y \in T : ~(<<y, x>> \in Less)
  BY <1>1, WFMin
<1>3. ASSUME NEW y \in T
      PROVE  x =< y
  <2>1. <<y, x>> \in Nat \X Nat
    OBVIOUS
  <2>2. ~(y < x)
    BY <1>2, <2>1 DEF Less
  <2>3. x \in Nat /\ y \in Nat
    OBVIOUS
  <2>4. QED
    BY <2>2, <2>3
<1>4. QED
  BY <1>3

LEMMA GreatestOfFinite ==
  ASSUME NEW S \in SUBSET Nat, IsFiniteSet(S), S # {}
  PROVE  \E x \in S : \A y \in S : x >= y
<1> DEFINE Above(x) == {y \in S : y > x}
           T == {Cardinality(Above(x)) : x \in S}
<1>1. \A x \in S : IsFiniteSet(Above(x)) /\ Cardinality(Above(x)) \in Nat
  <2>1. \A x \in S : Above(x) \in SUBSET S
    OBVIOUS
  <2> HIDE DEF Above
  <2>2. QED
    BY <2>1, FS_Subset, FS_CardinalityType
<1>2. PICK x \in S : \A y \in S : Cardinality(Above(x)) =< Cardinality(Above(y))
  <2>1. T \in SUBSET Nat /\ T # {}
    BY <1>1
  <2>2. \E m \in T : \A n \in T : m =< n
    BY <2>1, LeastNat
  <2>3. QED
    BY <2>2
<1>3. ASSUME NEW y \in S, ~(x >= y)
      PROVE  FALSE
  <2>1. y > x
    BY <1>3
  <2>2. Above(y) \in SUBSET Above(x) /\ y \in Above(x) /\ y \notin Above(y)
    <3>1. \A z \in S : z \in Nat
      OBVIOUS
    <3>2. \A z \in S : z > y => z > x
      BY <2>1, <3>1
    <3>3. y \in Above(x) /\ y \notin Above(y)
      BY <2>1, <3>1
    <3>4. QED
      BY <3>2, <3>3
  <2> HIDE DEF Above
  <2>3. Cardinality(Above(y)) =< Cardinality(Above(x))
    BY <1>1, <2>2, FS_Subset
  <2>4. Cardinality(Above(y)) = Cardinality(Above(x))
    BY <1>1, <1>2, <2>3
  <2>5. Above(x) = Above(y)
    BY <1>1, <2>2, <2>4, FS_Subset
  <2>6. QED
    BY <2>2, <2>5
<1>4. QED
  BY <1>3

LEMMA BestType ==
  ASSUME NEW levels, IsLevels(levels), NEW sd \in Side
  PROVE  /\ best_snapshot(levels, sd)[1] \in Nat
         /\ best_snapshot(levels, sd)[2] \in Nat
<1> DEFINE D == DOMAIN levels
<1>1. D \in SUBSET Nat /\ IsFiniteSet(D)
  BY BookAssumption, FS_Subset DEF BookAssumption, IsLevels, IsMap
<1>2. CASE D = {}
  BY <1>2 DEF best_snapshot
<1>3. CASE D # {}
  <2>1. Max(D) \in D
    BY <1>1, <1>3, GreatestOfFinite DEF Max
  <2>2. Min(D) \in D
    BY <1>1, <1>3, LeastNat DEF Min
  <2>3. \A p \in D : levels[p].volume \in Nat
    BY DEF IsLevels, IsMap, Level
  <2>4. QED
    BY <1>1, <1>3, <2>1, <2>2, <2>3 DEF best_snapshot
<1>4. QED
  BY <1>2, <1>3
=============================================================================
