------------------------- MODULE OptionChainProofs --------------------------
(***************************************************************************)
(* Proofs about module OptionChain, for every set of underlyings and of    *)
(* contracts and every finite set of references and of prices.             *)
(***************************************************************************)
EXTENDS OptionChain, BookSideProofs

-----------------------------------------------------------------------------
(* The book of a contract. *)

OptionParts(b) ==
  /\ b = [levels |-> b.levels, orders |-> b.orders, pricing |-> b.pricing, dirty |-> b.dirty]
  /\ IsSides(b.levels) /\ IsOrders(b.orders)
  /\ b.dirty \in BOOLEAN

Priced(b) == b.pricing = {} \/ \E q : \E s \in Nat : b.pricing = {[quote |-> q, spot |-> s]}

OptionCovered(b) ==
  \A sd \in Side, p \in Prices : Outstanding(b.orders, sd, p) =< Volume(b.levels[sd], p)

GoodOption(b) == OptionParts(b) /\ Priced(b) /\ OptionCovered(b)

\* An event that changes one side of a book: the new levels of that side cover
\* its orders and nothing is added to the other side.
LEMMA OptionSide ==
  ASSUME NEW b, GoodOption(b), NEW side \in Side,
         NEW lv, IsLevels(lv), NEW orders, IsOrders(orders),
         \A p \in Prices : Outstanding(orders, side, p) =< Volume(lv, p),
         \A sd \in Side \ {side}, p \in Prices :
            Outstanding(orders, sd, p) =< Outstanding(b.orders, sd, p),
         NEW dirty \in BOOLEAN,
         NEW new, new = [levels  |-> [b.levels EXCEPT ![side] = lv], orders |-> orders,
                         pricing |-> b.pricing,                      dirty  |-> dirty]
  PROVE  GoodOption(new)
<1> DEFINE levels == [b.levels EXCEPT ![side] = lv]
<1>1. IsSides(b.levels) /\ IsOrders(b.orders)
  BY DEF GoodOption, OptionParts
<1>2. /\ IsSides(levels)
      /\ levels[side] = lv
      /\ \A sd \in Side \ {side} : levels[sd] = b.levels[sd]
  BY <1>1 DEF IsSides
<1>3. new = [levels |-> levels, orders |-> orders, pricing |-> b.pricing, dirty |-> dirty]
  OBVIOUS
<1> HIDE DEF levels
<1>4. /\ new.levels = levels /\ new.orders = orders
      /\ new.pricing = b.pricing /\ new.dirty = dirty
  BY <1>3
<1>5. OptionParts(new)
  BY <1>2, <1>3, <1>4 DEF OptionParts
<1>6. Priced(new)
  BY <1>4 DEF GoodOption, Priced
<1>7. ASSUME NEW sd \in Side, NEW p \in Prices
      PROVE  Outstanding(orders, sd, p) =< Volume(levels[sd], p)
  <2>1. CASE sd = side
    BY <1>2, <2>1
  <2>2. CASE sd # side
    <3>1. /\ Outstanding(orders, sd, p) \in Nat
          /\ Outstanding(b.orders, sd, p) \in Nat
          /\ Volume(b.levels[sd], p) \in Nat
      BY <1>1, UnitsFinite, VolumeType DEF IsSides
    <3>2. /\ Outstanding(orders, sd, p) =< Outstanding(b.orders, sd, p)
          /\ Outstanding(b.orders, sd, p) =< Volume(b.levels[sd], p)
      BY <2>2 DEF GoodOption, OptionCovered
    <3>3. QED
      BY <1>2, <2>2, <3>1, <3>2
  <2>3. QED
    BY <2>1, <2>2
<1>8. OptionCovered(new)
  BY <1>4, <1>7 DEF OptionCovered
<1>9. QED
  BY <1>5, <1>6, <1>8 DEF GoodOption

LEMMA NewOptionGood == GoodOption(NewOptionBook)
<1>1. OptionParts(NewOptionBook) /\ Priced(NewOptionBook)
  BY DEF NewOptionBook, OptionParts, Priced, IsSides, IsLevels, IsOrders, IsMap, EmptyMap
<1>2. ASSUME NEW sd \in Side, NEW p \in Prices
      PROVE  Outstanding(NewOptionBook.orders, sd, p) =< Volume(NewOptionBook.levels[sd], p)
  <2>1. Units(NewOptionBook.orders, sd, p) = {}
    BY DEF NewOptionBook, EmptyMap, Units, At
  <2>2. Volume(NewOptionBook.levels[sd], p) = 0
    BY DEF NewOptionBook, EmptyMap, Volume
  <2>3. QED
    BY <2>1, <2>2, FS_EmptySet DEF Outstanding
<1>3. QED
  BY <1>1, <1>2 DEF GoodOption, OptionCovered

LEMMA OptionAdd ==
  ASSUME NEW b, GoodOption(b), NEW r \in Refs, NEW side \in Side, NEW price \in Prices,
         NEW shares \in Nat, NEW new, new = add_option_order(b, r, side, price, shares)
  PROVE  GoodOption(new) /\ new.dirty
<1>1. IsSides(b.levels) /\ IsOrders(b.orders)
  BY DEF GoodOption, OptionParts
<1>2. PICK info : info = [side |-> side, price |-> price, shares |-> shares]
  OBVIOUS
<1>3. info \in OrderInfo /\ info.side = side /\ info.price = price /\ info.shares = shares
  BY <1>2 DEF OrderInfo
<1>4. PICK lv : lv = add_order(b.levels[side], price, shares)
  OBVIOUS
<1>5. PICK orders : orders = Put(b.orders, r, info)
  OBVIOUS
<1>6. new = [levels  |-> [b.levels EXCEPT ![side] = lv], orders |-> orders,
             pricing |-> b.pricing,                      dirty  |-> TRUE]
  BY <1>1, <1>2, <1>4, <1>5 DEF add_option_order, IsSides
<1>7. /\ IsLevels(lv)
      /\ \A p : Volume(lv, p) =
           IF p = price THEN Volume(b.levels[side], p) + shares
           ELSE Volume(b.levels[side], p)
  BY <1>1, <1>4, AddOrderFacts DEF IsSides
<1>8. /\ IsOrders(orders)
      /\ \A sd, p : Outstanding(orders, sd, p) =
           Outstanding(b.orders, sd, p) - Own(b.orders, r, sd, p)
           + (IF side = sd /\ price = p THEN shares ELSE 0)
  BY <1>1, <1>3, <1>5, OutstandingPut
<1>9. ASSUME NEW sd \in Side, NEW p \in Prices
      PROVE  /\ Outstanding(b.orders, sd, p) \in Nat
             /\ Own(b.orders, r, sd, p) \in Nat
             /\ Volume(b.levels[sd], p) \in Nat
             /\ Outstanding(b.orders, sd, p) =< Volume(b.levels[sd], p)
  BY <1>1, UnitsFinite, OwnType, VolumeType DEF IsSides, GoodOption, OptionCovered
<1>10. \A p \in Prices : Outstanding(orders, side, p) =< Volume(lv, p)
  BY <1>7, <1>8, <1>9
<1>11. \A sd \in Side \ {side}, p \in Prices :
          Outstanding(orders, sd, p) =< Outstanding(b.orders, sd, p)
  BY <1>8, <1>9
<1>12. GoodOption(new)
  BY <1>6, <1>7, <1>8, <1>10, <1>11, OptionSide
<1>13. QED
  BY <1>6, <1>12
\* What is left of an order of which some shares are taken.
LEMMA OptionLeft ==
  ASSUME NEW orders, IsOrders(orders), NEW r \in DOMAIN orders, NEW info, info = orders[r],
         NEW cut \in Nat, cut =< info.shares,
         NEW left, left = IF info.shares - cut = 0 THEN Without(orders, r)
                          ELSE Put(orders, r, [info EXCEPT !.shares = info.shares - cut])
  PROVE  /\ IsOrders(left)
         /\ \A sd, p : Outstanding(left, sd, p) = Outstanding(orders, sd, p)
              - (IF info.side = sd /\ info.price = p THEN cut ELSE 0)
<1>1. info \in OrderInfo /\ info.side \in Side /\ info.price \in Prices /\ info.shares \in Nat
      /\ r \in Refs
  BY DEF IsOrders, IsMap, OrderInfo
<1>2. \A sd, p : /\ Own(orders, r, sd, p) =
                      IF info.side = sd /\ info.price = p THEN info.shares ELSE 0
                 /\ Outstanding(orders, sd, p) \in Nat
  BY UnitsFinite DEF Own, At
<1>3. CASE info.shares - cut = 0
  <2>1. left = Without(orders, r)
    BY <1>3
  <2>2. /\ IsOrders(left)
        /\ \A sd, p : Outstanding(left, sd, p) =
             Outstanding(orders, sd, p) - Own(orders, r, sd, p)
    BY <2>1, OutstandingWithout
  <2>3. info.shares = cut
    BY <1>1, <1>3
  <2>4. QED
    BY <1>2, <2>2, <2>3
<1>4. CASE info.shares - cut # 0
  <2>1. PICK new : new = [info EXCEPT !.shares = info.shares - cut]
    OBVIOUS
  <2>2. /\ new \in OrderInfo /\ new.side = info.side /\ new.price = info.price
        /\ new.shares = info.shares - cut
    BY <1>1, <2>1 DEF OrderInfo
  <2>3. left = Put(orders, r, new)
    BY <1>4, <2>1
  <2>4. /\ IsOrders(left)
        /\ \A sd, p : Outstanding(left, sd, p) =
             Outstanding(orders, sd, p) - Own(orders, r, sd, p)
             + (IF new.side = sd /\ new.price = p THEN new.shares ELSE 0)
    BY <1>1, <2>2, <2>3, OutstandingPut
  <2>5. QED
    BY <1>1, <1>2, <2>2, <2>4
<1>5. QED
  BY <1>3, <1>4

\* Shares of an order are taken, by a cancel or by a deletion.
LEMMA OptionTaken ==
  ASSUME NEW b, GoodOption(b), NEW r \in DOMAIN b.orders, NEW info, info = b.orders[r],
         NEW cut \in Nat, cut =< info.shares,
         NEW orders, orders = IF info.shares - cut = 0 THEN Without(b.orders, r)
                              ELSE Put(b.orders, r, [info EXCEPT !.shares = info.shares - cut]),
         NEW lv, \/ lv = remove_shares(b.levels[info.side], info.price, cut)
                 \/ cut = 0 /\ lv = b.levels[info.side],
         NEW dirty \in BOOLEAN,
         NEW new, new = [levels  |-> [b.levels EXCEPT ![info.side] = lv], orders |-> orders,
                         pricing |-> b.pricing,                           dirty  |-> dirty]
  PROVE  GoodOption(new)
<1>1. IsSides(b.levels) /\ IsOrders(b.orders)
  BY DEF GoodOption, OptionParts
<1>2. info.side \in Side /\ info.price \in Prices /\ info.shares \in Nat
  BY <1>1 DEF IsOrders, IsMap, OrderInfo
<1>3. PICK levels : levels = b.levels[info.side]
  OBVIOUS
<1>4. IsLevels(levels)
  BY <1>1, <1>2, <1>3 DEF IsSides
<1>5. /\ IsOrders(orders)
      /\ \A sd, p : Outstanding(orders, sd, p) = Outstanding(b.orders, sd, p)
           - (IF info.side = sd /\ info.price = p THEN cut ELSE 0)
  BY <1>1, OptionLeft
<1>6. /\ IsLevels(lv)
      /\ \A p : Volume(lv, p) =
           IF p = info.price THEN saturating_sub(Volume(levels, p), cut) ELSE Volume(levels, p)
  <2>1. CASE lv = remove_shares(levels, info.price, cut)
    BY <1>2, <1>4, <2>1, RemoveSharesFacts
  <2>2. CASE cut = 0 /\ lv = levels
    <3>1. \A p : Volume(levels, p) \in Nat
      BY <1>4, VolumeType
    <3>2. \A p : saturating_sub(Volume(levels, p), 0) = Volume(levels, p)
      BY <3>1 DEF saturating_sub
    <3>3. QED
      BY <1>4, <2>2, <3>2
  <2>3. QED
    BY <1>3, <2>1, <2>2
<1>7. \A sd \in Side, p \in Prices :
         Outstanding(b.orders, sd, p) \in Nat /\ Outstanding(orders, sd, p) \in Nat
  BY <1>1, <1>5, UnitsFinite
<1>8. ASSUME NEW p \in Prices
      PROVE  Outstanding(orders, info.side, p) =< Volume(lv, p)
  <2>1. PICK v \in Nat : v = Volume(levels, p)
    BY <1>4, VolumeType
  <2>2. Outstanding(b.orders, info.side, p) =< v
    BY <1>2, <1>3, <2>1 DEF GoodOption, OptionCovered
  <2>3. CASE p = info.price
    <3>1. Outstanding(orders, info.side, p) = Outstanding(b.orders, info.side, p) - cut
      BY <1>5, <2>3
    <3>2. Volume(lv, p) = saturating_sub(v, cut)
      BY <1>6, <2>1, <2>3
    <3>3. saturating_sub(v, cut) \in Nat /\ saturating_sub(v, cut) >= v - cut
      BY <2>1, SaturatingSub
    <3>4. QED
      BY <1>2, <1>7, <2>2, <3>1, <3>2, <3>3
  <2>4. CASE p # info.price
    <3>1. Outstanding(orders, info.side, p) = Outstanding(b.orders, info.side, p) - 0
      BY <1>5, <2>4
    <3>2. Volume(lv, p) = v
      BY <1>6, <2>1, <2>4
    <3>3. QED
      BY <1>2, <1>7, <2>2, <3>1, <3>2
  <2>5. QED
    BY <2>3, <2>4
<1>9. \A sd \in Side \ {info.side}, p \in Prices :
         Outstanding(orders, sd, p) =< Outstanding(b.orders, sd, p)
  BY <1>5, <1>7
<1>10. QED
  BY <1>2, <1>5, <1>6, <1>8, <1>9, OptionSide

\* A cancel that takes nothing leaves the levels, and with them the quote, alone.
LEMMA OptionRemove ==
  ASSUME NEW b, GoodOption(b), NEW r, NEW n \in Nat, NEW new, new = remove_order(b, r, n)
  PROVE  /\ GoodOption(new)
         /\ ~new.dirty => ~b.dirty /\ new.levels = b.levels /\ new.pricing = b.pricing
<1>1. CASE r \notin DOMAIN b.orders
  BY <1>1 DEF remove_order
<1>2. CASE r \in DOMAIN b.orders
  <2>1. IsSides(b.levels) /\ IsOrders(b.orders) /\ b.dirty \in BOOLEAN
    BY DEF GoodOption, OptionParts
  <2>2. PICK info \in OrderInfo : info = b.orders[r]
    BY <1>2, <2>1 DEF IsOrders, IsMap
  <2>3. info.side \in Side /\ info.shares \in Nat
    BY <2>2 DEF OrderInfo
  <2>4. PICK cut : cut = IF n < info.shares THEN n ELSE info.shares
    OBVIOUS
  <2>5. cut \in Nat /\ cut =< info.shares
    BY <2>3, <2>4
  <2>6. PICK orders : orders = IF info.shares - cut = 0 THEN Without(b.orders, r)
                               ELSE Put(b.orders, r, [info EXCEPT !.shares = info.shares - cut])
    OBVIOUS
  <2>7. PICK lv : lv = IF cut = 0 THEN b.levels[info.side]
                       ELSE remove_shares(b.levels[info.side], info.price, cut)
    OBVIOUS
  <2>8. PICK dirty \in BOOLEAN : dirty = (b.dirty \/ cut > 0)
    OBVIOUS
  <2>9. new = [levels  |-> [b.levels EXCEPT ![info.side] = lv], orders |-> orders,
               pricing |-> b.pricing,                           dirty  |-> dirty]
    <3>1. new = [levels  |-> [b.levels EXCEPT ![info.side] =
                                IF cut = 0 THEN @ ELSE remove_shares(@, info.price, cut)],
                 orders  |-> orders,
                 pricing |-> b.pricing,
                 dirty   |-> b.dirty \/ cut > 0]
      BY <1>2, <2>2, <2>4, <2>6, Zenon DEF remove_order
    <3>2. [b.levels EXCEPT ![info.side] =
             IF cut = 0 THEN @ ELSE remove_shares(@, info.price, cut)]
            = [b.levels EXCEPT ![info.side] = lv]
      BY <2>1, <2>3, <2>7 DEF IsSides
    <3>3. QED
      BY <2>8, <3>1, <3>2, Zenon
  <2>10. GoodOption(new)
    BY <1>2, <2>2, <2>5, <2>6, <2>7, <2>9, OptionTaken, SMTT(30)
  <2>11. ASSUME ~new.dirty
         PROVE  ~b.dirty /\ new.levels = b.levels /\ new.pricing = b.pricing
    <3>1. ~b.dirty /\ cut = 0
      <4>1. ~dirty
        BY <2>9, <2>11
      <4>2. ~b.dirty /\ ~(cut > 0)
        BY <2>8, <4>1, Zenon
      <4>3. QED
        BY <2>5, <4>2
    <3>2. lv = b.levels[info.side]
      BY <2>7, <3>1
    <3>3. [b.levels EXCEPT ![info.side] = lv] = b.levels
      BY <2>1, <2>3, <3>2 DEF IsSides
    <3>4. QED
      BY <2>9, <3>1, <3>3
  <2>12. QED
    BY <2>10, <2>11
<1>3. QED
  BY <1>1, <1>2

LEMMA OptionDelete ==
  ASSUME NEW b, GoodOption(b), NEW r, NEW new, new = delete_order(b, r)
  PROVE  GoodOption(new) /\ (~new.dirty => new = b)
<1>1. CASE r \notin DOMAIN b.orders
  BY <1>1 DEF delete_order
<1>2. CASE r \in DOMAIN b.orders
  <2>1. IsSides(b.levels) /\ IsOrders(b.orders)
    BY DEF GoodOption, OptionParts
  <2>2. PICK info \in OrderInfo : info = b.orders[r]
    BY <1>2, <2>1 DEF IsOrders, IsMap
  <2>3. info.side \in Side /\ info.shares \in Nat /\ info.shares =< info.shares
        /\ info.shares - info.shares = 0
    BY <2>2 DEF OrderInfo
  <2>4. PICK orders : orders = Without(b.orders, r)
    OBVIOUS
  <2>5. PICK lv : lv = remove_shares(b.levels[info.side], info.price, info.shares)
    OBVIOUS
  <2>6. new = [levels  |-> [b.levels EXCEPT ![info.side] = lv], orders |-> orders,
               pricing |-> b.pricing,                           dirty  |-> TRUE]
    BY <1>2, <2>1, <2>2, <2>3, <2>4, <2>5 DEF delete_order, IsSides
  <2>7. GoodOption(new)
    <3>1. PICK cut \in Nat : cut = info.shares
      BY <2>3
    <3>2. orders = IF info.shares - cut = 0 THEN Without(b.orders, r)
                   ELSE Put(b.orders, r, [info EXCEPT !.shares = info.shares - cut])
      BY <2>3, <2>4, <3>1
    <3>3. lv = remove_shares(b.levels[info.side], info.price, cut)
      BY <2>5, <3>1
    <3>4. PICK dirty \in BOOLEAN : dirty = TRUE
      OBVIOUS
    <3>5. new = [levels  |-> [b.levels EXCEPT ![info.side] = lv], orders |-> orders,
                 pricing |-> b.pricing,                           dirty  |-> dirty]
      BY <2>6, <3>4
    <3>6. r \in DOMAIN b.orders /\ cut =< info.shares /\ info = b.orders[r]
      BY <1>2, <2>2, <2>3, <3>1
    <3>7. QED
      BY <3>2, <3>3, <3>5, <3>6, OptionTaken
  <2>8. QED
    BY <2>6, <2>7
<1>3. QED
  BY <1>1, <1>2

\* What a book that needs no pricing has was computed from its quote and from spot.
Current(b, spot) ==
  ~b.dirty => \A p \in b.pricing : p.quote = bbo_snapshot(b) /\ {p.spot} = spot

\* A two-sided book is priced from its quote; a one-sided book is left alone.
LEMMA OptionPriced ==
  ASSUME NEW b, GoodOption(b), NEW spot \in Nat, NEW solved,
         NEW new, new = compute_pricing(b, spot, solved)
  PROVE  /\ GoodOption(new)
         /\ bbo_snapshot(new) = bbo_snapshot(b)
         /\ TwoSided(bbo_snapshot(b)) =>
              \A p \in new.pricing : p = [quote |-> bbo_snapshot(b), spot |-> spot]
         /\ ~TwoSided(bbo_snapshot(b)) => new = b
         /\ TwoSided(bbo_snapshot(b)) \/ b.dirty => Current(new, {spot})
<1>1. CASE ~TwoSided(bbo_snapshot(b))
  <2>1. new = b
    BY <1>1 DEF compute_pricing
  <2>2. QED
    BY <1>1, <2>1 DEF Current
<1>2. CASE TwoSided(bbo_snapshot(b))
  <2>1. PICK quote : quote = bbo_snapshot(b)
    OBVIOUS
  <2>2. PICK pricing : pricing = IF solved THEN {[quote |-> quote, spot |-> spot]} ELSE {}
    OBVIOUS
  <2>3. /\ b = [levels |-> b.levels, orders |-> b.orders, pricing |-> b.pricing, dirty |-> b.dirty]
        /\ IsSides(b.levels) /\ IsOrders(b.orders)
    BY DEF GoodOption, OptionParts
  <2>4. new = [b EXCEPT !.pricing = pricing, !.dirty = FALSE]
    BY <1>2, <2>1, <2>2, Zenon DEF compute_pricing
  <2>5. new = [levels |-> b.levels, orders |-> b.orders, pricing |-> pricing, dirty |-> FALSE]
    BY <2>3, <2>4
  <2>6. /\ new.levels = b.levels /\ new.orders = b.orders
        /\ new.pricing = pricing /\ new.dirty = FALSE
    BY <2>5
  <2>7. OptionParts(new) /\ OptionCovered(new)
    BY <2>3, <2>5, <2>6 DEF GoodOption, OptionParts, OptionCovered
  <2>8. Priced(new)
    BY <2>2, <2>6 DEF Priced
  <2>9. bbo_snapshot(new) = quote
    BY <2>1, <2>6 DEF bbo_snapshot
  <2>10. \A p \in new.pricing : p = [quote |-> quote, spot |-> spot]
    BY <2>2, <2>6
  <2>11. Current(new, {spot})
    BY <2>9, <2>10 DEF Current
  <2>12. QED
    BY <1>2, <2>1, <2>7, <2>8, <2>9, <2>10, <2>11 DEF GoodOption
<1>3. QED
  BY <1>1, <1>2

-----------------------------------------------------------------------------
(* The chain of an underlying. *)

ChainOK(u, ch) ==
  /\ ch = [contracts |-> ch.contracts, spot |-> ch.spot]
  /\ ch.spot = {} \/ \E n \in Nat : ch.spot = {n}
  /\ ch.contracts = [c \in DOMAIN ch.contracts |-> ch.contracts[c]]
  /\ DOMAIN ch.contracts \subseteq {c \in Contracts : UnderlyingOf[c] = u}
  /\ \A c \in DOMAIN ch.contracts :
       GoodOption(ch.contracts[c]) /\ Current(ch.contracts[c], ch.spot)

LEMMA NewChainOK == \A u : ChainOK(u, NewChain)
  BY DEF ChainOK, NewChain, EmptyMap

\* The book of a contract is replaced.
LEMMA ChainWith ==
  ASSUME NEW u, NEW ch, ChainOK(u, ch), NEW c \in Contracts, UnderlyingOf[c] = u,
         NEW book, GoodOption(book), Current(book, ch.spot),
         NEW new, new = [contracts |-> Put(ch.contracts, c, book), spot |-> ch.spot]
  PROVE  ChainOK(u, new) /\ new.spot = ch.spot
<1>1. PICK contracts : contracts = Put(ch.contracts, c, book)
  OBVIOUS
<1>2. new.contracts = contracts /\ new.spot = ch.spot
      /\ new = [contracts |-> contracts, spot |-> ch.spot]
  BY <1>1
<1>3. /\ contracts = [d \in DOMAIN contracts |-> contracts[d]]
      /\ DOMAIN contracts = DOMAIN ch.contracts \cup {c}
      /\ contracts[c] = book
      /\ \A d \in DOMAIN ch.contracts \ {c} : contracts[d] = ch.contracts[d]
  BY <1>1 DEF Put
<1>4. /\ DOMAIN ch.contracts \subseteq {d \in Contracts : UnderlyingOf[d] = u}
      /\ \A d \in DOMAIN ch.contracts :
           GoodOption(ch.contracts[d]) /\ Current(ch.contracts[d], ch.spot)
      /\ ch.spot = {} \/ \E n \in Nat : ch.spot = {n}
  BY DEF ChainOK
<1>5. \A d \in DOMAIN contracts : GoodOption(contracts[d]) /\ Current(contracts[d], ch.spot)
  <2>1. SUFFICES ASSUME NEW d \in DOMAIN contracts
                 PROVE  GoodOption(contracts[d]) /\ Current(contracts[d], ch.spot)
    OBVIOUS
  <2>2. CASE d = c
    BY <1>3, <2>2
  <2>3. CASE d # c
    <3>1. d \in DOMAIN ch.contracts /\ contracts[d] = ch.contracts[d]
      BY <1>3, <2>3
    <3>2. QED
      BY <1>4, <3>1
  <2>4. QED
    BY <2>2, <2>3
<1>6. DOMAIN contracts \subseteq {d \in Contracts : UnderlyingOf[d] = u}
  BY <1>3, <1>4
<1>7. QED
  BY <1>2, <1>3, <1>4, <1>5, <1>6, Zenon DEF ChainOK

\* A new spot price puts every book out of date and prices the ones it can.
LEMMA ChainRepriced ==
  ASSUME NEW u, NEW ch, ChainOK(u, ch), NEW spot \in Nat, NEW solved,
         NEW after, after = update_all_pricing(update_spot(ch, spot), spot, solved)
  PROVE  /\ ChainOK(u, after)
         /\ after.spot = {spot}
         /\ \A e \in Listed(after) :
              TwoSided(e.quote) => e.pricing = [quote |-> e.quote, spot |-> spot]
<1>1. PICK old : old = ch.contracts
  OBVIOUS
<1>2. /\ DOMAIN old \subseteq {d \in Contracts : UnderlyingOf[d] = u}
      /\ \A c \in DOMAIN old : GoodOption(old[c])
  BY <1>1 DEF ChainOK
<1>3. PICK marked : marked = [c \in DOMAIN old |-> [old[c] EXCEPT !.dirty = TRUE]]
  OBVIOUS
<1>4. \A c \in DOMAIN old : GoodOption(marked[c]) /\ marked[c].dirty
  <2>1. SUFFICES ASSUME NEW c \in DOMAIN old
                 PROVE  GoodOption(marked[c]) /\ marked[c].dirty
    OBVIOUS
  <2>2. PICK b : b = old[c]
    OBVIOUS
  <2>3. GoodOption(b)
    BY <1>2, <2>2
  <2>4. b = [levels |-> b.levels, orders |-> b.orders, pricing |-> b.pricing, dirty |-> b.dirty]
    BY <2>3 DEF GoodOption, OptionParts
  <2>5. marked[c] = [b EXCEPT !.dirty = TRUE]
    BY <1>3, <2>2
  <2>6. marked[c] = [levels |-> b.levels, orders |-> b.orders, pricing |-> b.pricing,
                     dirty |-> TRUE]
    BY <2>4, <2>5
  <2>7. QED
    BY <2>3, <2>6 DEF GoodOption, OptionParts, Priced, OptionCovered
<1>5. PICK contracts : contracts = [c \in DOMAIN old |-> compute_pricing(marked[c], spot, c \in solved)]
  OBVIOUS
<1>6. after = [spot |-> {spot}, contracts |-> contracts]
  <2>1. PICK moved : moved = update_spot(ch, spot)
    OBVIOUS
  <2>2. moved = [spot |-> {spot}, contracts |-> marked]
    BY <1>1, <1>3, <2>1, Zenon DEF update_spot
  <2>3. moved.spot = {spot} /\ moved.contracts = marked /\ DOMAIN marked = DOMAIN old
    BY <1>3, <2>2
  <2>4. after = [spot |-> {spot},
                 contracts |-> [c \in DOMAIN old |->
                   IF marked[c].dirty THEN compute_pricing(marked[c], spot, c \in solved)
                   ELSE marked[c]]]
    BY <2>1, <2>3, Zenon DEF update_all_pricing
  <2>5. contracts = [c \in DOMAIN old |->
                       IF marked[c].dirty THEN compute_pricing(marked[c], spot, c \in solved)
                       ELSE marked[c]]
    BY <1>4, <1>5, Zenon
  <2>6. QED
    BY <2>4, <2>5, Zenon
<1>7. /\ after.spot = {spot} /\ after.contracts = contracts /\ DOMAIN contracts = DOMAIN old
      /\ contracts = [c \in DOMAIN contracts |-> contracts[c]]
  BY <1>5, <1>6
<1>8. ASSUME NEW c \in DOMAIN contracts
      PROVE  /\ GoodOption(contracts[c]) /\ Current(contracts[c], {spot})
             /\ TwoSided(bbo_snapshot(contracts[c])) => \A p \in contracts[c].pricing :
                  p = [quote |-> bbo_snapshot(contracts[c]), spot |-> spot]
  <2>1. contracts[c] = compute_pricing(marked[c], spot, c \in solved)
    BY <1>5, <1>7
  <2>2. GoodOption(marked[c]) /\ marked[c].dirty
    BY <1>4, <1>7
  <2>3. QED
    BY <2>1, <2>2, OptionPriced
<1>9. ChainOK(u, after)
  <2>1. after = [contracts |-> contracts, spot |-> {spot}]
    BY <1>6
  <2>2. \E n \in Nat : {spot} = {n}
    OBVIOUS
  <2>3. QED
    BY <1>2, <1>7, <1>8, <2>1, <2>2, Zenon DEF ChainOK
<1>10. ASSUME NEW e \in Listed(after), TwoSided(e.quote)
       PROVE  e.pricing = [quote |-> e.quote, spot |-> spot]
  <2>1. PICK c \in DOMAIN contracts : \E p \in contracts[c].pricing :
           e = [contract |-> c, quote |-> bbo_snapshot(contracts[c]), pricing |-> p]
    BY <1>7, <1>10 DEF Listed
  <2>2. PICK p \in contracts[c].pricing :
           e = [contract |-> c, quote |-> bbo_snapshot(contracts[c]), pricing |-> p]
    BY <2>1
  <2>3. e.quote = bbo_snapshot(contracts[c]) /\ e.pricing = p
    BY <2>2
  <2>4. QED
    BY <1>8, <1>10, <2>3
<1>11. QED
  BY <1>7, <1>9, <1>10

-----------------------------------------------------------------------------
(* The inductive invariant. *)

ChainsOK ==
  /\ chains = [u \in DOMAIN chains |-> chains[u]]
  /\ DOMAIN chains \subseteq Underlyings
  /\ \A u \in DOMAIN chains : ChainOK(u, chains[u])

SnapshotOK == (snapshot = {} \/ \E s : snapshot = {s}) /\ SnapshotFresh

MidOK ==
  /\ mid = [u \in Underlyings |-> mid[u]]
  /\ \A u \in Underlyings : mid[u] = {} \/ \E n \in Nat : mid[u] = {n}

WriterOK == writer \in {"up", "panicked"}

ChainInv == ChainsOK /\ SpotNotAbove /\ SnapshotOK /\ MidOK /\ WriterOK

LEMMA QuietStep == SnapshotOK /\ WriterOK /\ Quiet => SnapshotOK' /\ WriterOK'
<1> SUFFICES ASSUME WriterOK, Quiet PROVE SnapshotOK' /\ WriterOK'
  OBVIOUS
<1>1. snapshot' = {} /\ writer' = writer
  BY DEF Quiet
<1>2. QED
  BY <1>1 DEF SnapshotOK, SnapshotFresh, WriterOK

\* The chain of u is replaced by one whose spot price is not above the last mid.
LEMMA ChainPut ==
  ASSUME ChainsOK, SpotNotAbove, NEW u \in Underlyings, NEW ch, ChainOK(u, ch),
         chains' = Put(chains, u, ch),
         \A spot \in ch.spot : \E m \in mid'[u] : spot =< m,
         \A v \in Underlyings \ {u} : mid'[v] = mid[v]
  PROVE  ChainsOK' /\ SpotNotAbove'
<1>1. /\ DOMAIN chains' = DOMAIN chains \cup {u}
      /\ chains' = [v \in DOMAIN chains' |-> chains'[v]]
      /\ chains'[u] = ch
      /\ \A v \in DOMAIN chains \ {u} : chains'[v] = chains[v]
  BY DEF Put
<1>2. DOMAIN chains \subseteq Underlyings /\ \A v \in DOMAIN chains : ChainOK(v, chains[v])
  BY DEF ChainsOK
<1>3. ASSUME NEW v \in DOMAIN chains'
      PROVE  ChainOK(v, chains'[v]) /\ \A spot \in chains'[v].spot : \E m \in mid'[v] : spot =< m
  <2>1. CASE v = u
    BY <1>1, <2>1
  <2>2. CASE v # u
    <3>1. v \in DOMAIN chains /\ chains'[v] = chains[v] /\ mid'[v] = mid[v]
      BY <1>1, <1>2, <2>2
    <3>2. QED
      BY <1>2, <3>1 DEF SpotNotAbove
  <2>3. QED
    BY <2>1, <2>2
<1>4. SpotNotAbove'
  BY <1>3 DEF SpotNotAbove
<1>5. DOMAIN chains' \subseteq Underlyings
  BY <1>1, <1>2
<1>7. ChainsOK'
  BY <1>1, <1>3, <1>5 DEF ChainsOK, ChainOK
<1>8. QED
  BY <1>4, <1>7

\* A repricing of the chain at a spot price, and the snapshot that is sent for it.
LEMMA Aggregated ==
  ASSUME WriterOK, NEW u, NEW ch, ChainOK(u, ch), NEW spot \in Nat,
         aggregate_snapshot(u, ch, spot)
  PROVE  /\ \E after : /\ ChainOK(u, after) /\ after.spot = {spot}
                       /\ chains' = Put(chains, u, after)
         /\ SnapshotOK' /\ WriterOK'
<1>1. PICK solved \in SUBSET DOMAIN ch.contracts :
         LET after == update_all_pricing(update_spot(ch, spot), spot, solved)
         IN  /\ chains' = Put(chains, u, after)
             /\ \/ /\ Cardinality(Listed(after)) > MaxContracts
                   /\ writer' = "panicked"
                   /\ snapshot' = {}
                \/ /\ Cardinality(Listed(after)) =< MaxContracts
                   /\ snapshot' = IF Listed(after) = {} THEN {}
                                  ELSE {[underlying |-> u, spot |-> spot, contracts |-> Listed(after)]}
                   /\ UNCHANGED writer
  BY Zenon DEF aggregate_snapshot
<1>2. PICK after : after = update_all_pricing(update_spot(ch, spot), spot, solved)
  OBVIOUS
<1>3. /\ ChainOK(u, after) /\ after.spot = {spot}
      /\ \A e \in Listed(after) :
           TwoSided(e.quote) => e.pricing = [quote |-> e.quote, spot |-> spot]
  BY <1>2, ChainRepriced
<1>4. PICK contracts : contracts = Listed(after)
  OBVIOUS
<1>5. PICK s : s = [underlying |-> u, spot |-> spot, contracts |-> contracts]
  OBVIOUS
<1>6. /\ chains' = Put(chains, u, after)
      /\ writer' = "panicked" \/ writer' = writer
      /\ snapshot' = {} \/ snapshot' = {s}
  BY <1>1, <1>2, <1>4, <1>5, Zenon
<1>7. s.contracts = contracts /\ s.spot = spot
  BY <1>5
<1>8. SnapshotOK'
  <2>1. CASE snapshot' = {}
    BY <2>1 DEF SnapshotOK, SnapshotFresh
  <2>2. CASE snapshot' = {s}
    <3>1. \A e \in s.contracts :
             TwoSided(e.quote) => e.pricing = [quote |-> e.quote, spot |-> s.spot]
      BY <1>3, <1>4, <1>7, Zenon
    <3>2. QED
      BY <2>2, <3>1, Zenon DEF SnapshotOK, SnapshotFresh
  <2>3. QED
    BY <1>6, <2>1, <2>2
<1>9. WriterOK'
  BY <1>6 DEF WriterOK
<1>10. QED
  BY <1>3, <1>6, <1>8, <1>9

LEMMA ChainInvInit == Init => ChainInv
<1> SUFFICES ASSUME Init PROVE ChainInv
  OBVIOUS
<1>1. chains = EmptyMap /\ snapshot = {} /\ writer = "up" /\ mid = [u \in Underlyings |-> {}]
  BY DEF Init
<1>2. ChainsOK /\ SpotNotAbove
  BY <1>1 DEF ChainsOK, SpotNotAbove, EmptyMap
<1>3. SnapshotOK /\ MidOK /\ WriterOK
  BY <1>1 DEF SnapshotOK, SnapshotFresh, MidOK, WriterOK
<1>4. QED
  BY <1>2, <1>3 DEF ChainInv

LEMMA SpotStep ==
  ASSUME ChainInv, NEW u \in Underlyings, NEW q \in SpotQuotes, SpotUpdate(u, q[1], q[2])
  PROVE  ChainInv'
<1>1. PICK bid \in Nat, ask \in Nat : bid = q[1] /\ ask = q[2]
  BY ChainAssumption
<1>2. SpotUpdate(u, bid, ask)
  BY <1>1
<1>3. ChainsOK /\ SpotNotAbove /\ SnapshotOK /\ MidOK /\ WriterOK
  BY DEF ChainInv
<1>4. CASE (bid = 0 \/ ask = 0) /\ UNCHANGED <<chains, mid>> /\ Quiet
  <2>1. ChainsOK' /\ SpotNotAbove' /\ MidOK'
    BY <1>3, <1>4 DEF ChainsOK, ChainOK, SpotNotAbove, MidOK
  <2>2. QED
    BY <1>3, <1>4, <2>1, QuietStep DEF ChainInv
<1>5. CASE /\ mid' = [mid EXCEPT ![u] = {bid + ask}]
           /\ \/ u \notin DOMAIN chains /\ UNCHANGED chains /\ Quiet
              \/ u \in DOMAIN chains /\ aggregate_snapshot(u, chains[u], bid + ask)
  <2>1. PICK spot \in Nat : spot = bid + ask
    OBVIOUS
  <2>2. mid' = [mid EXCEPT ![u] = {spot}]
    BY <1>5, <2>1
  <2>3. /\ mid'[u] = {spot}
        /\ \A v \in Underlyings \ {u} : mid'[v] = mid[v]
        /\ mid' = [v \in Underlyings |-> mid'[v]]
    BY <1>3, <2>2 DEF MidOK
  <2>4. MidOK'
    <3>1. \A v \in Underlyings : mid'[v] = {} \/ \E n \in Nat : mid'[v] = {n}
      BY <1>3, <2>3 DEF MidOK
    <3>2. QED
      BY <2>3, <3>1 DEF MidOK
  <2>5. CASE u \notin DOMAIN chains /\ UNCHANGED chains /\ Quiet
    <3>1. ChainsOK'
      BY <1>3, <2>5 DEF ChainsOK, ChainOK
    <3>2. SpotNotAbove'
      <4>1. \A v \in DOMAIN chains : mid'[v] = mid[v]
        BY <1>3, <2>3, <2>5 DEF ChainsOK
      <4>2. QED
        BY <1>3, <2>5, <4>1 DEF SpotNotAbove
    <3>3. QED
      BY <1>3, <2>4, <2>5, <3>1, <3>2, QuietStep DEF ChainInv
  <2>6. CASE u \in DOMAIN chains /\ aggregate_snapshot(u, chains[u], spot)
    <3>1. ChainOK(u, chains[u])
      BY <1>3, <2>6 DEF ChainsOK
    <3>2. /\ \E after : /\ ChainOK(u, after) /\ after.spot = {spot}
                        /\ chains' = Put(chains, u, after)
          /\ SnapshotOK' /\ WriterOK'
      BY <1>3, <2>6, <3>1, Aggregated
    <3>3. PICK after : /\ ChainOK(u, after) /\ after.spot = {spot}
                       /\ chains' = Put(chains, u, after)
      BY <3>2
    <3>4. \A s \in after.spot : \E m \in mid'[u] : s =< m
      BY <2>3, <3>3
    <3>5. ChainsOK' /\ SpotNotAbove'
      BY <1>3, <2>3, <3>3, <3>4, ChainPut
    <3>6. QED
      BY <2>4, <3>2, <3>5 DEF ChainInv
  <2>7. QED
    BY <1>5, <2>1, <2>5, <2>6
<1>6. QED
  BY <1>2, <1>4, <1>5, Zenon DEF SpotUpdate

\* The chain and the book that an event of a contract finds.
LEMMA ChainOfOK ==
  ASSUME ChainInv, NEW c \in Contracts
  PROVE  /\ UnderlyingOf[c] \in Underlyings
         /\ ChainOK(UnderlyingOf[c], ChainOf(c))
         /\ \A spot \in ChainOf(c).spot : \E m \in mid[UnderlyingOf[c]] : spot =< m
         /\ GoodOption(BookOf(c)) /\ Current(BookOf(c), ChainOf(c).spot)
<1>1. PICK u \in Underlyings : u = UnderlyingOf[c]
  BY ChainAssumption
<1>2. PICK ch : ch = ChainOf(c)
  OBVIOUS
<1>3. ChainOK(u, ch) /\ \A spot \in ch.spot : \E m \in mid[u] : spot =< m
  <2>1. CASE u \in DOMAIN chains
    <3>1. ch = chains[u]
      BY <1>1, <1>2, <2>1 DEF ChainOf
    <3>2. QED
      BY <2>1, <3>1 DEF ChainInv, ChainsOK, SpotNotAbove
  <2>2. CASE u \notin DOMAIN chains
    <3>1. ch = NewChain
      BY <1>1, <1>2, <2>2 DEF ChainOf
    <3>2. ch.spot = {}
      BY <3>1 DEF NewChain
    <3>3. QED
      BY <3>1, <3>2, NewChainOK
  <2>3. QED
    BY <2>1, <2>2
<1>4. GoodOption(BookOf(c)) /\ Current(BookOf(c), ch.spot)
  <2>1. CASE c \in DOMAIN ch.contracts
    <3>1. BookOf(c) = ch.contracts[c]
      BY <1>2, <2>1 DEF BookOf, Registered
    <3>2. QED
      BY <1>3, <2>1, <3>1 DEF ChainOK
  <2>2. CASE c \notin DOMAIN ch.contracts
    <3>1. BookOf(c) = NewOptionBook
      BY <1>2, <2>2 DEF BookOf, Registered
    <3>2. Current(NewOptionBook, ch.spot)
      BY DEF Current, NewOptionBook
    <3>3. QED
      BY <3>1, <3>2, NewOptionGood
  <2>3. QED
    BY <2>1, <2>2
<1>5. QED
  BY <1>1, <1>2, <1>3, <1>4

\* A step that replaces the chain of a contract and sends nothing.
LEMMA QuietChain ==
  ASSUME ChainInv, NEW c \in Contracts, NEW ch, ChainOK(UnderlyingOf[c], ch),
         ch.spot = ChainOf(c).spot,
         chains' = Put(chains, UnderlyingOf[c], ch), UNCHANGED mid, Quiet
  PROVE  ChainInv'
<1>1. ChainsOK /\ SpotNotAbove /\ SnapshotOK /\ MidOK /\ WriterOK
  BY DEF ChainInv
<1>2. /\ UnderlyingOf[c] \in Underlyings
      /\ \A spot \in ch.spot : \E m \in mid'[UnderlyingOf[c]] : spot =< m
      /\ \A v \in Underlyings \ {UnderlyingOf[c]} : mid'[v] = mid[v]
  BY ChainOfOK
<1>3. ChainsOK' /\ SpotNotAbove'
  BY <1>1, <1>2, ChainPut
<1>4. MidOK'
  BY <1>1 DEF MidOK
<1>5. QED
  BY <1>1, <1>3, <1>4, QuietStep DEF ChainInv

LEMMA RegisterStep ==
  ASSUME ChainInv, NEW c \in Contracts, register_contract(c)
  PROVE  ChainInv'
<1>1. PICK ch : ch = WithBook(c, NewOptionBook)
  OBVIOUS
<1>2. chains' = Put(chains, UnderlyingOf[c], ch) /\ UNCHANGED mid /\ Quiet
  BY <1>1 DEF register_contract
<1>3. ch = [contracts |-> Put(ChainOf(c).contracts, c, NewOptionBook), spot |-> ChainOf(c).spot]
  BY <1>1 DEF WithBook
<1>4. Current(NewOptionBook, ChainOf(c).spot)
  BY DEF Current, NewOptionBook
<1>5. ChainOK(UnderlyingOf[c], ch) /\ ch.spot = ChainOf(c).spot
  BY <1>3, <1>4, ChainOfOK, NewOptionGood, ChainWith
<1>6. QED
  BY <1>2, <1>5, QuietChain

\* The truncation of the spot price never raises it.
LEMMA SpotRaw == \A spot \in Nat : spot_raw(spot) \in Nat /\ 2 * spot_raw(spot) =< spot
<1>1. SUFFICES ASSUME NEW spot \in Nat
               PROVE  spot_raw(spot) \in Nat /\ 2 * spot_raw(spot) =< spot
  OBVIOUS
<1>2. PICK half \in Nat : half = spot \div 2
  OBVIOUS
<1>3. 2 * half =< spot
  BY <1>2
<1>4. half \in Lossy => half # 0
  BY ChainAssumption
<1>5. QED
  BY <1>2, <1>3, <1>4 DEF spot_raw

LEMMA OptionEventStep ==
  ASSUME ChainInv, NEW c \in Contracts, NEW book, GoodOption(book),
         Current(book, ChainOf(c).spot), apply_option_order_event(c, book)
  PROVE  ChainInv'
<1>1. PICK u, ch : u = UnderlyingOf[c] /\ ch = ChainOf(c)
  OBVIOUS
<1>2. /\ u \in Underlyings /\ ChainOK(u, ch) /\ UnderlyingOf[c] = u
      /\ \A spot \in ch.spot : \E m \in mid[u] : spot =< m
  BY <1>1, ChainOfOK
<1>3. ChainsOK /\ SpotNotAbove /\ SnapshotOK /\ MidOK /\ WriterOK
  BY DEF ChainInv
<1>4. mid' = mid
  BY DEF apply_option_order_event
<1>5. CASE chains' = Put(chains, u, ch) /\ Quiet
  BY <1>1, <1>2, <1>4, <1>5, QuietChain
<1>6. CASE chains' = Put(chains, u, WithBook(c, book)) /\ Quiet
  <2>1. PICK new : new = WithBook(c, book)
    OBVIOUS
  <2>2. new = [contracts |-> Put(ch.contracts, c, book), spot |-> ch.spot]
    BY <1>1, <2>1 DEF WithBook
  <2>3. Current(book, ch.spot)
    BY <1>1
  <2>4. ChainOK(u, new) /\ new.spot = ch.spot
    BY <1>2, <2>2, <2>3, ChainWith
  <2>5. QED
    BY <1>1, <1>4, <1>6, <2>1, <2>4, QuietChain
<1>7. ASSUME NEW spot \in ch.spot, NEW solved, TwoSided(bbo_snapshot(book)),
             NEW new, new = WithBook(c, compute_pricing(book, spot, solved))
      PROVE  spot \in Nat /\ ch.spot = {spot} /\ ChainOK(u, new) /\ new.spot = {spot}
  <2>1. spot \in Nat /\ ch.spot = {spot}
    BY <1>2 DEF ChainOK
  <2>2. PICK b : b = compute_pricing(book, spot, solved)
    OBVIOUS
  <2>3. GoodOption(b) /\ Current(b, {spot})
    BY <1>7, <2>1, <2>2, OptionPriced
  <2>4. new = [contracts |-> Put(ch.contracts, c, b), spot |-> ch.spot]
    BY <1>1, <1>7, <2>2 DEF WithBook
  <2>5. Current(b, ch.spot)
    BY <2>1, <2>3
  <2>6. ChainOK(u, new) /\ new.spot = ch.spot
    BY <1>2, <2>3, <2>4, <2>5, ChainWith
  <2>7. QED
    BY <2>1, <2>6
<1>8. CASE /\ TwoSided(bbo_snapshot(book))
           /\ \E spot \in ch.spot :
                \/ /\ chains' = Put(chains, u, WithBook(c, compute_pricing(book, spot, FALSE)))
                   /\ Quiet
                \/ aggregate_snapshot(u, WithBook(c, compute_pricing(book, spot, TRUE)),
                                      2 * spot_raw(spot))
  <2>1. PICK spot \in ch.spot :
          \/ /\ chains' = Put(chains, u, WithBook(c, compute_pricing(book, spot, FALSE)))
             /\ Quiet
          \/ aggregate_snapshot(u, WithBook(c, compute_pricing(book, spot, TRUE)),
                                2 * spot_raw(spot))
    BY <1>8
  <2>2. CASE /\ chains' = Put(chains, u, WithBook(c, compute_pricing(book, spot, FALSE)))
             /\ Quiet
    <3>1. PICK new : new = WithBook(c, compute_pricing(book, spot, FALSE))
      OBVIOUS
    <3>2. ChainOK(u, new) /\ new.spot = ch.spot
      BY <1>7, <1>8, <2>1, <3>1
    <3>3. QED
      BY <1>1, <1>4, <2>2, <3>1, <3>2, QuietChain
  <2>3. CASE aggregate_snapshot(u, WithBook(c, compute_pricing(book, spot, TRUE)),
                                2 * spot_raw(spot))
    <3>1. PICK new : new = WithBook(c, compute_pricing(book, spot, TRUE))
      OBVIOUS
    <3>2. spot \in Nat /\ ch.spot = {spot} /\ ChainOK(u, new)
      BY <1>7, <1>8, <2>1, <3>1
    <3>3. PICK s \in Nat : s = 2 * spot_raw(spot) /\ s =< spot
      BY <3>2, SpotRaw
    <3>4. aggregate_snapshot(u, new, s)
      BY <2>3, <3>1, <3>3
    <3>5. /\ \E after : /\ ChainOK(u, after) /\ after.spot = {s}
                        /\ chains' = Put(chains, u, after)
          /\ SnapshotOK' /\ WriterOK'
      BY <1>3, <3>2, <3>4, Aggregated
    <3>6. PICK after : /\ ChainOK(u, after) /\ after.spot = {s}
                       /\ chains' = Put(chains, u, after)
      BY <3>5
    <3>7. \E m \in mid'[u] : s =< m
      <4>1. PICK m \in mid[u] : spot =< m
        BY <1>2, <2>1
      <4>2. m \in Nat
        BY <1>2, <1>3, <4>1 DEF MidOK
      <4>3. QED
        BY <1>4, <3>2, <3>3, <4>1, <4>2
    <3>8. ChainsOK' /\ SpotNotAbove'
      BY <1>2, <1>3, <1>4, <3>6, <3>7, ChainPut
    <3>9. MidOK'
      BY <1>3, <1>4 DEF MidOK
    <3>10. QED
      BY <3>5, <3>8, <3>9 DEF ChainInv
  <2>4. QED
    BY <2>1, <2>2, <2>3
<1>9. QED
  BY <1>1, <1>5, <1>6, <1>8, Zenon DEF apply_option_order_event

LEMMA AddStep ==
  ASSUME ChainInv, NEW c \in Contracts, NEW r \in Refs, NEW sd \in Side, NEW p \in Prices,
         NEW n \in Shares, AddOption(c, r, sd, p, n)
  PROVE  ChainInv'
<1>1. PICK book : book = add_option_order(BookOf(c), r, sd, p, n)
  OBVIOUS
<1>2. n \in Nat
  BY BookAssumption
<1>3. GoodOption(book) /\ book.dirty
  BY <1>1, <1>2, ChainOfOK, OptionAdd
<1>4. Current(book, ChainOf(c).spot)
  BY <1>3 DEF Current
<1>5. QED
  BY <1>1, <1>3, <1>4, OptionEventStep DEF AddOption

LEMMA CancelStep ==
  ASSUME ChainInv, NEW c \in Contracts, NEW r \in Refs, NEW n \in Shares, CancelOption(c, r, n)
  PROVE  ChainInv'
<1>1. PICK old, book : old = BookOf(c) /\ book = remove_order(old, r, n)
  OBVIOUS
<1>2. GoodOption(old) /\ Current(old, ChainOf(c).spot)
  BY <1>1, ChainOfOK
<1>3. n \in Nat
  BY BookAssumption
<1>4. /\ GoodOption(book)
      /\ ~book.dirty => ~old.dirty /\ book.levels = old.levels /\ book.pricing = old.pricing
  BY <1>1, <1>2, <1>3, OptionRemove
<1>5. Current(book, ChainOf(c).spot)
  BY <1>2, <1>4 DEF Current, bbo_snapshot
<1>6. apply_option_order_event(c, book)
  BY <1>1 DEF CancelOption
<1>7. QED
  BY <1>4, <1>5, <1>6, OptionEventStep

LEMMA DeleteStep ==
  ASSUME ChainInv, NEW c \in Contracts, NEW r \in Refs, DeleteOption(c, r)
  PROVE  ChainInv'
<1>1. PICK old, book : old = BookOf(c) /\ book = delete_order(old, r)
  OBVIOUS
<1>2. GoodOption(old) /\ Current(old, ChainOf(c).spot)
  BY <1>1, ChainOfOK
<1>3. GoodOption(book) /\ (~book.dirty => book = old)
  BY <1>1, <1>2, OptionDelete
<1>4. Current(book, ChainOf(c).spot)
  BY <1>2, <1>3 DEF Current
<1>5. apply_option_order_event(c, book)
  BY <1>1 DEF DeleteOption
<1>6. QED
  BY <1>3, <1>4, <1>5, OptionEventStep

LEMMA ChainInvNext == ChainInv /\ [Next]_vars => ChainInv'
<1> SUFFICES ASSUME ChainInv, [Next]_vars PROVE ChainInv'
  OBVIOUS
<1>1. ASSUME NEW u \in Underlyings, NEW q \in SpotQuotes, SpotUpdate(u, q[1], q[2])
      PROVE  ChainInv'
  BY <1>1, SpotStep
<1>2. ASSUME NEW c \in Contracts, register_contract(c)
      PROVE  ChainInv'
  BY <1>2, RegisterStep
<1>3. ASSUME OptionEvent
      PROVE  ChainInv'
  BY <1>3, AddStep, CancelStep, DeleteStep DEF OptionEvent
<1>4. ASSUME UNCHANGED vars
      PROVE  ChainInv'
  <2>1. chains' = chains /\ snapshot' = snapshot /\ writer' = writer /\ mid' = mid
    BY <1>4 DEF vars
  <2>2. ChainsOK' /\ SpotNotAbove' /\ MidOK'
    BY <2>1 DEF ChainInv, ChainsOK, SpotNotAbove, MidOK
  <2>3. SnapshotOK' /\ WriterOK'
    BY <2>1, Zenon DEF ChainInv, SnapshotOK, SnapshotFresh, WriterOK
  <2>4. QED
    BY <2>2, <2>3 DEF ChainInv
<1>5. QED
  BY <1>1, <1>2, <1>3, <1>4 DEF Next

LEMMA ChainInvAlways == Spec => []ChainInv
  BY ChainInvInit, ChainInvNext, PTL DEF Spec

-----------------------------------------------------------------------------
(* The theorems. *)

LEMMA AtMostOne ==
  ASSUME NEW S, S = {} \/ \E x : S = {x}
  PROVE  Cardinality(S) =< 1
<1>1. CASE S = {}
  BY <1>1, FS_EmptySet
<1>2. ASSUME NEW x, S = {x} PROVE Cardinality(S) =< 1
  BY <1>2, FS_Singleton
<1>3. QED
  BY <1>1, <1>2

LEMMA OptionBookTyped == ASSUME NEW b, GoodOption(b) PROVE OptionBookOK(b)
<1>1. /\ \A sd \in Side : IsMap(b.levels[sd], Prices, Level)
      /\ IsMap(b.orders, Refs, OrderInfo)
      /\ b.dirty \in BOOLEAN
  BY DEF GoodOption, OptionParts, IsSides, IsLevels, IsOrders
<1>2. Priced(b)
  BY DEF GoodOption
<1>3. Cardinality(b.pricing) =< 1
  <2>1. b.pricing = {} \/ \E x : b.pricing = {x}
    BY <1>2 DEF Priced
  <2>2. QED
    BY <2>1, AtMostOne
<1>4. \A p \in b.pricing : DOMAIN p = {"quote", "spot"} /\ p.spot \in Nat
  <2>1. SUFFICES ASSUME NEW p \in b.pricing
                 PROVE  DOMAIN p = {"quote", "spot"} /\ p.spot \in Nat
    OBVIOUS
  <2>2. PICK q : \E s \in Nat : p = [quote |-> q, spot |-> s]
    BY <1>2 DEF Priced
  <2>3. PICK s \in Nat : p = [quote |-> q, spot |-> s]
    BY <2>2
  <2>4. QED
    BY <2>3
<1>5. QED
  BY <1>1, <1>3, <1>4 DEF OptionBookOK

\* The chains, the books of their contracts and what the writer sends always have
\* the shape that OptionChain, OptionBook and OptionChainSnapshot have: a contract
\* is filed under its own underlying, and a chain has at most one spot price.
THEOREM ChainsTyped == Spec => []TypeOK
<1>1. ChainInv => TypeOK
  <2>1. SUFFICES ASSUME ChainInv PROVE TypeOK
    OBVIOUS
  <2>2. ASSUME NEW u \in DOMAIN chains
        PROVE  /\ chains[u].spot \subseteq Nat /\ Cardinality(chains[u].spot) =< 1
               /\ DOMAIN chains[u].contracts \subseteq {c \in Contracts : UnderlyingOf[c] = u}
               /\ \A c \in DOMAIN chains[u].contracts : OptionBookOK(chains[u].contracts[c])
    <3>1. ChainOK(u, chains[u])
      BY <2>1 DEF ChainInv, ChainsOK
    <3>2. chains[u].spot = {} \/ \E n \in Nat : chains[u].spot = {n}
      BY <3>1 DEF ChainOK
    <3>3. Cardinality(chains[u].spot) =< 1
      BY <3>2, AtMostOne
    <3>4. /\ DOMAIN chains[u].contracts \subseteq {c \in Contracts : UnderlyingOf[c] = u}
          /\ \A c \in DOMAIN chains[u].contracts : GoodOption(chains[u].contracts[c])
      BY <3>1 DEF ChainOK
    <3>5. QED
      BY <3>2, <3>3, <3>4, OptionBookTyped
  <2>3. Cardinality(snapshot) =< 1
    BY <2>1, AtMostOne DEF ChainInv, SnapshotOK
  <2>4. ASSUME NEW u \in Underlyings
        PROVE  mid[u] \subseteq Nat /\ Cardinality(mid[u]) =< 1
    <3>1. mid[u] = {} \/ \E n \in Nat : mid[u] = {n}
      BY <2>1 DEF ChainInv, MidOK
    <3>2. QED
      BY <3>1, AtMostOne
  <2>5. DOMAIN chains \subseteq Underlyings /\ writer \in {"up", "panicked"}
    BY <2>1 DEF ChainInv, ChainsOK, WriterOK
  <2>6. QED
    BY <2>2, <2>3, <2>4, <2>5 DEF TypeOK
<1>2. QED
  BY <1>1, ChainInvAlways, PTL

\* A contract that a snapshot shows with two sides is priced from the quote and the
\* spot price it is shown with, through every aggregate_snapshot.
THEOREM SnapshotsAreFresh == Spec => []SnapshotFresh
<1>1. ChainInv => SnapshotFresh
  BY DEF ChainInv, SnapshotOK
<1>2. QED
  BY <1>1, ChainInvAlways, PTL

\* The dirty flag of a book is never cleared too early: a book without it has a
\* pricing of its present quote and of the present spot price of its chain.
THEOREM CleanBooksAreCurrent == Spec => []CleanMeansCurrent
<1>1. ChainInv => CleanMeansCurrent
  BY DEF ChainInv, ChainsOK, ChainOK, Current, CleanMeansCurrent
<1>2. QED
  BY <1>1, ChainInvAlways, PTL

\* However often a spot price goes through spot_raw, a chain never has one above
\* the last mid price of its stock.
THEOREM SpotIsNeverRaised == Spec => []SpotNotAbove
<1>1. ChainInv => SpotNotAbove
  BY DEF ChainInv
<1>2. QED
  BY <1>1, ChainInvAlways, PTL

\* Whatever option events arrive, and in whatever order, a level of a contract
\* covers the orders that rest at it.
THEOREM OptionOrdersAreCovered == Spec => []OptionVolumeCovered
<1>1. ChainInv => OptionVolumeCovered
  BY DEF ChainInv, ChainsOK, ChainOK, GoodOption, OptionCovered, OptionVolumeCovered
<1>2. QED
  BY <1>1, ChainInvAlways, PTL

=============================================================================
