-------------------------- MODULE OrderBookProofs ---------------------------
(***************************************************************************)
(* Proofs about module OrderBook, for every finite set of references and   *)
(* of prices and for every set of stocks and of share quantities: first on *)
(* whatever events arrive (Spec), then on an ITCH feed (FeedSpec), where   *)
(* the levels are exactly the orders, the index is complete, and the books *)
(* implement OrderLedger.                                                  *)
(***************************************************************************)
EXTENDS OrderBookRefinement, BookSideProofs

-----------------------------------------------------------------------------
(* Books. *)

LEMMA SnapshotType ==
  ASSUME NEW levels, IsSides(levels)
  PROVE  snapshot_bbo(levels) \in BboSnapshot
<1>1. "Buy" \in Side /\ "Sell" \in Side
  BY DEF Side
<1>2. /\ best_snapshot(levels["Buy"], "Buy")[1] \in Nat
      /\ best_snapshot(levels["Buy"], "Buy")[2] \in Nat
      /\ best_snapshot(levels["Sell"], "Sell")[1] \in Nat
      /\ best_snapshot(levels["Sell"], "Sell")[2] \in Nat
  BY <1>1, BestType DEF IsSides
<1>3. QED
  BY <1>2 DEF snapshot_bbo, BboSnapshot

LEMMA BookParts ==
  ASSUME NEW b, IsBook(b)
  PROVE  /\ IsSides(b.levels)
         /\ IsOrders(b.orders)
         /\ b.last_snapshot \in BboSnapshot
         /\ b.seq_num \in 0 .. SeqSpace - 1
BY DEF IsBook, IsSides, IsLevels, IsOrders

LEMMA TouchedFacts ==
  ASSUME NEW b, IsBook(b), NEW levels, IsSides(levels), NEW orders, IsOrders(orders),
         NEW new, new = touched(b, levels, orders)
  PROVE  /\ IsBook(new)
         /\ new.levels = levels
         /\ new.orders = orders
         /\ new.last_snapshot = snapshot_bbo(levels)
<1>1. snapshot_bbo(levels) \in BboSnapshot
  BY SnapshotType
<1>2. b.seq_num \in 0 .. SeqSpace - 1 /\ (b.seq_num + 1) % SeqSpace \in 0 .. SeqSpace - 1
  BY BookParts, SeqAssumption DEF SeqAssumption
<1>3. QED
  BY <1>1, <1>2 DEF touched, IsBook, IsSides, IsLevels, IsOrders

\* What holds of every book, whatever the events: its levels cover its orders.
Covered(b) ==
  \A sd \in Side, p \in Prices : Outstanding(b.orders, sd, p) =< Volume(b.levels[sd], p)

GoodBook(b) ==
  /\ IsBook(b)
  /\ b.last_snapshot = snapshot_bbo(b.levels)
  /\ Covered(b)

\* An event that changes one side of a book keeps it good when the new levels
\* of that side cover its orders and nothing is added to the other side.
LEMMA OneSide ==
  ASSUME NEW b, GoodBook(b), NEW side \in Side,
         NEW lv, IsLevels(lv), NEW orders, IsOrders(orders),
         \A p \in Prices : Outstanding(orders, side, p) =< Volume(lv, p),
         \A sd \in Side \ {side}, p \in Prices :
            Outstanding(orders, sd, p) =< Outstanding(b.orders, sd, p),
         NEW new, new = touched(b, [b.levels EXCEPT ![side] = lv], orders)
  PROVE  GoodBook(new)
<1> DEFINE levels == [b.levels EXCEPT ![side] = lv]
<1>1. IsSides(b.levels) /\ IsOrders(b.orders) /\ IsBook(b)
  BY BookParts DEF GoodBook
<1>2. /\ IsSides(levels)
      /\ levels[side] = lv
      /\ \A sd \in Side \ {side} : levels[sd] = b.levels[sd]
  BY <1>1 DEF IsSides
<1> HIDE DEF levels
<1>3. /\ IsBook(new)
      /\ new.levels = levels
      /\ new.orders = orders
      /\ new.last_snapshot = snapshot_bbo(levels)
  BY <1>1, <1>2, TouchedFacts DEF levels
<1>4. ASSUME NEW sd \in Side, NEW p \in Prices
      PROVE  Outstanding(new.orders, sd, p) =< Volume(new.levels[sd], p)
  <2>1. CASE sd = side
    BY <1>2, <1>3, <2>1
  <2>2. CASE sd # side
    <3>1. /\ Outstanding(orders, sd, p) \in Nat
          /\ Outstanding(b.orders, sd, p) \in Nat
          /\ Volume(b.levels[sd], p) \in Nat
      BY <1>1, UnitsFinite, VolumeType DEF IsSides
    <3>2. /\ Outstanding(orders, sd, p) =< Outstanding(b.orders, sd, p)
          /\ Outstanding(b.orders, sd, p) =< Volume(b.levels[sd], p)
      BY <2>2 DEF GoodBook, Covered
    <3>3. QED
      BY <1>2, <1>3, <2>2, <3>1, <3>2
  <2>3. QED
    BY <2>1, <2>2
<1>5. QED
  BY <1>3, <1>4 DEF GoodBook, Covered

-----------------------------------------------------------------------------
(* The arms of apply_event, on whatever event. *)

LEMMA OnAdd ==
  ASSUME NEW b, GoodBook(b), NEW r \in Refs, NEW side \in Side,
         NEW shares \in Nat, NEW price \in Prices,
         NEW new, new = on_add(b, r, side, shares, price)
  PROVE  /\ GoodBook(new)
         /\ \A x : x \in DOMAIN new.orders <=> x \in DOMAIN b.orders \/ x = r
<1>1. IsSides(b.levels) /\ IsOrders(b.orders) /\ IsBook(b)
  BY BookParts DEF GoodBook
<1>2. PICK info : info = [side |-> side, price |-> price, shares |-> shares]
  OBVIOUS
<1>2a. info \in OrderInfo /\ info.side = side /\ info.price = price /\ info.shares = shares
  BY <1>2 DEF OrderInfo
<1>3. PICK lv : lv = add_order(b.levels[side], price, shares)
  OBVIOUS
<1>4. PICK orders : orders = Put(b.orders, r, info)
  OBVIOUS
<1>5. new = touched(b, [b.levels EXCEPT ![side] = lv], orders)
  BY <1>1, <1>2, <1>3, <1>4 DEF on_add, IsSides
<1>6. /\ IsLevels(lv)
      /\ \A p : Volume(lv, p) =
           IF p = price THEN Volume(b.levels[side], p) + shares
           ELSE Volume(b.levels[side], p)
  BY <1>1, <1>3, AddOrderFacts DEF IsSides
<1>7. /\ IsOrders(orders)
      /\ \A sd, p : Outstanding(orders, sd, p) =
           Outstanding(b.orders, sd, p) - Own(b.orders, r, sd, p)
           + (IF side = sd /\ price = p THEN shares ELSE 0)
  BY <1>1, <1>2a, <1>4, OutstandingPut
<1>8. ASSUME NEW sd \in Side, NEW p \in Prices
      PROVE  /\ Outstanding(b.orders, sd, p) \in Nat
             /\ Own(b.orders, r, sd, p) \in Nat
             /\ Volume(b.levels[sd], p) \in Nat
             /\ Outstanding(b.orders, sd, p) =< Volume(b.levels[sd], p)
  BY <1>1, UnitsFinite, OwnType, VolumeType DEF IsSides, GoodBook, Covered
<1>9. \A p \in Prices : Outstanding(orders, side, p) =< Volume(lv, p)
  BY <1>6, <1>7, <1>8
<1>10. \A sd \in Side \ {side}, p \in Prices :
          Outstanding(orders, sd, p) =< Outstanding(b.orders, sd, p)
  BY <1>7, <1>8
<1>11. GoodBook(new)
  BY <1>5, <1>6, <1>7, <1>9, <1>10, OneSide
<1>12. new.orders = orders
  BY <1>5 DEF touched
<1>13. \A x : x \in DOMAIN orders <=> x \in DOMAIN b.orders \/ x = r
  BY <1>4 DEF Put
<1>14. QED
  BY <1>11, <1>12, <1>13

LEMMA OnDelete ==
  ASSUME NEW b, GoodBook(b), NEW r, r \in DOMAIN b.orders,
         NEW new, new = on_delete(b, r)
  PROVE  /\ GoodBook(new)
         /\ \A x : x \in DOMAIN new.orders <=> x \in DOMAIN b.orders /\ x # r
<1>1. IsSides(b.levels) /\ IsOrders(b.orders) /\ IsBook(b)
  BY BookParts DEF GoodBook
<1>2. PICK info \in OrderInfo : info = b.orders[r]
  BY <1>1 DEF IsOrders, IsMap
<1>3. /\ info.side \in Side /\ info.price \in Prices /\ info.shares \in Nat
      /\ \A sd, p : Own(b.orders, r, sd, p) =
           IF info.side = sd /\ info.price = p THEN info.shares ELSE 0
  BY <1>2 DEF OrderInfo, Own, At
<1>4. PICK lv : lv = remove_shares(b.levels[info.side], info.price, info.shares)
  OBVIOUS
<1>5. PICK orders : orders = Without(b.orders, r)
  OBVIOUS
<1>6. new = touched(b, [b.levels EXCEPT ![info.side] = lv], orders)
  BY <1>1, <1>2, <1>3, <1>4, <1>5 DEF on_delete, IsSides
<1>7. /\ IsLevels(lv)
      /\ \A p : Volume(lv, p) =
           IF p = info.price THEN saturating_sub(Volume(b.levels[info.side], p), info.shares)
           ELSE Volume(b.levels[info.side], p)
  BY <1>1, <1>3, <1>4, RemoveSharesFacts DEF IsSides
<1>8. /\ IsOrders(orders)
      /\ \A sd, p : Outstanding(orders, sd, p) =
           Outstanding(b.orders, sd, p) - Own(b.orders, r, sd, p)
  BY <1>1, <1>5, OutstandingWithout
<1>9. ASSUME NEW sd \in Side, NEW p \in Prices
      PROVE  /\ Outstanding(b.orders, sd, p) \in Nat
             /\ Own(b.orders, r, sd, p) \in Nat
             /\ Volume(b.levels[sd], p) \in Nat
             /\ Outstanding(b.orders, sd, p) =< Volume(b.levels[sd], p)
  BY <1>1, UnitsFinite, OwnType, VolumeType DEF IsSides, GoodBook, Covered
<1>10. ASSUME NEW p \in Prices
       PROVE  Outstanding(orders, info.side, p) =< Volume(lv, p)
  <2>1. CASE p = info.price
    <3>1. Volume(lv, p) >= Volume(b.levels[info.side], p) - info.shares
      BY <1>3, <1>7, <1>9, <2>1, SaturatingSub
    <3>2. Outstanding(orders, info.side, p) =
            Outstanding(b.orders, info.side, p) - info.shares
      BY <1>3, <1>8, <2>1
    <3>3. Volume(lv, p) \in Nat
      BY <1>7, VolumeType
    <3>4. QED
      BY <1>3, <1>9, <3>1, <3>2, <3>3
  <2>2. CASE p # info.price
    BY <1>3, <1>7, <1>8, <1>9, <2>2
  <2>3. QED
    BY <2>1, <2>2
<1>11. \A sd \in Side \ {info.side}, p \in Prices :
          Outstanding(orders, sd, p) =< Outstanding(b.orders, sd, p)
  BY <1>8, <1>9
<1>12. GoodBook(new)
  BY <1>3, <1>6, <1>7, <1>8, <1>10, <1>11, OneSide
<1>13. new.orders = orders
  BY <1>6 DEF touched
<1>14. \A x : x \in DOMAIN orders <=> x \in DOMAIN b.orders /\ x # r
  BY <1>5 DEF Without, Restrict
<1>15. QED
  BY <1>12, <1>13, <1>14

LEMMA OnReduce ==
  ASSUME NEW b, GoodBook(b), NEW r \in Refs, r \in DOMAIN b.orders, NEW n \in Nat,
         NEW new, new = on_reduce(b, r, n)
  PROVE  /\ GoodBook(new)
         /\ \A x : x # r => (x \in DOMAIN new.orders <=> x \in DOMAIN b.orders)
<1>1. IsSides(b.levels) /\ IsOrders(b.orders) /\ IsBook(b)
  BY BookParts DEF GoodBook
<1>2. PICK info \in OrderInfo : info = b.orders[r]
  BY <1>1 DEF IsOrders, IsMap
<1>3. /\ info.side \in Side /\ info.price \in Prices /\ info.shares \in Nat
      /\ \A sd, p : Own(b.orders, r, sd, p) =
           IF info.side = sd /\ info.price = p THEN info.shares ELSE 0
  BY <1>2 DEF OrderInfo, Own, At
<1>4. PICK cut : cut = reduced(info, n)
  OBVIOUS
<1>5. cut \in Nat /\ cut =< info.shares
  BY <1>3, <1>4 DEF reduced
<1>6. PICK orders : orders = IF info.shares = cut THEN Without(b.orders, r)
                             ELSE [b.orders EXCEPT ![r].shares = @ - cut]
  OBVIOUS
<1>7. /\ IsOrders(orders)
      /\ \A sd, p : Outstanding(orders, sd, p) = Outstanding(b.orders, sd, p)
           - (IF info.side = sd /\ info.price = p THEN cut ELSE 0)
      /\ \A x : x # r => (x \in DOMAIN orders <=> x \in DOMAIN b.orders)
  <2>1. CASE info.shares = cut
    <3>1. orders = Without(b.orders, r)
      BY <1>6, <2>1
    <3>2. /\ IsOrders(orders)
          /\ \A sd, p : Outstanding(orders, sd, p) =
               Outstanding(b.orders, sd, p) - Own(b.orders, r, sd, p)
      BY <1>1, <3>1, OutstandingWithout
    <3>3. \A x : x # r => (x \in DOMAIN orders <=> x \in DOMAIN b.orders)
      BY <3>1 DEF Without, Restrict
    <3>4. QED
      BY <1>3, <2>1, <3>2, <3>3
  <2>2. CASE info.shares # cut
    <3>1. PICK left : left = [info EXCEPT !.shares = @ - cut]
      OBVIOUS
    <3>2. /\ left \in OrderInfo /\ left.side = info.side /\ left.price = info.price
          /\ left.shares = info.shares - cut
      BY <1>3, <1>5, <3>1 DEF OrderInfo
    <3>3. b.orders \in [DOMAIN b.orders -> OrderInfo]
      BY <1>1 DEF IsOrders, IsMap
    <3>4. orders = Put(b.orders, r, left)
      BY <1>2, <1>6, <2>2, <3>1, <3>3 DEF Put
    <3>5. /\ IsOrders(orders)
          /\ \A sd, p : Outstanding(orders, sd, p) =
               Outstanding(b.orders, sd, p) - Own(b.orders, r, sd, p)
               + (IF left.side = sd /\ left.price = p THEN left.shares ELSE 0)
      BY <1>1, <3>2, <3>4, OutstandingPut
    <3>6. \A x : x # r => (x \in DOMAIN orders <=> x \in DOMAIN b.orders)
      BY <3>4 DEF Put
    <3>7. \A sd, p : Outstanding(b.orders, sd, p) \in Nat
      BY <1>1, UnitsFinite
    <3>8. QED
      BY <1>3, <1>5, <3>2, <3>5, <3>6, <3>7
  <2>3. QED
    BY <2>1, <2>2
<1>8. ASSUME NEW sd \in Side, NEW p \in Prices
      PROVE  /\ Outstanding(b.orders, sd, p) \in Nat
             /\ Volume(b.levels[sd], p) \in Nat
             /\ Outstanding(b.orders, sd, p) =< Volume(b.levels[sd], p)
  BY <1>1, UnitsFinite, VolumeType DEF IsSides, GoodBook, Covered
<1>9. CASE cut = 0
  <2>1. new = [b EXCEPT !.orders = orders]
    BY <1>2, <1>4, <1>6, <1>9 DEF on_reduce
  <2>2. new.orders = orders /\ new.levels = b.levels /\ new.last_snapshot = b.last_snapshot
    BY <1>1, <2>1 DEF IsBook
  <2>3. IsBook(new)
    BY <1>1, <1>7, <2>1 DEF IsBook, IsOrders
  <2>4. Covered(new)
    BY <1>7, <1>8, <1>9, <2>2 DEF Covered
  <2>5. QED
    BY <1>7, <2>2, <2>3, <2>4 DEF GoodBook
<1>10. CASE cut # 0
  <2>1. PICK lv : lv = remove_shares(b.levels[info.side], info.price, cut)
    OBVIOUS
  <2>2. new = touched(b, [b.levels EXCEPT ![info.side] = lv], orders)
    BY <1>1, <1>2, <1>3, <1>4, <1>6, <1>10, <2>1 DEF on_reduce, IsSides
  <2>3. /\ IsLevels(lv)
        /\ \A p : Volume(lv, p) =
             IF p = info.price THEN saturating_sub(Volume(b.levels[info.side], p), cut)
             ELSE Volume(b.levels[info.side], p)
    BY <1>1, <1>3, <1>5, <2>1, RemoveSharesFacts DEF IsSides
  <2>4. ASSUME NEW p \in Prices
        PROVE  Outstanding(orders, info.side, p) =< Volume(lv, p)
    <3>1. CASE p = info.price
      <4>1. Volume(lv, p) >= Volume(b.levels[info.side], p) - cut
        <5>1. Volume(lv, p) = saturating_sub(Volume(b.levels[info.side], p), cut)
          BY <2>3, <3>1
        <5>2. Volume(b.levels[info.side], p) \in Nat
          BY <1>3, <1>8
        <5>3. saturating_sub(Volume(b.levels[info.side], p), cut)
                >= Volume(b.levels[info.side], p) - cut
          BY <1>5, <5>2, SaturatingSub
        <5>4. QED
          BY <5>1, <5>3
      <4>2. Outstanding(orders, info.side, p) = Outstanding(b.orders, info.side, p) - cut
        BY <1>7, <3>1
      <4>3. Volume(lv, p) \in Nat
        BY <2>3, VolumeType
      <4>4. QED
        BY <1>3, <1>5, <1>8, <4>1, <4>2, <4>3
    <3>2. CASE p # info.price
      BY <1>3, <1>7, <1>8, <2>3, <3>2
    <3>3. QED
      BY <3>1, <3>2
  <2>5. \A sd \in Side \ {info.side}, p \in Prices :
           Outstanding(orders, sd, p) =< Outstanding(b.orders, sd, p)
    BY <1>5, <1>7, <1>8
  <2>6. GoodBook(new)
    BY <1>3, <1>7, <2>2, <2>3, <2>4, <2>5, OneSide
  <2>7. new.orders = orders
    BY <2>2 DEF touched
  <2>8. QED
    BY <1>7, <2>6, <2>7
<1>11. QED
  BY <1>9, <1>10

LEMMA OnReplace ==
  ASSUME NEW b, GoodBook(b), NEW r, r \in DOMAIN b.orders, NEW new_r \in Refs,
         NEW shares \in Nat, NEW price \in Prices,
         NEW new, new = on_replace(b, r, new_r, shares, price)
  PROVE  /\ GoodBook(new)
         /\ \A x : x \in DOMAIN new.orders <=> (x \in DOMAIN b.orders /\ x # r) \/ x = new_r
<1>1. IsSides(b.levels) /\ IsOrders(b.orders) /\ IsBook(b)
  BY BookParts DEF GoodBook
<1>2. PICK old \in OrderInfo : old = b.orders[r]
  BY <1>1 DEF IsOrders, IsMap
<1>3. /\ old.side \in Side /\ old.price \in Prices /\ old.shares \in Nat
      /\ \A sd, p : Own(b.orders, r, sd, p) =
           IF old.side = sd /\ old.price = p THEN old.shares ELSE 0
  BY <1>2 DEF OrderInfo, Own, At
<1>4. PICK info : info = [side |-> old.side, price |-> price, shares |-> shares]
  OBVIOUS
<1>5. info \in OrderInfo /\ info.side = old.side /\ info.price = price /\ info.shares = shares
  BY <1>3, <1>4 DEF OrderInfo
<1>6. PICK lv : lv = replace_atomically(b.levels[old.side], old.price, old.shares, price, shares)
  OBVIOUS
<1>7. PICK rest : rest = Without(b.orders, r)
  OBVIOUS
<1>8. PICK orders : orders = Put(rest, new_r, info)
  OBVIOUS
<1>9. new = touched(b, [b.levels EXCEPT ![old.side] = lv], orders)
  BY <1>1, <1>2, <1>3, <1>4, <1>6, <1>7, <1>8 DEF on_replace, IsSides
<1>10. /\ IsLevels(lv)
       /\ \A p : Volume(lv, p) =
            (IF p = old.price THEN saturating_sub(Volume(b.levels[old.side], p), old.shares)
             ELSE Volume(b.levels[old.side], p))
            + (IF p = price THEN shares ELSE 0)
  BY <1>1, <1>3, <1>6, ReplaceFacts DEF IsSides
<1>11. /\ IsOrders(rest)
       /\ \A sd, p : Outstanding(rest, sd, p) =
            Outstanding(b.orders, sd, p) - Own(b.orders, r, sd, p)
  BY <1>1, <1>7, OutstandingWithout
<1>12. /\ IsOrders(orders)
       /\ \A sd, p : Outstanding(orders, sd, p) =
            Outstanding(rest, sd, p) - Own(rest, new_r, sd, p)
            + (IF old.side = sd /\ price = p THEN shares ELSE 0)
  BY <1>5, <1>8, <1>11, OutstandingPut
<1>13. ASSUME NEW sd \in Side, NEW p \in Prices
       PROVE  /\ Outstanding(b.orders, sd, p) \in Nat
              /\ Own(b.orders, r, sd, p) \in Nat
              /\ Own(rest, new_r, sd, p) \in Nat
              /\ Volume(b.levels[sd], p) \in Nat
              /\ Outstanding(b.orders, sd, p) =< Volume(b.levels[sd], p)
  BY <1>1, <1>11, UnitsFinite, OwnType, VolumeType DEF IsSides, GoodBook, Covered
<1>14. ASSUME NEW p \in Prices
       PROVE  Outstanding(orders, old.side, p) =< Volume(lv, p)
  <2> DEFINE added == IF p = price THEN shares ELSE 0
             kept  == IF p = old.price
                      THEN saturating_sub(Volume(b.levels[old.side], p), old.shares)
                      ELSE Volume(b.levels[old.side], p)
             own   == IF p = old.price THEN old.shares ELSE 0
  <2>1. kept \in Nat /\ kept >= Volume(b.levels[old.side], p) - own
    <3>1. Volume(b.levels[old.side], p) \in Nat
      BY <1>3, <1>13
    <3>2. /\ saturating_sub(Volume(b.levels[old.side], p), old.shares) \in Nat
          /\ saturating_sub(Volume(b.levels[old.side], p), old.shares)
               >= Volume(b.levels[old.side], p) - old.shares
      BY <1>3, <3>1, SaturatingSub
    <3>3. QED
      BY <1>3, <3>1, <3>2
  <2>2. Volume(lv, p) = kept + added
    BY <1>10
  <2>3. Outstanding(orders, old.side, p) =
          Outstanding(b.orders, old.side, p) - own - Own(rest, new_r, old.side, p) + added
    BY <1>3, <1>11, <1>12
  <2>4. added \in Nat /\ own \in Nat
    BY <1>3
  <2> HIDE DEF added, kept, own
  <2>5. QED
    BY <1>3, <1>13, <2>1, <2>2, <2>3, <2>4
<1>15. \A sd \in Side \ {old.side}, p \in Prices :
          Outstanding(orders, sd, p) =< Outstanding(b.orders, sd, p)
  BY <1>11, <1>12, <1>13
<1>16. GoodBook(new)
  BY <1>3, <1>9, <1>10, <1>12, <1>14, <1>15, OneSide
<1>17. new.orders = orders
  BY <1>9 DEF touched
<1>18. \A x : x \in DOMAIN orders <=> (x \in DOMAIN b.orders /\ x # r) \/ x = new_r
  BY <1>7, <1>8 DEF Without, Restrict, Put
<1>19. QED
  BY <1>16, <1>17, <1>18

-----------------------------------------------------------------------------
(* The order books, on whatever events. *)

BboOK == bbo \subseteq Update /\ \A u, v \in bbo : u = v

Inv ==
  /\ books = [s \in Stocks |-> books[s]]
  /\ \A s \in Stocks : GoodBook(books[s])
  /\ IsMap(order_to_stock, Refs, Stocks)
  /\ IndexSound
  /\ BboOK

LEMMA InvImplies == Inv => TypeOK /\ SnapshotCurrent /\ IndexSound /\ VolumeCovered
BY DEF Inv, BboOK, TypeOK, SnapshotCurrent, IndexSound, VolumeCovered, GoodBook, Covered

LEMMA NewBookGood == GoodBook(NewBook)
<1>1. IsBook(NewBook)
  BY SeqAssumption DEF SeqAssumption, IsBook, NewBook, NoBbo, BboSnapshot, IsMap, EmptyMap
<1>2. NewBook.last_snapshot = snapshot_bbo(NewBook.levels)
  BY DEF NewBook, NoBbo, snapshot_bbo, best_snapshot, EmptyMap, Side
<1>3. ASSUME NEW sd \in Side, NEW p \in Prices
      PROVE  Outstanding(NewBook.orders, sd, p) =< Volume(NewBook.levels[sd], p)
  <2>1. Units(NewBook.orders, sd, p) = {}
    BY DEF NewBook, EmptyMap, Units, At
  <2>2. Volume(NewBook.levels[sd], p) = 0
    BY DEF NewBook, EmptyMap, Volume
  <2>3. QED
    BY <2>1, <2>2, FS_EmptySet DEF Outstanding
<1>4. QED
  BY <1>1, <1>2, <1>3 DEF GoodBook, Covered

LEMMA InitInv == Init => Inv
<1> SUFFICES ASSUME Init PROVE Inv
  OBVIOUS
<1>1. \A s \in Stocks : GoodBook(books[s])
  BY NewBookGood DEF Init
<1>2. IsMap(order_to_stock, Refs, Stocks) /\ IndexSound
  BY DEF Init, IsMap, EmptyMap, IndexSound
<1>3. QED
  BY <1>1, <1>2 DEF Init, Inv, BboOK

\* An event that hands one stock a good book and leaves the others alone.
LEMMA ApplyInv ==
  ASSUME Inv, NEW s \in Stocks, NEW after, GoodBook(after), Apply(s, after)
  PROVE  /\ books' = [t \in Stocks |-> books'[t]]
         /\ \A t \in Stocks : GoodBook(books'[t])
         /\ books'[s] = after
         /\ \A t \in Stocks \ {s} : books'[t] = books[t]
         /\ BboOK'
<1>1. books' = [books EXCEPT ![s] = after] /\ books = [t \in Stocks |-> books[t]]
  BY DEF Apply, Inv
<1>2. /\ books' = [t \in Stocks |-> books'[t]]
      /\ books'[s] = after
      /\ \A t \in Stocks \ {s} : books'[t] = books[t]
  BY <1>1
<1>3. \A t \in Stocks : GoodBook(books'[t])
  BY <1>2 DEF Inv
<1>4. /\ books[s].seq_num \in 0 .. SeqSpace - 1
      /\ after.last_snapshot \in BboSnapshot
  BY BookParts DEF Inv, GoodBook
<1>5. BboOK'
  BY <1>4 DEF Apply, create_bbo_update, BboOK, Update
<1>6. QED
  BY <1>2, <1>3, <1>5

LEMMA IgnoredInv ==
  ASSUME Inv, Ignored, IsMap(order_to_stock', Refs, Stocks),
         \A x \in DOMAIN order_to_stock' :
            x \in DOMAIN order_to_stock /\ order_to_stock'[x] = order_to_stock[x]
  PROVE  Inv'
BY DEF Inv, Ignored, BboOK, IndexSound

LEMMA AddOrderInv ==
  ASSUME Inv, NEW r \in Refs, NEW s \in Stocks, NEW sd \in Side, NEW n \in Nat,
         NEW p \in Prices, AddOrder(r, s, sd, n, p)
  PROVE  Inv'
<1>1. PICK after : after = on_add(books[s], r, sd, n, p)
  OBVIOUS
<1>2. /\ GoodBook(after)
      /\ \A x : x \in DOMAIN after.orders <=> x \in DOMAIN books[s].orders \/ x = r
  BY <1>1, OnAdd DEF Inv
<1>3. Apply(s, after)
  BY <1>1 DEF AddOrder
<1>4. /\ books' = [t \in Stocks |-> books'[t]]
      /\ \A t \in Stocks : GoodBook(books'[t])
      /\ books'[s] = after
      /\ \A t \in Stocks \ {s} : books'[t] = books[t]
      /\ BboOK'
  BY <1>2, <1>3, ApplyInv
<1>5. order_to_stock' = Put(order_to_stock, r, s)
  BY DEF AddOrder
<1>6. IsMap(order_to_stock', Refs, Stocks)
  BY <1>5, PutType DEF Inv
<1>7. ASSUME NEW x \in DOMAIN order_to_stock'
      PROVE  x \in DOMAIN books'[order_to_stock'[x]].orders
  <2>1. CASE x = r
    BY <1>2, <1>4, <1>5, <2>1 DEF Put
  <2>2. CASE x # r
    <3>1. x \in DOMAIN order_to_stock /\ order_to_stock'[x] = order_to_stock[x]
      BY <1>5, <2>2 DEF Put
    <3>2. /\ order_to_stock[x] \in Stocks
          /\ x \in DOMAIN books[order_to_stock[x]].orders
      BY <3>1 DEF Inv, IndexSound, IsMap
    <3>3. QED
      BY <1>2, <1>4, <3>1, <3>2
  <2>3. QED
    BY <2>1, <2>2
<1>8. QED
  BY <1>4, <1>6, <1>7 DEF Inv, IndexSound

LEMMA OrderReducedInv ==
  ASSUME Inv, NEW r \in Refs, NEW n \in Nat, OrderReduced(r, n)
  PROVE  Inv'
<1>1. CASE ~Known(r)
  BY <1>1, IgnoredInv DEF OrderReduced, Inv
<1>2. CASE Known(r)
  <2>1. PICK s \in Stocks : s = order_to_stock[r] /\ r \in DOMAIN books[s].orders
    BY <1>2 DEF Known, Inv, IsMap, IndexSound
  <2>2. PICK after : after = on_reduce(books[s], r, n)
    OBVIOUS
  <2>3. /\ GoodBook(after)
        /\ \A x : x # r => (x \in DOMAIN after.orders <=> x \in DOMAIN books[s].orders)
    BY <2>1, <2>2, OnReduce DEF Inv
  <2>4. /\ Apply(s, after)
        /\ \/ order_to_stock' = Without(order_to_stock, r)
           \/ order_to_stock' = order_to_stock /\ r \in DOMAIN after.orders
    BY <1>2, <2>1, <2>2 DEF OrderReduced
  <2>5. /\ books' = [t \in Stocks |-> books'[t]]
        /\ \A t \in Stocks : GoodBook(books'[t])
        /\ books'[s] = after
        /\ \A t \in Stocks \ {s} : books'[t] = books[t]
        /\ BboOK'
    BY <2>3, <2>4, ApplyInv
  <2>6. IsMap(order_to_stock', Refs, Stocks)
    BY <2>4, WithoutType DEF Inv
  <2>7. ASSUME NEW x \in DOMAIN order_to_stock'
        PROVE  x \in DOMAIN books'[order_to_stock'[x]].orders
    <3>1. /\ x \in DOMAIN order_to_stock /\ order_to_stock'[x] = order_to_stock[x]
          /\ x = r => r \in DOMAIN after.orders
      BY <2>4 DEF Without, Restrict
    <3>2. /\ order_to_stock[x] \in Stocks
          /\ x \in DOMAIN books[order_to_stock[x]].orders
      BY <3>1 DEF Inv, IndexSound, IsMap
    <3>3. QED
      BY <2>1, <2>3, <2>5, <3>1, <3>2
  <2>8. QED
    BY <2>5, <2>6, <2>7 DEF Inv, IndexSound
<1>3. QED
  BY <1>1, <1>2

LEMMA OrderDeleteInv ==
  ASSUME Inv, NEW r \in Refs, OrderDelete(r)
  PROVE  Inv'
<1>1. /\ IsMap(order_to_stock', Refs, Stocks)
      /\ \A x \in DOMAIN order_to_stock' :
           x \in DOMAIN order_to_stock /\ x # r /\ order_to_stock'[x] = order_to_stock[x]
  BY WithoutType DEF OrderDelete, Inv, Without, Restrict
<1>2. CASE Ignored
  BY <1>1, <1>2, IgnoredInv
<1>3. ASSUME NEW s \in Stocks, r \in DOMAIN books[s].orders,
             Apply(s, on_delete(books[s], r))
      PROVE  Inv'
  <2>1. PICK after : after = on_delete(books[s], r)
    OBVIOUS
  <2>2. /\ GoodBook(after)
        /\ \A x : x \in DOMAIN after.orders <=> x \in DOMAIN books[s].orders /\ x # r
    BY <1>3, <2>1, OnDelete DEF Inv
  <2>3. /\ books' = [t \in Stocks |-> books'[t]]
        /\ \A t \in Stocks : GoodBook(books'[t])
        /\ books'[s] = after
        /\ \A t \in Stocks \ {s} : books'[t] = books[t]
        /\ BboOK'
    BY <1>3, <2>1, <2>2, ApplyInv
  <2>4. ASSUME NEW x \in DOMAIN order_to_stock'
        PROVE  x \in DOMAIN books'[order_to_stock'[x]].orders
    <3>1. /\ order_to_stock[x] \in Stocks
          /\ x \in DOMAIN books[order_to_stock[x]].orders
      BY <1>1 DEF Inv, IndexSound, IsMap
    <3>2. QED
      BY <1>1, <2>2, <2>3, <3>1
  <2>5. QED
    BY <1>1, <2>3, <2>4 DEF Inv, IndexSound
<1>4. QED
  BY <1>2, <1>3 DEF OrderDelete

LEMMA OrderReplaceInv ==
  ASSUME Inv, NEW r \in Refs, NEW new_r \in Refs, NEW n \in Nat, NEW p \in Prices,
         OrderReplace(r, new_r, n, p)
  PROVE  Inv'
<1>1. CASE ~Known(r)
  BY <1>1, IgnoredInv DEF OrderReplace, Inv
<1>2. CASE Known(r)
  <2>1. PICK s \in Stocks : s = order_to_stock[r] /\ r \in DOMAIN books[s].orders
    BY <1>2 DEF Known, Inv, IsMap, IndexSound
  <2>2. PICK after : after = on_replace(books[s], r, new_r, n, p)
    OBVIOUS
  <2>3. /\ GoodBook(after)
        /\ \A x : x \in DOMAIN after.orders
                    <=> (x \in DOMAIN books[s].orders /\ x # r) \/ x = new_r
    BY <2>1, <2>2, OnReplace DEF Inv
  <2>4. /\ Apply(s, after)
        /\ order_to_stock' = Put(Without(order_to_stock, r), new_r, s)
    BY <1>2, <2>1, <2>2 DEF OrderReplace
  <2>5. /\ books' = [t \in Stocks |-> books'[t]]
        /\ \A t \in Stocks : GoodBook(books'[t])
        /\ books'[s] = after
        /\ \A t \in Stocks \ {s} : books'[t] = books[t]
        /\ BboOK'
    BY <2>3, <2>4, ApplyInv
  <2>6. IsMap(order_to_stock', Refs, Stocks)
    BY <2>4, WithoutType, PutType DEF Inv
  <2>7. ASSUME NEW x \in DOMAIN order_to_stock'
        PROVE  x \in DOMAIN books'[order_to_stock'[x]].orders
    <3>1. CASE x = new_r
      BY <2>3, <2>4, <2>5, <3>1 DEF Put
    <3>2. CASE x # new_r
      <4>1. x \in DOMAIN order_to_stock /\ x # r /\ order_to_stock'[x] = order_to_stock[x]
        BY <2>4, <3>2 DEF Put, Without, Restrict
      <4>2. /\ order_to_stock[x] \in Stocks
            /\ x \in DOMAIN books[order_to_stock[x]].orders
        BY <4>1 DEF Inv, IndexSound, IsMap
      <4>3. QED
        BY <2>3, <2>5, <4>1, <4>2
    <3>3. QED
      BY <3>1, <3>2
  <2>8. QED
    BY <2>5, <2>6, <2>7 DEF Inv, IndexSound
<1>3. QED
  BY <1>1, <1>2

LEMMA NextInv == Inv /\ [Next]_vars => Inv'
<1> SUFFICES ASSUME Inv, [Next]_vars PROVE Inv'
  OBVIOUS
<1>1. Shares \subseteq Nat
  BY BookAssumption DEF BookAssumption
<1>2. ASSUME NEW r \in Refs, NEW s \in Stocks, NEW sd \in Side, NEW n \in Shares,
             NEW p \in Prices, AddOrder(r, s, sd, n, p)
      PROVE  Inv'
  BY <1>1, <1>2, AddOrderInv
<1>3. ASSUME NEW r \in Refs, NEW n \in Shares, OrderReduced(r, n)
      PROVE  Inv'
  BY <1>1, <1>3, OrderReducedInv
<1>4. ASSUME NEW r \in Refs, OrderDelete(r)
      PROVE  Inv'
  BY <1>4, OrderDeleteInv
<1>5. ASSUME NEW r \in Refs, NEW new_r \in Refs, NEW n \in Shares, NEW p \in Prices,
             OrderReplace(r, new_r, n, p)
      PROVE  Inv'
  BY <1>1, <1>5, OrderReplaceInv
<1>6. CASE OtherEvent
  BY <1>6, IgnoredInv DEF OtherEvent, Inv
<1>7. CASE UNCHANGED vars
  BY <1>7 DEF vars, Inv, BboOK, IndexSound
<1>8. QED
  BY <1>2, <1>3, <1>4, <1>5, <1>6, <1>7 DEF Next

\* The inductive invariant holds in every reachable state.
LEMMA InvHolds == Spec => []Inv
<1>1. Init => Inv
  BY InitInv
<1>2. Inv /\ [Next]_vars => Inv'
  BY NextInv
<1>3. QED
  BY <1>1, <1>2, PTL DEF Spec

\* Whatever events arrive, the books, the index and the returned update keep
\* their types: no share count or sequence number leaves its range.
THEOREM TypeCorrect == Spec => []TypeOK
BY InvHolds, InvImplies, PTL

\* Whatever events arrive, every book has published its true BBO: the early
\* return of apply_event never suppresses an update that was due.
THEOREM SnapshotIsCurrent == Spec => []SnapshotCurrent
BY InvHolds, InvImplies, PTL

\* Whatever events arrive, the index of OrderBook routes an order reference only
\* to a book in which that order rests.
THEOREM IndexIsSound == Spec => []IndexSound
BY InvHolds, InvImplies, PTL

\* Whatever events arrive, the volume of a level is at least the shares of the
\* orders that rest at it.
THEOREM VolumeIsCovered == Spec => []VolumeCovered
BY InvHolds, InvImplies, PTL

-----------------------------------------------------------------------------
(* The updates. *)

\* The number of a book after an event.
Numbered(b, new) ==
  new.seq_num = IF new.last_snapshot = b.last_snapshot
                THEN b.seq_num ELSE (b.seq_num + 1) % SeqSpace

LEMMA ArmsNumber ==
  ASSUME NEW b, IsBook(b), NEW r, r \in DOMAIN b.orders, NEW new_r, NEW side, NEW n, NEW p
  PROVE  /\ Numbered(b, on_reduce(b, r, n)) /\ Numbered(b, on_delete(b, r))
         /\ Numbered(b, on_replace(b, r, new_r, n, p))
<1>1. \A levels, orders : Numbered(b, touched(b, levels, orders))
  BY DEF Numbered, touched
<1>2. \A orders : Numbered(b, [b EXCEPT !.orders = orders])
  BY DEF IsBook, Numbered
<1>3. Numbered(b, on_reduce(b, r, n))
  BY <1>1, <1>2 DEF on_reduce
<1>4. Numbered(b, on_delete(b, r))
  BY <1>1 DEF on_delete
<1>5. Numbered(b, on_replace(b, r, new_r, n, p))
  BY <1>1 DEF on_replace
<1>6. QED
  BY <1>3, <1>4, <1>5

\* An event that hands a book on tells of that stock, and of no other.
LEMMA ApplyTells ==
  ASSUME Inv, NEW s \in Stocks, NEW after, GoodBook(after), Numbered(books[s], after),
         Apply(s, after)
  PROVE  \A t \in Stocks : Told(t)
<1>1. /\ books'[s] = after
      /\ \A t \in Stocks \ {s} : books'[t] = books[t]
  BY ApplyInv
<1>2. /\ books[s].last_snapshot = snapshot_bbo(books[s].levels)
      /\ after.last_snapshot = snapshot_bbo(after.levels)
  BY DEF Inv, GoodBook
<1>3. bbo' = IF after.last_snapshot = books[s].last_snapshot THEN {}
             ELSE { [stock |-> s, seq_num |-> books[s].seq_num,
                     snap |-> after.last_snapshot] }
  BY DEF Apply, create_bbo_update
<1>4. Told(s)
  BY <1>1, <1>2, <1>3 DEF Told, Numbered
<1>5. ASSUME NEW t \in Stocks \ {s}
      PROVE  Told(t)
  <2>1. \A u \in bbo' : u.stock = s
    BY <1>3
  <2>2. QED
    BY <1>1, <2>1 DEF Told
<1>6. QED
  BY <1>4, <1>5

LEMMA IgnoredTells ==
  ASSUME Ignored
  PROVE  \A t \in Stocks : Told(t)
BY DEF Ignored, Told

LEMMA NextTells == Inv /\ Next => \A t \in Stocks : Told(t)
<1> SUFFICES ASSUME Inv, Next PROVE \A t \in Stocks : Told(t)
  OBVIOUS
<1>1. Shares \subseteq Nat
  BY BookAssumption DEF BookAssumption
<1>2. ASSUME NEW r \in Refs, NEW s \in Stocks, NEW sd \in Side, NEW n \in Shares,
             NEW p \in Prices, AddOrder(r, s, sd, n, p)
      PROVE  \A t \in Stocks : Told(t)
  <2>1. PICK after : after = on_add(books[s], r, sd, n, p)
    OBVIOUS
  <2>2. GoodBook(after)
    BY <1>1, <2>1, OnAdd DEF Inv
  <2>3. Numbered(books[s], after)
    BY <2>1 DEF on_add, touched, Numbered
  <2>4. QED
    BY <1>2, <2>1, <2>2, <2>3, ApplyTells DEF AddOrder
<1>3. ASSUME NEW r \in Refs, NEW n \in Shares, OrderReduced(r, n)
      PROVE  \A t \in Stocks : Told(t)
  <2>1. CASE ~Known(r)
    BY <1>3, <2>1, IgnoredTells DEF OrderReduced
  <2>2. CASE Known(r)
    <3>1. PICK s \in Stocks : s = order_to_stock[r] /\ r \in DOMAIN books[s].orders
      BY <2>2 DEF Known, Inv, IsMap, IndexSound
    <3>2. PICK after : after = on_reduce(books[s], r, n)
      OBVIOUS
    <3>3. GoodBook(books[s]) /\ IsBook(books[s])
      BY DEF Inv, GoodBook
    <3>4. GoodBook(after) /\ Numbered(books[s], after)
      BY <1>1, <3>1, <3>2, <3>3, OnReduce, ArmsNumber
    <3>5. Apply(s, after)
      BY <1>3, <2>2, <3>1, <3>2 DEF OrderReduced
    <3>6. QED
      BY <3>4, <3>5, ApplyTells
  <2>3. QED
    BY <2>1, <2>2
<1>4. ASSUME NEW r \in Refs, OrderDelete(r)
      PROVE  \A t \in Stocks : Told(t)
  <2>1. CASE Ignored
    BY <2>1, IgnoredTells
  <2>2. ASSUME NEW s \in Stocks, r \in DOMAIN books[s].orders,
               Apply(s, on_delete(books[s], r))
        PROVE  \A t \in Stocks : Told(t)
    <3>1. PICK after : after = on_delete(books[s], r)
      OBVIOUS
    <3>2. GoodBook(books[s]) /\ IsBook(books[s])
      BY DEF Inv, GoodBook
    <3>3. GoodBook(after) /\ Numbered(books[s], after)
      BY <2>2, <3>1, <3>2, OnDelete, ArmsNumber
    <3>4. QED
      BY <2>2, <3>1, <3>3, ApplyTells
  <2>3. QED
    BY <1>4, <2>1, <2>2 DEF OrderDelete
<1>5. ASSUME NEW r \in Refs, NEW new_r \in Refs, NEW n \in Shares, NEW p \in Prices,
             OrderReplace(r, new_r, n, p)
      PROVE  \A t \in Stocks : Told(t)
  <2>1. CASE ~Known(r)
    BY <1>5, <2>1, IgnoredTells DEF OrderReplace
  <2>2. CASE Known(r)
    <3>1. PICK s \in Stocks : s = order_to_stock[r] /\ r \in DOMAIN books[s].orders
      BY <2>2 DEF Known, Inv, IsMap, IndexSound
    <3>2. PICK after : after = on_replace(books[s], r, new_r, n, p)
      OBVIOUS
    <3>3. GoodBook(books[s]) /\ IsBook(books[s])
      BY DEF Inv, GoodBook
    <3>4. GoodBook(after) /\ Numbered(books[s], after)
      BY <1>1, <3>1, <3>2, <3>3, OnReplace, ArmsNumber
    <3>5. Apply(s, after)
      BY <1>5, <2>2, <3>1, <3>2 DEF OrderReplace
    <3>6. QED
      BY <3>4, <3>5, ApplyTells
  <2>3. QED
    BY <2>1, <2>2
<1>6. CASE OtherEvent
  BY <1>6, IgnoredTells DEF OtherEvent
<1>7. QED
  BY <1>2, <1>3, <1>4, <1>5, <1>6 DEF Next

\* Whatever events arrive, an event returns an update exactly when it has changed
\* a BBO, for that stock alone, with the new BBO and without a gap in the numbers.
THEOREM UpdatesAreTold == Spec => UpdatesTell
<1>1. Inv /\ [Next]_vars => [\A s \in Stocks : Told(s)]_vars
  BY NextTells
<1>2. QED
  BY <1>1, InvHolds, PTL DEF Spec, UpdatesTell

-----------------------------------------------------------------------------
(* The number of orders at a price. *)

RestingCount(orders, sd, p) == Cardinality(At(orders, sd, p))

LEMMA AtFinite ==
  ASSUME NEW orders, IsOrders(orders), NEW sd, NEW p
  PROVE  IsFiniteSet(At(orders, sd, p)) /\ RestingCount(orders, sd, p) \in Nat
<1>1. At(orders, sd, p) \in SUBSET Refs
  BY DEF At, IsOrders, IsMap
<1>2. IsFiniteSet(At(orders, sd, p))
  BY <1>1, BookAssumption, FS_Subset DEF BookAssumption
<1>3. QED
  BY <1>2, FS_CardinalityType DEF RestingCount

LEMMA RestingWithout ==
  ASSUME NEW orders, IsOrders(orders), NEW r, NEW sd, NEW p
  PROVE  RestingCount(orders, sd, p) =
           RestingCount(Without(orders, r), sd, p) + (IF r \in At(orders, sd, p) THEN 1 ELSE 0)
<1>1. At(Without(orders, r), sd, p) = At(orders, sd, p) \ {r}
  BY DEF At, Without, Restrict
<1>2. IsFiniteSet(At(orders, sd, p)) /\ Cardinality(At(orders, sd, p)) \in Nat
  BY AtFinite DEF RestingCount
<1>3. CASE r \in At(orders, sd, p)
  <2>1. /\ IsFiniteSet(At(orders, sd, p) \ {r})
        /\ Cardinality(At(orders, sd, p) \ {r}) = Cardinality(At(orders, sd, p)) - 1
    BY <1>2, <1>3, FS_RemoveElement
  <2>2. QED
    BY <1>1, <1>2, <1>3, <2>1 DEF RestingCount
<1>4. CASE r \notin At(orders, sd, p)
  <2>1. At(Without(orders, r), sd, p) = At(orders, sd, p)
    BY <1>1, <1>4
  <2>2. RestingCount(Without(orders, r), sd, p) = RestingCount(orders, sd, p)
    BY <2>1, Zenon DEF RestingCount
  <2>3. RestingCount(orders, sd, p) \in Nat
    BY <1>2 DEF RestingCount
  <2>4. QED
    BY <1>4, <2>2, <2>3
<1>5. QED
  BY <1>3, <1>4

LEMMA RestingPut ==
  ASSUME NEW orders, IsOrders(orders), NEW r \in Refs, r \notin DOMAIN orders,
         NEW info \in OrderInfo, NEW new, new = Put(orders, r, info), NEW sd, NEW p
  PROVE  RestingCount(new, sd, p) =
           RestingCount(orders, sd, p) + (IF info.side = sd /\ info.price = p THEN 1 ELSE 0)
<1>1. IsOrders(new)
  BY PutType DEF IsOrders
<1>2. At(Without(new, r), sd, p) = At(orders, sd, p)
  BY DEF At, Put, Without, Restrict
<1>3. r \in At(new, sd, p) <=> info.side = sd /\ info.price = p
  BY DEF At, Put
<1>4. RestingCount(new, sd, p) =
        RestingCount(Without(new, r), sd, p) + (IF r \in At(new, sd, p) THEN 1 ELSE 0)
  BY <1>1, RestingWithout
<1>5. QED
  BY <1>2, <1>3, <1>4 DEF RestingCount

-----------------------------------------------------------------------------
(* The order counts of the levels. *)

LEMMA PutCount ==
  ASSUME NEW levels, NEW price, NEW level, NEW new, new = Put(levels, price, level)
  PROVE  \A p : OrderCount(new, p) = IF p = price THEN level.order_count
                                     ELSE OrderCount(levels, p)
BY DEF OrderCount, Put

LEMMA WithoutCount ==
  ASSUME NEW levels, NEW price, NEW new, new = Without(levels, price)
  PROVE  \A p : OrderCount(new, p) = IF p = price THEN 0 ELSE OrderCount(levels, p)
<1>1. /\ DOMAIN new = DOMAIN levels \ {price}
      /\ \A x \in DOMAIN levels \ {price} : new[x] = levels[x]
  BY WithoutFacts
<1>2. QED
  BY <1>1 DEF OrderCount

LEMMA AddCount ==
  ASSUME NEW levels, NEW price, NEW shares, NEW new, new = add_order(levels, price, shares)
  PROVE  \A p : OrderCount(new, p) = IF p = price THEN OrderCount(levels, p) + 1
                                     ELSE OrderCount(levels, p)
<1>1. PICK level : level = [volume      |-> Volume(levels, price) + shares,
                            order_count |-> OrderCount(levels, price) + 1]
  OBVIOUS
<1>2. new = Put(levels, price, level)
  BY <1>1 DEF add_order
<1>3. level.order_count = OrderCount(levels, price) + 1
  BY <1>1
<1>4. QED
  BY <1>2, <1>3, PutCount

\* A removal takes one off the count, or the whole level.
LEMMA RemoveCount ==
  ASSUME NEW levels, IsLevels(levels), NEW price, NEW shares,
         NEW new, new = remove_shares(levels, price, shares)
  PROVE  /\ \A p : p # price => OrderCount(new, p) = OrderCount(levels, p)
         /\ OrderCount(new, price) =< saturating_sub(OrderCount(levels, price), 1)
<1>1. /\ OrderCount(levels, price) \in Nat
      /\ saturating_sub(OrderCount(levels, price), 1) \in Nat
  BY VolumeType, SaturatingSub
<1>2. CASE price \in DOMAIN levels /\ saturating_sub(Volume(levels, price), shares) > 0
  <2>1. PICK level : level = [volume      |-> saturating_sub(Volume(levels, price), shares),
                              order_count |-> saturating_sub(levels[price].order_count, 1)]
    OBVIOUS
  <2>2. new = Put(levels, price, level)
    BY <1>2, <2>1 DEF remove_shares
  <2>3. level.order_count = saturating_sub(OrderCount(levels, price), 1)
    BY <1>2, <2>1 DEF OrderCount
  <2>4. \A p : OrderCount(new, p) = IF p = price THEN level.order_count
                                    ELSE OrderCount(levels, p)
    BY <2>2, PutCount
  <2>5. QED
    BY <1>1, <2>3, <2>4
<1>3. CASE ~(price \in DOMAIN levels /\ saturating_sub(Volume(levels, price), shares) > 0)
  <2>1. new = Without(levels, price)
    BY <1>3 DEF remove_shares
  <2>2. \A p : OrderCount(new, p) = IF p = price THEN 0 ELSE OrderCount(levels, p)
    BY <2>1, WithoutCount
  <2>3. QED
    BY <1>1, <2>2
<1>4. QED
  BY <1>2, <1>3

\* A replacement at the price of a level leaves its count alone; otherwise it is
\* a removal and an insertion.
LEMMA ReplaceCount ==
  ASSUME NEW levels, IsLevels(levels), NEW old_price \in DOMAIN levels, NEW old_shares \in Nat,
         NEW new_price, NEW new_shares \in Nat,
         NEW new, new = replace_atomically(levels, old_price, old_shares, new_price, new_shares)
  PROVE  IF old_price = new_price
         THEN \A p : OrderCount(new, p) =< OrderCount(levels, p)
         ELSE /\ \A p : p \notin {old_price, new_price} =>
                          OrderCount(new, p) = OrderCount(levels, p)
              /\ OrderCount(new, old_price) =< saturating_sub(OrderCount(levels, old_price), 1)
              /\ OrderCount(new, new_price) = OrderCount(levels, new_price) + 1
<1>1. \A p : OrderCount(levels, p) \in Nat
  BY VolumeType
<1>2. CASE old_price # new_price
  <2>1. PICK mid : mid = remove_shares(levels, old_price, old_shares)
    OBVIOUS
  <2>2. /\ \A p : p # old_price => OrderCount(mid, p) = OrderCount(levels, p)
        /\ OrderCount(mid, old_price) =< saturating_sub(OrderCount(levels, old_price), 1)
    BY <2>1, RemoveCount
  <2>3. new = add_order(mid, new_price, new_shares)
    BY <1>2, <2>1 DEF replace_atomically
  <2>4. \A p : OrderCount(new, p) = IF p = new_price THEN OrderCount(mid, p) + 1
                                    ELSE OrderCount(mid, p)
    BY <2>3, AddCount
  <2>5. QED
    BY <1>2, <2>2, <2>4
<1>3. CASE old_price = new_price
  <2> DEFINE volume == saturating_sub(Volume(levels, old_price), old_shares) + new_shares
  <2>1. CASE volume = 0
    <3>1. new = Without(levels, old_price)
      BY <1>3, <2>1 DEF replace_atomically
    <3>2. \A p : OrderCount(new, p) = IF p = old_price THEN 0 ELSE OrderCount(levels, p)
      BY <3>1, WithoutCount
    <3>3. QED
      BY <1>1, <1>3, <3>2
  <2>2. CASE volume # 0
    <3>1. PICK level : level = [volume |-> volume, order_count |-> levels[old_price].order_count]
      OBVIOUS
    <3>2. new = Put(levels, old_price, level)
      BY <1>3, <2>2, <3>1 DEF replace_atomically
    <3>3. level.order_count = OrderCount(levels, old_price)
      BY <3>1 DEF OrderCount
    <3>4. \A p : OrderCount(new, p) = IF p = old_price THEN level.order_count
                                      ELSE OrderCount(levels, p)
      BY <3>2, PutCount
    <3>5. QED
      BY <1>1, <1>3, <3>3, <3>4
  <2>3. QED
    BY <2>1, <2>2
<1>4. QED
  BY <1>2, <1>3

-----------------------------------------------------------------------------
(* A book on an ITCH feed. *)

ExactBook(b) ==
  /\ GoodBook(b)
  /\ \A r \in DOMAIN b.orders : b.orders[r].shares > 0
  /\ \A sd \in Side : NoneEmpty(b.levels[sd])
  /\ \A sd \in Side, p \in Prices :
       /\ Volume(b.levels[sd], p) = Outstanding(b.orders, sd, p)
       /\ OrderCount(b.levels[sd], p) =< RestingCount(b.orders, sd, p)

\* The levels of a side are those of its orders.
ExactLevels(levels, orders, sd) ==
  /\ IsLevels(levels) /\ NoneEmpty(levels)
  /\ \A p \in Prices : /\ Volume(levels, p) = Outstanding(orders, sd, p)
                       /\ OrderCount(levels, p) =< RestingCount(orders, sd, p)

\* An event that changes one side of an exact book.
LEMMA ExactSide ==
  ASSUME NEW b, ExactBook(b), NEW side \in Side, NEW orders, IsOrders(orders),
         \A r \in DOMAIN orders : orders[r].shares > 0,
         NEW lv, ExactLevels(lv, orders, side),
         \A sd \in Side \ {side}, p \in Prices :
            /\ Outstanding(orders, sd, p) = Outstanding(b.orders, sd, p)
            /\ RestingCount(orders, sd, p) = RestingCount(b.orders, sd, p),
         NEW new, new = touched(b, [b.levels EXCEPT ![side] = lv], orders)
  PROVE  ExactBook(new) /\ new.orders = orders
<1> DEFINE levels == [b.levels EXCEPT ![side] = lv]
<1>1. IsSides(b.levels) /\ IsOrders(b.orders) /\ IsBook(b)
  BY BookParts DEF ExactBook, GoodBook
<1>2. /\ levels[side] = lv
      /\ \A sd \in Side \ {side} : levels[sd] = b.levels[sd]
  BY <1>1 DEF IsSides
<1>3. IsSides(levels)
  BY <1>1, <1>2 DEF IsSides, ExactLevels
<1> HIDE DEF levels
<1>4. new.levels = levels /\ new.orders = orders /\ IsBook(new)
      /\ new.last_snapshot = snapshot_bbo(levels)
  BY <1>1, <1>3, TouchedFacts DEF levels
<1>5. ASSUME NEW sd \in Side
      PROVE  ExactLevels(levels[sd], orders, sd)
  <2>1. CASE sd = side
    BY <1>2, <2>1
  <2>2. CASE sd # side
    <3>1. levels[sd] = b.levels[sd]
      BY <1>2, <2>2
    <3>2. /\ IsLevels(b.levels[sd]) /\ NoneEmpty(b.levels[sd])
          /\ \A p \in Prices : /\ Volume(b.levels[sd], p) = Outstanding(b.orders, sd, p)
                               /\ OrderCount(b.levels[sd], p) =< RestingCount(b.orders, sd, p)
      BY <1>1 DEF IsSides, ExactBook
    <3>3. \A p \in Prices : /\ Outstanding(orders, sd, p) = Outstanding(b.orders, sd, p)
                            /\ RestingCount(orders, sd, p) = RestingCount(b.orders, sd, p)
      BY <2>2
    <3>4. QED
      BY <3>1, <3>2, <3>3 DEF ExactLevels
  <2>3. QED
    BY <2>1, <2>2
<1>6. \A sd \in Side, p \in Prices :
        /\ Volume(new.levels[sd], p) = Outstanding(new.orders, sd, p)
        /\ OrderCount(new.levels[sd], p) =< RestingCount(new.orders, sd, p)
        /\ Outstanding(orders, sd, p) \in Nat
  <2>1. \A sd \in Side, p \in Prices : Outstanding(orders, sd, p) \in Nat
    BY UnitsFinite
  <2>2. QED
    BY <1>4, <1>5, <2>1 DEF ExactLevels
<1>7. GoodBook(new)
  BY <1>4, <1>6 DEF GoodBook, Covered
<1>8. \A sd \in Side : NoneEmpty(new.levels[sd])
  BY <1>4, <1>5 DEF ExactLevels
<1>9. QED
  BY <1>4, <1>6, <1>7, <1>8 DEF ExactBook

\* A new order under a reference that is not in use.
LEMMA FeedAdd ==
  ASSUME NEW b, ExactBook(b), NEW r \in Refs, r \notin DOMAIN b.orders, NEW side \in Side,
         NEW shares \in Nat \ {0}, NEW price \in Prices,
         NEW new, new = on_add(b, r, side, shares, price)
  PROVE  /\ ExactBook(new)
         /\ new.orders = Put(b.orders, r, [side |-> side, price |-> price, shares |-> shares])
<1>1. IsSides(b.levels) /\ IsOrders(b.orders)
  BY BookParts DEF ExactBook, GoodBook
<1>2. PICK info : info = [side |-> side, price |-> price, shares |-> shares]
  OBVIOUS
<1>3. info \in OrderInfo /\ info.side = side /\ info.price = price /\ info.shares = shares
  BY <1>2 DEF OrderInfo
<1>4. PICK lv : lv = add_order(b.levels[side], price, shares)
  OBVIOUS
<1>5. PICK orders : orders = Put(b.orders, r, info)
  OBVIOUS
<1>6. new = touched(b, [b.levels EXCEPT ![side] = lv], orders)
  BY <1>1, <1>2, <1>4, <1>5 DEF on_add, IsSides
<1>7. IsLevels(b.levels[side]) /\ NoneEmpty(b.levels[side])
  BY <1>1 DEF IsSides, ExactBook
<1>8. /\ IsLevels(lv) /\ NoneEmpty(lv)
      /\ \A p : Volume(lv, p) = IF p = price THEN Volume(b.levels[side], p) + shares
                                ELSE Volume(b.levels[side], p)
  BY <1>4, <1>7, AddOrderFacts
<1>9. \A p : OrderCount(lv, p) = IF p = price THEN OrderCount(b.levels[side], p) + 1
                                 ELSE OrderCount(b.levels[side], p)
  BY <1>4, AddCount
<1>10. /\ IsOrders(orders)
       /\ \A sd, p : Outstanding(orders, sd, p) =
            Outstanding(b.orders, sd, p) - Own(b.orders, r, sd, p)
            + (IF side = sd /\ price = p THEN shares ELSE 0)
  BY <1>1, <1>3, <1>5, OutstandingPut
<1>11. \A sd, p : Own(b.orders, r, sd, p) = 0
  BY DEF Own, At
<1>12. \A sd, p : RestingCount(orders, sd, p) =
         RestingCount(b.orders, sd, p) + (IF side = sd /\ price = p THEN 1 ELSE 0)
  BY <1>1, <1>3, <1>5, RestingPut
<1>13. \A sd, p : Outstanding(b.orders, sd, p) \in Nat /\ RestingCount(b.orders, sd, p) \in Nat
  BY <1>1, UnitsFinite, AtFinite
<1>14. ASSUME NEW sd \in Side \ {side}, NEW p \in Prices
       PROVE  /\ Outstanding(orders, sd, p) = Outstanding(b.orders, sd, p)
              /\ RestingCount(orders, sd, p) = RestingCount(b.orders, sd, p)
  BY <1>10, <1>11, <1>12, <1>13
<1>15. ASSUME NEW p \in Prices
       PROVE  /\ Volume(lv, p) = Outstanding(orders, side, p)
              /\ OrderCount(lv, p) =< RestingCount(orders, side, p)
  <2>1. /\ Volume(b.levels[side], p) = Outstanding(b.orders, side, p)
        /\ OrderCount(b.levels[side], p) =< RestingCount(b.orders, side, p)
    BY DEF ExactBook
  <2>2. OrderCount(b.levels[side], p) \in Nat
    BY <1>7, VolumeType
  <2>3. QED
    BY <1>8, <1>9, <1>10, <1>11, <1>12, <1>13, <2>1, <2>2
<1>16. ExactLevels(lv, orders, side)
  BY <1>8, <1>15 DEF ExactLevels
<1>17. \A x \in DOMAIN orders : orders[x].shares > 0
  <2>1. /\ DOMAIN orders = DOMAIN b.orders \cup {r} /\ orders[r] = info
        /\ \A x \in DOMAIN b.orders \ {r} : orders[x] = b.orders[x]
    BY <1>5 DEF Put
  <2>2. info.shares > 0
    BY <1>3
  <2>3. QED
    BY <2>1, <2>2 DEF ExactBook
<1>18. ExactBook(new) /\ new.orders = orders
  BY <1>6, <1>10, <1>14, <1>16, <1>17, ExactSide
<1>19. QED
  BY <1>2, <1>5, <1>18

\* What is left of the orders when some of the shares of one are taken.
Left(orders, r, cut) ==
  IF orders[r].shares = cut THEN Without(orders, r)
  ELSE Put(orders, r, [orders[r] EXCEPT !.shares = @ - cut])

LEMMA LeftFacts ==
  ASSUME NEW orders, IsOrders(orders), \A x \in DOMAIN orders : orders[x].shares > 0,
         NEW r \in DOMAIN orders, NEW cut \in Nat, cut =< orders[r].shares,
         NEW info, info = orders[r], NEW left, left = Left(orders, r, cut)
  PROVE  /\ IsOrders(left) /\ \A x \in DOMAIN left : left[x].shares > 0
         /\ \A sd, p : Outstanding(left, sd, p) = Outstanding(orders, sd, p)
              - (IF info.side = sd /\ info.price = p THEN cut ELSE 0)
         /\ \A sd, p : info.side # sd \/ info.price # p =>
              RestingCount(left, sd, p) = RestingCount(orders, sd, p)
         /\ RestingCount(left, info.side, info.price)
              >= RestingCount(orders, info.side, info.price) - 1
         /\ RestingCount(orders, info.side, info.price) >= 1
<1>1. /\ info.side \in Side /\ info.price \in Prices /\ info.shares \in Nat /\ info \in OrderInfo
      /\ info.shares > 0 /\ cut =< info.shares /\ r \in Refs
      /\ info = [side |-> info.side, price |-> info.price, shares |-> info.shares]
  BY DEF IsOrders, IsMap, OrderInfo
<1>2. \A sd, p : /\ Outstanding(orders, sd, p) \in Nat /\ RestingCount(orders, sd, p) \in Nat
                 /\ Own(orders, r, sd, p) =
                      IF info.side = sd /\ info.price = p THEN info.shares ELSE 0
                 /\ r \in At(orders, sd, p) <=> info.side = sd /\ info.price = p
  BY UnitsFinite, AtFinite DEF Own, At
<1>3. /\ IsOrders(Without(orders, r))
      /\ \A sd, p : RestingCount(Without(orders, r), sd, p) \in Nat
  <2>1. PICK rest : rest = Without(orders, r)
    OBVIOUS
  <2>2. IsOrders(rest)
    BY <2>1, WithoutType DEF IsOrders
  <2>3. QED
    BY <2>1, <2>2, AtFinite
<1>4. \A sd, p : RestingCount(orders, sd, p) =
        RestingCount(Without(orders, r), sd, p)
        + (IF info.side = sd /\ info.price = p THEN 1 ELSE 0)
  BY <1>2, RestingWithout
<1>5. CASE info.shares = cut
  <2>1. left = Without(orders, r)
    BY <1>5 DEF Left
  <2>2. \A sd, p : Outstanding(left, sd, p) =
          Outstanding(orders, sd, p) - Own(orders, r, sd, p)
    BY <2>1, OutstandingWithout
  <2>3. \A x \in DOMAIN left : left[x].shares > 0
    BY <2>1 DEF Without, Restrict
  <2>4. \A sd, p : RestingCount(orders, sd, p) =
          RestingCount(left, sd, p) + (IF info.side = sd /\ info.price = p THEN 1 ELSE 0)
    BY <1>4, <2>1
  <2>5. \A sd, p : RestingCount(left, sd, p) \in Nat
    BY <1>3, <2>1
  <2>6. \A sd, p : Outstanding(left, sd, p) = Outstanding(orders, sd, p)
          - (IF info.side = sd /\ info.price = p THEN cut ELSE 0)
    BY <1>2, <1>5, <2>2
  <2>7. QED
    BY <1>3, <2>1, <2>3, <2>4, <2>5, <2>6
<1>6. CASE info.shares # cut
  <2>1. PICK new : new = [info EXCEPT !.shares = @ - cut]
    OBVIOUS
  <2>2. /\ new \in OrderInfo /\ new.side = info.side /\ new.price = info.price
        /\ new.shares = info.shares - cut /\ new.shares > 0
    BY <1>1, <1>6, <2>1 DEF OrderInfo
  <2>3. left = Put(orders, r, new)
    BY <1>6, <2>1 DEF Left
  <2>4. /\ IsOrders(left)
        /\ \A sd, p : Outstanding(left, sd, p) = Outstanding(orders, sd, p)
             - Own(orders, r, sd, p)
             + (IF new.side = sd /\ new.price = p THEN new.shares ELSE 0)
    BY <1>1, <2>2, <2>3, OutstandingPut
  <2>5. DOMAIN left = DOMAIN orders /\ left[r] = new
        /\ \A x \in DOMAIN orders \ {r} : left[x] = orders[x]
    BY <2>3 DEF Put
  <2>6. \A sd, p : At(left, sd, p) = At(orders, sd, p)
    BY <2>2, <2>5 DEF At
  <2>7. \A sd, p : RestingCount(left, sd, p) = RestingCount(orders, sd, p)
    BY <2>6, Zenon DEF RestingCount
  <2>8. \A x \in DOMAIN left : left[x].shares > 0
    BY <2>2, <2>5
  <2>9. \A sd, p : Outstanding(left, sd, p) = Outstanding(orders, sd, p)
          - (IF info.side = sd /\ info.price = p THEN cut ELSE 0)
    BY <1>1, <1>2, <2>2, <2>4
  <2>10. RestingCount(orders, info.side, info.price) >= 1
    <3>1. RestingCount(orders, info.side, info.price) =
            RestingCount(Without(orders, r), info.side, info.price) + 1
      BY <1>4
    <3>2. RestingCount(Without(orders, r), info.side, info.price) \in Nat
      BY <1>3
    <3>3. QED
      BY <3>1, <3>2
  <2>11. QED
    BY <1>2, <2>4, <2>7, <2>8, <2>9, <2>10
<1>7. QED
  BY <1>5, <1>6

\* Shares of an order are taken, by an execution, a cancel or a deletion.
LEMMA Taken ==
  ASSUME NEW b, ExactBook(b), NEW r \in DOMAIN b.orders, NEW info, info = b.orders[r],
         NEW cut \in Nat \ {0}, cut =< info.shares,
         NEW lv, lv = remove_shares(b.levels[info.side], info.price, cut),
         NEW orders, orders = Left(b.orders, r, cut),
         NEW new, new = touched(b, [b.levels EXCEPT ![info.side] = lv], orders)
  PROVE  ExactBook(new) /\ new.orders = orders
<1>1. IsSides(b.levels) /\ IsOrders(b.orders) /\ \A x \in DOMAIN b.orders : b.orders[x].shares > 0
  BY BookParts DEF ExactBook, GoodBook
<1>2. info.side \in Side /\ info.price \in Prices /\ info.shares \in Nat
  BY <1>1 DEF IsOrders, IsMap, OrderInfo
<1>3. IsLevels(b.levels[info.side]) /\ NoneEmpty(b.levels[info.side])
  BY <1>1, <1>2 DEF IsSides, ExactBook
<1>4. /\ IsLevels(lv) /\ NoneEmpty(lv)
      /\ \A p : Volume(lv, p) =
           IF p = info.price THEN saturating_sub(Volume(b.levels[info.side], p), cut)
           ELSE Volume(b.levels[info.side], p)
  BY <1>2, <1>3, RemoveSharesFacts
<1>5. /\ \A p : p # info.price => OrderCount(lv, p) = OrderCount(b.levels[info.side], p)
      /\ OrderCount(lv, info.price)
           =< saturating_sub(OrderCount(b.levels[info.side], info.price), 1)
  BY <1>3, RemoveCount
<1>6. /\ IsOrders(orders) /\ \A x \in DOMAIN orders : orders[x].shares > 0
      /\ \A sd, p : Outstanding(orders, sd, p) = Outstanding(b.orders, sd, p)
           - (IF info.side = sd /\ info.price = p THEN cut ELSE 0)
      /\ \A sd, p : info.side # sd \/ info.price # p =>
           RestingCount(orders, sd, p) = RestingCount(b.orders, sd, p)
      /\ RestingCount(orders, info.side, info.price)
           >= RestingCount(b.orders, info.side, info.price) - 1
      /\ RestingCount(b.orders, info.side, info.price) >= 1
  BY <1>1, LeftFacts
<1>7. \A sd, p : /\ Outstanding(b.orders, sd, p) \in Nat /\ Outstanding(orders, sd, p) \in Nat
                 /\ RestingCount(b.orders, sd, p) \in Nat /\ RestingCount(orders, sd, p) \in Nat
  BY <1>1, <1>6, UnitsFinite, AtFinite
<1>8. \A p \in Prices : /\ Volume(b.levels[info.side], p) = Outstanding(b.orders, info.side, p)
                        /\ OrderCount(b.levels[info.side], p) =< RestingCount(b.orders, info.side, p)
                        /\ OrderCount(b.levels[info.side], p) \in Nat
                        /\ OrderCount(lv, p) \in Nat
  BY <1>2, <1>3, <1>4, VolumeType DEF ExactBook
<1>9. ASSUME NEW p \in Prices
      PROVE  /\ Volume(lv, p) = Outstanding(orders, info.side, p)
             /\ OrderCount(lv, p) =< RestingCount(orders, info.side, p)
  <2>1. CASE p = info.price
    <3>1. Outstanding(orders, info.side, p) = Outstanding(b.orders, info.side, p) - cut
      BY <1>6, <2>1
    <3>2. Volume(lv, p) = saturating_sub(Outstanding(b.orders, info.side, p), cut)
      BY <1>4, <1>8, <2>1
    <3>3. Volume(lv, p) = Outstanding(orders, info.side, p)
      BY <1>7, <3>1, <3>2 DEF saturating_sub
    <3>4. OrderCount(lv, p) =< RestingCount(orders, info.side, p)
      <4>1. OrderCount(lv, p) =< saturating_sub(OrderCount(b.levels[info.side], p), 1)
        BY <1>5, <2>1
      <4>2. /\ RestingCount(orders, info.side, p) >= RestingCount(b.orders, info.side, p) - 1
            /\ RestingCount(b.orders, info.side, p) >= 1
        BY <1>6, <2>1
      <4>3. PICK x \in Nat, y \in Nat, z \in Nat :
                /\ x = OrderCount(lv, p) /\ y = RestingCount(orders, info.side, p)
                /\ z = RestingCount(b.orders, info.side, p)
        BY <1>7, <1>8
      <4>4. OrderCount(b.levels[info.side], p) =< z /\ OrderCount(b.levels[info.side], p) \in Nat
        BY <1>8, <4>3
      <4>5. QED
        BY <4>1, <4>2, <4>3, <4>4 DEF saturating_sub
    <3>5. QED
      BY <3>3, <3>4
  <2>2. CASE p # info.price
    <3>1. /\ Volume(lv, p) = Volume(b.levels[info.side], p)
          /\ OrderCount(lv, p) = OrderCount(b.levels[info.side], p)
          /\ RestingCount(orders, info.side, p) = RestingCount(b.orders, info.side, p)
      BY <1>4, <1>5, <1>6, <2>2
    <3>2. Outstanding(orders, info.side, p) = Outstanding(b.orders, info.side, p)
      BY <1>6, <1>7, <2>2
    <3>3. QED
      BY <1>8, <3>1, <3>2
  <2>3. QED
    BY <2>1, <2>2
<1>10. ExactLevels(lv, orders, info.side)
  BY <1>4, <1>9 DEF ExactLevels
<1>11. ASSUME NEW sd \in Side \ {info.side}, NEW p \in Prices
       PROVE  /\ Outstanding(orders, sd, p) = Outstanding(b.orders, sd, p)
              /\ RestingCount(orders, sd, p) = RestingCount(b.orders, sd, p)
  BY <1>6, <1>7
<1>12. QED
  BY <1>2, <1>6, <1>10, <1>11, ExactSide

LEMMA FeedDelete ==
  ASSUME NEW b, ExactBook(b), NEW r, r \in DOMAIN b.orders, NEW new, new = on_delete(b, r)
  PROVE  ExactBook(new) /\ new.orders = Without(b.orders, r)
<1>1. /\ IsSides(b.levels) /\ IsOrders(b.orders)
      /\ \A x \in DOMAIN b.orders : b.orders[x].shares > 0
  BY BookParts DEF ExactBook, GoodBook
<1>2. PICK info \in OrderInfo : info = b.orders[r]
  BY <1>1 DEF IsOrders, IsMap
<1>3. info.side \in Side /\ info.shares \in Nat \ {0} /\ info.shares =< info.shares
  BY <1>1, <1>2 DEF OrderInfo
<1>4. PICK lv : lv = remove_shares(b.levels[info.side], info.price, info.shares)
  OBVIOUS
<1>5. PICK orders : orders = Left(b.orders, r, info.shares)
  OBVIOUS
<1>6. orders = Without(b.orders, r)
  BY <1>2, <1>5 DEF Left
<1>7. new = touched(b, [b.levels EXCEPT ![info.side] = lv], orders)
  BY <1>1, <1>2, <1>3, <1>4, <1>6 DEF on_delete, IsSides
<1>8. ExactBook(new) /\ new.orders = orders
  BY <1>2, <1>3, <1>4, <1>5, <1>7, Taken
<1>9. QED
  BY <1>6, <1>8

\* An execution or a cancel of n shares, of which the order may have fewer.
LEMMA FeedReduce ==
  ASSUME NEW b, ExactBook(b), NEW r, r \in DOMAIN b.orders, NEW n \in Nat,
         NEW new, new = on_reduce(b, r, n)
  PROVE  /\ ExactBook(new)
         /\ \/ /\ n = 0 /\ new = b
            \/ /\ n > 0 /\ n < b.orders[r].shares
               /\ new.orders = Put(b.orders, r, [b.orders[r] EXCEPT !.shares = @ - n])
            \/ /\ n > 0 /\ n >= b.orders[r].shares
               /\ new.orders = Without(b.orders, r)
<1>1. /\ IsSides(b.levels) /\ IsOrders(b.orders) /\ IsBook(b)
      /\ \A x \in DOMAIN b.orders : b.orders[x].shares > 0
  BY BookParts DEF ExactBook, GoodBook
<1>2. PICK info \in OrderInfo : info = b.orders[r]
  BY <1>1 DEF IsOrders, IsMap
<1>3. info.side \in Side /\ info.shares \in Nat \ {0}
  BY <1>1, <1>2 DEF OrderInfo
<1>4. PICK cut : cut = reduced(info, n)
  OBVIOUS
<1>5. cut \in Nat /\ cut =< info.shares /\ cut = IF n < info.shares THEN n ELSE info.shares
  BY <1>3, <1>4 DEF reduced
<1>6. PICK orders : orders = Left(b.orders, r, cut)
  OBVIOUS
<1>7. orders = IF info.shares = cut THEN Without(b.orders, r)
               ELSE [b.orders EXCEPT ![r].shares = @ - cut]
  <2>1. b.orders \in [DOMAIN b.orders -> OrderInfo]
    BY <1>1 DEF IsOrders, IsMap
  <2>2. \A v : Put(b.orders, r, v) = [b.orders EXCEPT ![r] = v]
    BY <2>1 DEF Put
  <2>3. QED
    BY <1>2, <1>6, <2>2 DEF Left
<1>8. CASE n = 0
  <2>1. cut = 0 /\ info.shares # cut
    BY <1>3, <1>5, <1>8
  <2>2. new = [b EXCEPT !.orders = [b.orders EXCEPT ![r].shares = @ - cut]]
    BY <1>2, <1>4, <2>1 DEF on_reduce
  <2>3. [b.orders[r] EXCEPT !.shares = @ - cut] = b.orders[r]
    BY <1>2, <1>3, <2>1 DEF OrderInfo
  <2>4. [b.orders EXCEPT ![r] = b.orders[r]] = b.orders
    BY <1>1 DEF IsOrders, IsMap
  <2>5. new = [b EXCEPT !.orders = b.orders]
    BY <2>2, <2>3, <2>4
  <2>6. new = b
    BY <1>1, <2>5 DEF IsBook
  <2>7. QED
    BY <1>8, <2>6
<1>9. CASE n # 0
  <2>1. cut \in Nat \ {0}
    BY <1>3, <1>5, <1>9
  <2>2. PICK lv : lv = remove_shares(b.levels[info.side], info.price, cut)
    OBVIOUS
  <2>3. new = touched(b, [b.levels EXCEPT ![info.side] = lv], orders)
    BY <1>1, <1>2, <1>3, <1>4, <1>7, <2>1, <2>2 DEF on_reduce, IsSides
  <2>4. ExactBook(new) /\ new.orders = orders
    <3>1. ExactBook(b) /\ r \in DOMAIN b.orders /\ info = b.orders[r] /\ cut =< info.shares
      BY <1>2, <1>5
    <3>2. orders = Left(b.orders, r, cut)
      BY <1>6
    <3>3. QED
      BY <2>1, <2>2, <2>3, <3>1, <3>2, Taken
  <2>5. CASE n < info.shares
    <3>1. cut = n /\ info.shares # cut /\ n > 0
      BY <1>3, <1>5, <1>9, <2>5
    <3>2. orders = Put(b.orders, r, [b.orders[r] EXCEPT !.shares = @ - n])
      BY <1>2, <1>6, <3>1 DEF Left
    <3>3. QED
      BY <1>2, <2>4, <2>5, <3>1, <3>2
  <2>6. CASE ~(n < info.shares)
    <3>1. cut = info.shares /\ n > 0 /\ n >= info.shares
      BY <1>3, <1>5, <1>9, <2>6
    <3>2. orders = Without(b.orders, r)
      BY <1>2, <1>6, <3>1 DEF Left
    <3>3. QED
      BY <1>2, <2>4, <3>1, <3>2
  <2>7. QED
    BY <2>5, <2>6
<1>10. QED
  BY <1>8, <1>9

LEMMA FeedReplace ==
  ASSUME NEW b, ExactBook(b), NEW r, r \in DOMAIN b.orders,
         NEW new_r \in Refs, new_r \notin DOMAIN b.orders,
         NEW shares \in Nat \ {0}, NEW price \in Prices,
         NEW new, new = on_replace(b, r, new_r, shares, price)
  PROVE  /\ ExactBook(new)
         /\ new.orders = Put(Without(b.orders, r), new_r,
              [side |-> b.orders[r].side, price |-> price, shares |-> shares])
<1>1. /\ IsSides(b.levels) /\ IsOrders(b.orders) /\ IsBook(b)
      /\ \A x \in DOMAIN b.orders : b.orders[x].shares > 0
  BY BookParts DEF ExactBook, GoodBook
<1>2. PICK old \in OrderInfo : old = b.orders[r]
  BY <1>1 DEF IsOrders, IsMap
<1>3. old.side \in Side /\ old.price \in Prices /\ old.shares \in Nat /\ old.shares > 0
  BY <1>1, <1>2 DEF OrderInfo
<1>4. \A sd, p : /\ Own(b.orders, r, sd, p) =
                      IF old.side = sd /\ old.price = p THEN old.shares ELSE 0
                 /\ r \in At(b.orders, sd, p) <=> old.side = sd /\ old.price = p
  BY <1>2 DEF Own, At
<1>5. PICK info : info = [side |-> old.side, price |-> price, shares |-> shares]
  OBVIOUS
<1>6. info \in OrderInfo /\ info.side = old.side /\ info.price = price /\ info.shares = shares
  BY <1>3, <1>5 DEF OrderInfo
<1>7. PICK levels : levels = b.levels[old.side]
  OBVIOUS
<1>8. IsLevels(levels) /\ NoneEmpty(levels)
  BY <1>1, <1>3, <1>7 DEF IsSides, ExactBook
<1>9. PICK lv : lv = replace_atomically(levels, old.price, old.shares, price, shares)
  OBVIOUS
<1>10. PICK rest : rest = Without(b.orders, r)
  OBVIOUS
<1>11. PICK orders : orders = Put(rest, new_r, info)
  OBVIOUS
<1>12. new = touched(b, [b.levels EXCEPT ![old.side] = lv], orders)
  BY <1>1, <1>2, <1>3, <1>5, <1>7, <1>9, <1>10, <1>11 DEF on_replace, IsSides
<1>13. /\ IsLevels(lv) /\ NoneEmpty(lv)
       /\ \A p : Volume(lv, p) =
            (IF p = old.price THEN saturating_sub(Volume(levels, p), old.shares)
             ELSE Volume(levels, p))
            + (IF p = price THEN shares ELSE 0)
  BY <1>3, <1>8, <1>9, ReplaceFacts
<1>14. /\ IsOrders(rest) /\ new_r \notin DOMAIN rest
       /\ \A sd, p : Outstanding(rest, sd, p) =
            Outstanding(b.orders, sd, p) - Own(b.orders, r, sd, p)
  <2>1. IsOrders(rest) /\ \A sd, p : Outstanding(rest, sd, p) =
            Outstanding(b.orders, sd, p) - Own(b.orders, r, sd, p)
    BY <1>1, <1>10, OutstandingWithout
  <2>2. new_r \notin DOMAIN rest
    BY <1>10 DEF Without, Restrict
  <2>3. QED
    BY <2>1, <2>2
<1>15. /\ IsOrders(orders)
       /\ \A sd, p : Outstanding(orders, sd, p) =
            Outstanding(rest, sd, p) - Own(rest, new_r, sd, p)
            + (IF old.side = sd /\ price = p THEN shares ELSE 0)
  BY <1>6, <1>11, <1>14, OutstandingPut
<1>16. \A sd, p : Own(rest, new_r, sd, p) = 0
  BY <1>14 DEF Own, At
<1>17. \A sd, p : RestingCount(orders, sd, p) =
         RestingCount(rest, sd, p) + (IF old.side = sd /\ price = p THEN 1 ELSE 0)
  BY <1>6, <1>11, <1>14, RestingPut
<1>18. \A sd, p : RestingCount(b.orders, sd, p) =
         RestingCount(rest, sd, p) + (IF old.side = sd /\ old.price = p THEN 1 ELSE 0)
  BY <1>1, <1>4, <1>10, RestingWithout
<1>19. \A sd, p : /\ Outstanding(b.orders, sd, p) \in Nat /\ Outstanding(rest, sd, p) \in Nat
                  /\ RestingCount(b.orders, sd, p) \in Nat /\ RestingCount(rest, sd, p) \in Nat
                  /\ RestingCount(orders, sd, p) \in Nat
  BY <1>1, <1>14, <1>15, UnitsFinite, AtFinite
<1>20. \A p \in Prices : /\ Volume(levels, p) = Outstanding(b.orders, old.side, p)
                         /\ OrderCount(levels, p) =< RestingCount(b.orders, old.side, p)
                         /\ OrderCount(levels, p) \in Nat /\ OrderCount(lv, p) \in Nat
  BY <1>3, <1>7, <1>8, <1>13, VolumeType DEF ExactBook
<1>21. old.price \in DOMAIN levels
  <2>1. Outstanding(b.orders, old.side, old.price) =
          Outstanding(rest, old.side, old.price) + old.shares
    BY <1>3, <1>4, <1>14, <1>19
  <2>2. Volume(levels, old.price) # 0
    BY <1>3, <1>19, <1>20, <2>1
  <2>3. QED
    BY <2>2 DEF Volume
<1>22. IF old.price = price
       THEN \A p : OrderCount(lv, p) =< OrderCount(levels, p)
       ELSE /\ \A p : p \notin {old.price, price} => OrderCount(lv, p) = OrderCount(levels, p)
            /\ OrderCount(lv, old.price) =< saturating_sub(OrderCount(levels, old.price), 1)
            /\ OrderCount(lv, price) = OrderCount(levels, price) + 1
  BY <1>3, <1>8, <1>9, <1>21, ReplaceCount
<1>23. ASSUME NEW p \in Prices
       PROVE  Volume(lv, p) = Outstanding(orders, old.side, p)
  <2>1. PICK v \in Nat : v = Outstanding(b.orders, old.side, p) /\ v = Volume(levels, p)
    BY <1>19, <1>20
  <2>2. CASE p = old.price
    <3>1. /\ Outstanding(rest, old.side, p) = v - old.shares
          /\ Outstanding(rest, old.side, p) \in Nat
      <4>1. Outstanding(b.orders, old.side, p) = Outstanding(rest, old.side, p) + old.shares
        <5>1. Own(b.orders, r, old.side, p) = old.shares
          BY <1>4, <2>2, Zenon
        <5>2. Outstanding(rest, old.side, p) = Outstanding(b.orders, old.side, p) - old.shares
          BY <1>14, <5>1, Zenon
        <5>3. PICK x \in Nat, y \in Nat :
                x = Outstanding(rest, old.side, p) /\ y = Outstanding(b.orders, old.side, p)
          BY <1>19
        <5>4. x = y - old.shares
          BY <5>2, <5>3
        <5>5. y = x + old.shares
          BY <1>3, <5>4
        <5>6. QED
          BY <5>3, <5>5
      <4>2. PICK x \in Nat : x = Outstanding(rest, old.side, p)
        BY <1>19
      <4>3. v = x + old.shares
        BY <2>1, <4>1, <4>2
      <4>4. x = v - old.shares
        BY <1>3, <4>3
      <4>5. QED
        BY <4>2, <4>4
    <3>2. v >= old.shares
      BY <1>3, <3>1
    <3>3. saturating_sub(v, old.shares) = v - old.shares
      BY <3>2 DEF saturating_sub
    <3>4. QED
      BY <1>3, <1>13, <1>15, <1>16, <2>1, <2>2, <3>1, <3>3
  <2>3. CASE p # old.price
    <3>1. Outstanding(rest, old.side, p) = v
      <4>1. Own(b.orders, r, old.side, p) = 0
        BY <1>4, <2>3
      <4>2. Outstanding(rest, old.side, p) = v - Own(b.orders, r, old.side, p)
        BY <1>14, <2>1
      <4>3. QED
        BY <4>1, <4>2
    <3>2. QED
      BY <1>13, <1>15, <1>16, <2>1, <2>3, <3>1
  <2>4. QED
    BY <2>2, <2>3
<1>24. ASSUME NEW p \in Prices
       PROVE  OrderCount(lv, p) =< RestingCount(orders, old.side, p)
  <2>1. CASE old.price = price
    <3>1. RestingCount(orders, old.side, p) = RestingCount(b.orders, old.side, p)
      BY <1>17, <1>18, <2>1
    <3>2. OrderCount(lv, p) =< OrderCount(levels, p)
      BY <1>22, <2>1
    <3>3. QED
      BY <1>19, <1>20, <3>1, <3>2
  <2>2. CASE old.price # price /\ p = old.price
    <3>1. RestingCount(orders, old.side, p) = RestingCount(b.orders, old.side, p) - 1
      BY <1>17, <1>18, <1>19, <2>2
    <3>2. OrderCount(lv, p) =< saturating_sub(OrderCount(levels, p), 1)
      BY <1>22, <2>2
    <3>3. QED
      BY <1>19, <1>20, <3>1, <3>2 DEF saturating_sub
  <2>3. CASE old.price # price /\ p = price
    <3>1. RestingCount(orders, old.side, p) = RestingCount(b.orders, old.side, p) + 1
      BY <1>17, <1>18, <1>19, <2>3
    <3>2. OrderCount(lv, p) = OrderCount(levels, p) + 1
      BY <1>22, <2>3
    <3>3. QED
      BY <1>19, <1>20, <3>1, <3>2
  <2>4. CASE old.price # price /\ p # old.price /\ p # price
    <3>1. RestingCount(orders, old.side, p) = RestingCount(b.orders, old.side, p)
      BY <1>17, <1>18, <1>19, <2>4
    <3>2. OrderCount(lv, p) = OrderCount(levels, p)
      BY <1>22, <2>4
    <3>3. QED
      BY <1>20, <3>1, <3>2
  <2>5. QED
    BY <2>1, <2>2, <2>3, <2>4
<1>25. ExactLevels(lv, orders, old.side)
  BY <1>13, <1>23, <1>24 DEF ExactLevels
<1>26. ASSUME NEW sd \in Side \ {old.side}, NEW p \in Prices
       PROVE  /\ Outstanding(orders, sd, p) = Outstanding(b.orders, sd, p)
              /\ RestingCount(orders, sd, p) = RestingCount(b.orders, sd, p)
  BY <1>4, <1>14, <1>15, <1>16, <1>17, <1>18, <1>19
<1>27. \A x \in DOMAIN orders : orders[x].shares > 0
  <2>1. \A x \in DOMAIN orders :
          \/ x = new_r /\ orders[x] = info
          \/ x \in DOMAIN b.orders /\ orders[x] = b.orders[x]
    BY <1>10, <1>11 DEF Put, Without, Restrict
  <2>2. info.shares > 0
    BY <1>6
  <2>3. QED
    BY <1>1, <2>1, <2>2
<1>28. ExactBook(new) /\ new.orders = orders
  BY <1>3, <1>12, <1>15, <1>25, <1>26, <1>27, ExactSide
<1>29. QED
  BY <1>2, <1>5, <1>10, <1>11, <1>28

-----------------------------------------------------------------------------
(* The order books on an ITCH feed. *)

\* The inductive invariant.  Inv is needed for the updates and the types; that
\* every book is exact and the index complete are the two facts that sustain
\* each other: an event reaches the book of its order only if the index is
\* complete, and the index is only told to forget an order that the book dropped.
FeedInv ==
  /\ Inv
  /\ \A s \in Stocks : ExactBook(books[s])
  /\ IndexComplete

LEMMA FeedInit == Init => FeedInv
<1> SUFFICES ASSUME Init PROVE FeedInv
  OBVIOUS
<1>1. \A s \in Stocks : books[s] = NewBook
  BY DEF Init
<1>2. ExactBook(NewBook)
  <2>1. /\ DOMAIN NewBook.orders = {}
        /\ \A sd \in Side : DOMAIN NewBook.levels[sd] = {}
    BY DEF NewBook, EmptyMap
  <2>2. ASSUME NEW sd \in Side, NEW p \in Prices
        PROVE  /\ Volume(NewBook.levels[sd], p) = Outstanding(NewBook.orders, sd, p)
               /\ OrderCount(NewBook.levels[sd], p) =< RestingCount(NewBook.orders, sd, p)
    <3>1. At(NewBook.orders, sd, p) = {} /\ Units(NewBook.orders, sd, p) = {}
      BY <2>1 DEF Units, At
    <3>2. Volume(NewBook.levels[sd], p) = 0 /\ OrderCount(NewBook.levels[sd], p) = 0
      BY <2>1 DEF Volume, OrderCount
    <3>3. Outstanding(NewBook.orders, sd, p) = 0 /\ RestingCount(NewBook.orders, sd, p) = 0
      BY <3>1, FS_EmptySet DEF Outstanding, RestingCount
    <3>4. QED
      BY <3>2, <3>3
  <2>3. QED
    BY <2>1, <2>2, NewBookGood DEF ExactBook, NoneEmpty
<1>3. IndexComplete
  BY <1>1 DEF Init, IndexComplete, Known, NewBook, EmptyMap
<1>4. QED
  BY <1>1, <1>2, <1>3, InitInv DEF FeedInv

\* What an event does on a feed, as far as the orders and the index go.
LEMMA FeedApply ==
  ASSUME FeedInv, NEW s \in Stocks, NEW after, ExactBook(after), Apply(s, after)
  PROVE  /\ \A t \in Stocks : ExactBook(books'[t])
         /\ books'[s] = after
         /\ \A t \in Stocks \ {s} : books'[t] = books[t]
<1>1. books'[s] = after /\ \A t \in Stocks \ {s} : books'[t] = books[t]
  BY ApplyInv DEF FeedInv, ExactBook
<1>2. QED
  BY <1>1 DEF FeedInv

LEMMA FeedAddOrder ==
  ASSUME FeedInv, NEW r \in Refs \ Live, NEW s \in Stocks, NEW sd \in Side,
         NEW n \in Nat \ {0}, NEW p \in Prices, AddOrder(r, s, sd, n, p)
  PROVE  /\ (\A t \in Stocks : ExactBook(books'[t])) /\ IndexComplete'
         /\ \A t \in Stocks \ {s} : books'[t] = books[t]
         /\ books'[s].orders =
              Put(books[s].orders, r, [side |-> sd, price |-> p, shares |-> n])
<1>1. \A t \in Stocks : r \notin DOMAIN books[t].orders
  BY DEF Live
<1>2. PICK after : after = on_add(books[s], r, sd, n, p)
  OBVIOUS
<1>3. /\ ExactBook(after)
      /\ after.orders = Put(books[s].orders, r, [side |-> sd, price |-> p, shares |-> n])
  BY <1>1, <1>2, FeedAdd DEF FeedInv
<1>4. Apply(s, after) /\ order_to_stock' = Put(order_to_stock, r, s)
  BY <1>2 DEF AddOrder
<1>5. /\ \A t \in Stocks : ExactBook(books'[t])
      /\ books'[s] = after
      /\ \A t \in Stocks \ {s} : books'[t] = books[t]
  BY <1>3, <1>4, FeedApply
<1>6. DOMAIN after.orders = DOMAIN books[s].orders \cup {r}
  BY <1>3 DEF Put
<1>7. /\ DOMAIN order_to_stock' = DOMAIN order_to_stock \cup {r} /\ order_to_stock'[r] = s
      /\ \A x \in DOMAIN order_to_stock \ {r} : order_to_stock'[x] = order_to_stock[x]
  BY <1>4 DEF Put
<1>8. ASSUME NEW t \in Stocks, NEW x \in Refs
      PROVE  x \in DOMAIN books'[t].orders <=>
               x \in DOMAIN order_to_stock' /\ order_to_stock'[x] = t
  <2>1. x \in DOMAIN books[t].orders <=> x \in DOMAIN order_to_stock /\ order_to_stock[x] = t
    BY DEF FeedInv, IndexComplete, Known
  <2>2. QED
    BY <1>1, <1>5, <1>6, <1>7, <2>1
<1>9. IndexComplete'
  BY <1>8 DEF IndexComplete, Known
<1>10. QED
  BY <1>3, <1>5, <1>9

\* The book of an order, and what the index has of it.
LEMMA FeedFound ==
  ASSUME FeedInv, NEW r \in Refs
  PROVE  /\ Known(r) => order_to_stock[r] \in Stocks
         /\ \A s \in Stocks :
              r \in DOMAIN books[s].orders <=> Known(r) /\ order_to_stock[r] = s
BY DEF FeedInv, Inv, IsMap, IndexComplete, Known

LEMMA FeedOrderReduced ==
  ASSUME FeedInv, NEW r \in Refs, NEW n \in Nat, OrderReduced(r, n)
  PROVE  /\ (\A t \in Stocks : ExactBook(books'[t])) /\ IndexComplete'
         /\ \/ books' = books /\ (r \notin Live \/ n = 0)
            \/ \E s \in Stocks :
                 /\ r \in DOMAIN books[s].orders /\ n > 0
                 /\ \A t \in Stocks \ {s} : books'[t] = books[t]
                 /\ books'[s].orders =
                      IF n < books[s].orders[r].shares
                      THEN Put(books[s].orders, r, [books[s].orders[r] EXCEPT !.shares = @ - n])
                      ELSE Without(books[s].orders, r)
<1>1. CASE ~Known(r)
  <2>1. r \notin Live
    BY <1>1, FeedFound DEF Live
  <2>2. QED
    BY <1>1, <2>1 DEF OrderReduced, Ignored, FeedInv, IndexComplete, Known
<1>2. CASE Known(r)
  <2>1. PICK s \in Stocks : s = order_to_stock[r] /\ r \in DOMAIN books[s].orders
    BY <1>2, FeedFound
  <2>2. PICK b : b = books[s]
    OBVIOUS
  <2>3. PICK after : after = on_reduce(b, r, n)
    OBVIOUS
  <2>4. ExactBook(b) /\ r \in DOMAIN b.orders
    BY <2>1, <2>2 DEF FeedInv
  <2>5. /\ ExactBook(after)
        /\ \/ /\ n = 0 /\ after = b
           \/ /\ n > 0 /\ n < b.orders[r].shares
              /\ after.orders = Put(b.orders, r, [b.orders[r] EXCEPT !.shares = @ - n])
           \/ /\ n > 0 /\ n >= b.orders[r].shares
              /\ after.orders = Without(b.orders, r)
    BY <2>3, <2>4, FeedReduce
  <2>6. /\ Apply(s, after)
        /\ order_to_stock' = IF r \notin DOMAIN after.orders \/ after.orders[r].shares = 0
                             THEN Without(order_to_stock, r) ELSE order_to_stock
    BY <1>2, <2>1, <2>2, <2>3 DEF OrderReduced
  <2>7. /\ \A t \in Stocks : ExactBook(books'[t])
        /\ books'[s] = after
        /\ \A t \in Stocks \ {s} : books'[t] = books[t]
    BY <2>5, <2>6, FeedApply
  <2>8. order_to_stock' = IF r \notin DOMAIN after.orders
                          THEN Without(order_to_stock, r) ELSE order_to_stock
    <3>1. r \in DOMAIN after.orders => after.orders[r].shares > 0
      BY <2>5 DEF ExactBook
    <3>2. r \in DOMAIN after.orders => after.orders[r].shares # 0
      BY <3>1
    <3>3. QED
      BY <2>6, <3>2
  <2>9. \A x : x # r => (x \in DOMAIN after.orders <=> x \in DOMAIN b.orders)
    BY <2>5 DEF Put, Without, Restrict
  <2>10. ASSUME NEW t \in Stocks, NEW x \in Refs
         PROVE  x \in DOMAIN books'[t].orders <=>
                  x \in DOMAIN order_to_stock' /\ order_to_stock'[x] = t
    <3>1. x \in DOMAIN books[t].orders <=> x \in DOMAIN order_to_stock /\ order_to_stock[x] = t
      BY DEF FeedInv, IndexComplete, Known
    <3>2. x # r => /\ x \in DOMAIN order_to_stock' <=> x \in DOMAIN order_to_stock
                   /\ x \in DOMAIN order_to_stock' => order_to_stock'[x] = order_to_stock[x]
      BY <2>8 DEF Without, Restrict
    <3>3. CASE x # r
      BY <2>2, <2>7, <2>9, <3>1, <3>2, <3>3
    <3>4. CASE x = r /\ r \in DOMAIN after.orders
      BY <1>2, <2>1, <2>2, <2>7, <2>8, <3>1, <3>4 DEF Known
    <3>5. CASE x = r /\ r \notin DOMAIN after.orders
      <4>1. x \notin DOMAIN order_to_stock'
        BY <2>8, <3>5 DEF Without, Restrict
      <4>2. x \notin DOMAIN books'[t].orders
        BY <1>2, <2>1, <2>7, <3>1, <3>5
      <4>3. QED
        BY <4>1, <4>2
    <3>6. QED
      BY <3>3, <3>4, <3>5
  <2>11. IndexComplete'
    BY <2>10 DEF IndexComplete, Known
  <2>12. CASE n = 0 /\ after = b
    <3>1. books' = books
      BY <2>2, <2>6, <2>12 DEF Apply, FeedInv, Inv
    <3>2. QED
      BY <2>7, <2>11, <2>12, <3>1
  <2>13. CASE n > 0 /\ n < b.orders[r].shares
    <3>1. n # 0 /\ ~(n >= b.orders[r].shares)
      <4>1. b.orders[r].shares \in Nat
        BY <2>4, BookParts DEF ExactBook, GoodBook, IsOrders, IsMap, OrderInfo
      <4>2. QED
        BY <2>13, <4>1
    <3>2. after.orders = Put(b.orders, r, [b.orders[r] EXCEPT !.shares = @ - n])
      BY <2>5, <3>1, Zenon
    <3>3. QED
      BY <2>1, <2>2, <2>7, <2>11, <2>13, <3>2
  <2>14. CASE n > 0 /\ n >= b.orders[r].shares /\ after.orders = Without(b.orders, r)
    <3>1. b.orders[r].shares \in Nat
      BY <2>4, BookParts DEF ExactBook, GoodBook, IsOrders, IsMap, OrderInfo
    <3>2. ~(n < b.orders[r].shares)
      BY <2>14, <3>1
    <3>3. QED
      BY <2>1, <2>2, <2>7, <2>11, <2>14, <3>2
  <2>15. QED
    BY <2>5, <2>12, <2>13, <2>14
<1>3. QED
  BY <1>1, <1>2

\* A delete is routed by the books themselves; only one of them has the order.
LEMMA FeedOrderDelete ==
  ASSUME FeedInv, NEW r \in Refs, OrderDelete(r)
  PROVE  /\ (\A t \in Stocks : ExactBook(books'[t])) /\ IndexComplete'
         /\ \/ books' = books /\ r \notin Live
            \/ \E s \in Stocks :
                 /\ r \in DOMAIN books[s].orders
                 /\ \A t \in Stocks \ {s} : books'[t] = books[t]
                 /\ books'[s].orders = Without(books[s].orders, r)
<1>1. /\ DOMAIN order_to_stock' = DOMAIN order_to_stock \ {r}
      /\ \A x \in DOMAIN order_to_stock \ {r} : order_to_stock'[x] = order_to_stock[x]
  BY DEF OrderDelete, Without, Restrict
<1>2. \A t \in Stocks, x \in Refs :
        x \in DOMAIN books[t].orders <=> x \in DOMAIN order_to_stock /\ order_to_stock[x] = t
  BY DEF FeedInv, IndexComplete, Known
<1>3. CASE Ignored /\ \A s \in Stocks : r \notin DOMAIN books[s].orders
  <2>1. books' = books
    BY <1>3 DEF Ignored
  <2>2. IndexComplete'
    BY <1>1, <1>2, <1>3, <2>1 DEF IndexComplete, Known
  <2>3. r \notin Live
    BY <1>3 DEF Live
  <2>4. QED
    BY <2>1, <2>2, <2>3 DEF FeedInv
<1>4. ASSUME NEW s \in Stocks, r \in DOMAIN books[s].orders,
             Apply(s, on_delete(books[s], r))
      PROVE  /\ (\A t \in Stocks : ExactBook(books'[t])) /\ IndexComplete'
             /\ \A t \in Stocks \ {s} : books'[t] = books[t]
             /\ books'[s].orders = Without(books[s].orders, r)
  <2>1. PICK after : after = on_delete(books[s], r)
    OBVIOUS
  <2>2. ExactBook(after) /\ after.orders = Without(books[s].orders, r)
    BY <1>4, <2>1, FeedDelete DEF FeedInv
  <2>3. /\ \A t \in Stocks : ExactBook(books'[t])
        /\ books'[s] = after
        /\ \A t \in Stocks \ {s} : books'[t] = books[t]
    BY <1>4, <2>1, <2>2, FeedApply
  <2>4. DOMAIN after.orders = DOMAIN books[s].orders \ {r}
    BY <2>2 DEF Without, Restrict
  <2>5. \A t \in Stocks \ {s} : r \notin DOMAIN books[t].orders
    BY <1>2, <1>4
  <2>6. ASSUME NEW t \in Stocks, NEW x \in Refs
        PROVE  x \in DOMAIN books'[t].orders <=>
                 x \in DOMAIN order_to_stock' /\ order_to_stock'[x] = t
    BY <1>1, <1>2, <2>3, <2>4, <2>5
  <2>7. IndexComplete'
    BY <2>6 DEF IndexComplete, Known
  <2>8. QED
    BY <2>2, <2>3, <2>7
<1>5. QED
  BY <1>3, <1>4 DEF OrderDelete

LEMMA FeedOrderReplace ==
  ASSUME FeedInv, NEW r \in Refs, NEW new_r \in Refs \ Live, NEW n \in Nat \ {0},
         NEW p \in Prices, OrderReplace(r, new_r, n, p)
  PROVE  /\ (\A t \in Stocks : ExactBook(books'[t])) /\ IndexComplete'
         /\ \/ books' = books /\ r \notin Live
            \/ \E s \in Stocks :
                 /\ r \in DOMAIN books[s].orders
                 /\ \A t \in Stocks \ {s} : books'[t] = books[t]
                 /\ books'[s].orders = Put(Without(books[s].orders, r), new_r,
                      [side |-> books[s].orders[r].side, price |-> p, shares |-> n])
<1>1. CASE ~Known(r)
  <2>1. r \notin Live
    BY <1>1, FeedFound DEF Live
  <2>2. QED
    BY <1>1, <2>1 DEF OrderReplace, Ignored, FeedInv, IndexComplete, Known
<1>2. CASE Known(r)
  <2>1. PICK s \in Stocks : s = order_to_stock[r] /\ r \in DOMAIN books[s].orders
    BY <1>2, FeedFound
  <2>2. \A t \in Stocks : new_r \notin DOMAIN books[t].orders
    BY DEF Live
  <2>3. PICK after : after = on_replace(books[s], r, new_r, n, p)
    OBVIOUS
  <2>4. /\ ExactBook(after)
        /\ after.orders = Put(Without(books[s].orders, r), new_r,
             [side |-> books[s].orders[r].side, price |-> p, shares |-> n])
    BY <2>1, <2>2, <2>3, FeedReplace DEF FeedInv
  <2>5. /\ Apply(s, after)
        /\ order_to_stock' = Put(Without(order_to_stock, r), new_r, s)
    BY <1>2, <2>1, <2>3 DEF OrderReplace
  <2>6. /\ \A t \in Stocks : ExactBook(books'[t])
        /\ books'[s] = after
        /\ \A t \in Stocks \ {s} : books'[t] = books[t]
    BY <2>4, <2>5, FeedApply
  <2>7. DOMAIN after.orders = (DOMAIN books[s].orders \ {r}) \cup {new_r}
    BY <2>4 DEF Put, Without, Restrict
  <2>8. /\ DOMAIN order_to_stock' = (DOMAIN order_to_stock \ {r}) \cup {new_r}
        /\ order_to_stock'[new_r] = s
        /\ \A x \in DOMAIN order_to_stock \ {r, new_r} : order_to_stock'[x] = order_to_stock[x]
    BY <2>5 DEF Put, Without, Restrict
  <2>9. \A t \in Stocks, x \in Refs :
          x \in DOMAIN books[t].orders <=> x \in DOMAIN order_to_stock /\ order_to_stock[x] = t
    BY DEF FeedInv, IndexComplete, Known
  <2>10. ASSUME NEW t \in Stocks, NEW x \in Refs
         PROVE  x \in DOMAIN books'[t].orders <=>
                  x \in DOMAIN order_to_stock' /\ order_to_stock'[x] = t
    <3>1. CASE x = new_r
      BY <2>2, <2>6, <2>7, <2>8, <3>1
    <3>2. CASE x # new_r
      BY <2>1, <2>6, <2>7, <2>8, <2>9, <3>2
    <3>3. QED
      BY <3>1, <3>2
  <2>11. IndexComplete'
    BY <2>10 DEF IndexComplete, Known
  <2>12. QED
    BY <2>1, <2>4, <2>6, <2>11
<1>3. QED
  BY <1>1, <1>2

\* Whatever the feed sends, the general specification allows.
LEMMA FeedIsNext == FeedNext => Next
BY DEF FeedNext, Next

LEMMA FeedStep == FeedInv /\ [FeedNext]_vars => FeedInv'
<1> SUFFICES ASSUME FeedInv, [FeedNext]_vars PROVE FeedInv'
  OBVIOUS
<1>1. Shares \subseteq Nat
  BY BookAssumption DEF BookAssumption
<1>2. Inv'
  BY FeedIsNext, NextInv DEF FeedInv
<1>3. ASSUME NEW r \in Refs \ Live, NEW s \in Stocks, NEW sd \in Side, NEW n \in Shares \ {0},
             NEW p \in Prices, AddOrder(r, s, sd, n, p)
      PROVE  FeedInv'
  BY <1>1, <1>2, <1>3, FeedAddOrder DEF FeedInv
<1>4. ASSUME NEW r \in Refs, NEW n \in Shares, OrderReduced(r, n)
      PROVE  FeedInv'
  BY <1>1, <1>2, <1>4, FeedOrderReduced DEF FeedInv
<1>5. ASSUME NEW r \in Refs, OrderDelete(r)
      PROVE  FeedInv'
  BY <1>2, <1>5, FeedOrderDelete DEF FeedInv
<1>6. ASSUME NEW r \in Refs, NEW new_r \in Refs \ Live, NEW n \in Shares \ {0},
             NEW p \in Prices, OrderReplace(r, new_r, n, p)
      PROVE  FeedInv'
  BY <1>1, <1>2, <1>6, FeedOrderReplace DEF FeedInv
<1>7. CASE OtherEvent
  <2>1. books' = books /\ order_to_stock' = order_to_stock
    BY <1>7 DEF OtherEvent, Ignored
  <2>2. QED
    BY <1>2, <2>1 DEF FeedInv, IndexComplete, Known
<1>8. CASE UNCHANGED vars
  <2>1. books' = books /\ order_to_stock' = order_to_stock
    BY <1>8 DEF vars
  <2>2. QED
    BY <1>2, <2>1 DEF FeedInv, IndexComplete, Known
<1>9. QED
  BY <1>3, <1>4, <1>5, <1>6, <1>7, <1>8 DEF FeedNext

LEMMA FeedInvHolds == FeedSpec => []FeedInv
<1>1. Init => FeedInv
  BY FeedInit
<1>2. FeedInv /\ [FeedNext]_vars => FeedInv'
  BY FeedStep
<1>3. QED
  BY <1>1, <1>2, PTL DEF FeedSpec

\* On an ITCH feed the index knows exactly the resting orders and where each one
\* rests, so no reduction or replacement is dropped and a delete has one target.
THEOREM IndexIsComplete == FeedSpec => []IndexComplete
BY FeedInvHolds, PTL DEF FeedInv

LEMMA ExactIsConserved == FeedInv => VolumeConserved
<1>1. SUFFICES ASSUME FeedInv, NEW s \in Stocks, NEW sd \in Side, NEW p \in Prices
               PROVE  /\ Volume(books[s].levels[sd], p) = Outstanding(books[s].orders, sd, p)
                      /\ p \in DOMAIN books[s].levels[sd] => At(books[s].orders, sd, p) # {}
  BY DEF VolumeConserved
<1>2. Volume(books[s].levels[sd], p) = Outstanding(books[s].orders, sd, p)
  BY <1>1 DEF FeedInv, ExactBook
<1>3. ASSUME p \in DOMAIN books[s].levels[sd], At(books[s].orders, sd, p) = {}
      PROVE  FALSE
  <2>1. Volume(books[s].levels[sd], p) > 0
    BY <1>1, <1>3 DEF FeedInv, ExactBook, NoneEmpty, Volume
  <2>2. Units(books[s].orders, sd, p) = {}
    BY <1>3 DEF Units
  <2>3. Outstanding(books[s].orders, sd, p) = 0
    BY <2>2, FS_EmptySet DEF Outstanding
  <2>4. QED
    BY <1>2, <2>1, <2>3
<1>4. QED
  BY <1>2, <1>3

\* On an ITCH feed the volume of a level is the sum of its orders, and there is
\* no level without an order: the saturating subtractions never saturate.
THEOREM VolumeIsConserved == FeedSpec => []VolumeConserved
BY ExactIsConserved, FeedInvHolds, PTL

\* On an ITCH feed the order count of a level never exceeds its orders, whatever
\* partial executions take off it.
THEOREM CountIsBounded == FeedSpec => []CountBounded
<1>1. FeedInv => CountBounded
  <2>1. SUFFICES ASSUME FeedInv, NEW s \in Stocks, NEW sd \in Side,
                        NEW p \in DOMAIN books[s].levels[sd]
                 PROVE  books[s].levels[sd][p].order_count
                          =< Cardinality(At(books[s].orders, sd, p))
    BY DEF CountBounded
  <2>2. ExactBook(books[s])
    BY <2>1 DEF FeedInv
  <2>3. p \in Prices
    BY <2>1, <2>2, BookParts DEF ExactBook, GoodBook, IsSides, IsLevels, IsMap
  <2>4. QED
    BY <2>1, <2>2, <2>3 DEF ExactBook, OrderCount, RestingCount
<1>2. QED
  BY <1>1, FeedInvHolds, PTL

-----------------------------------------------------------------------------
(* The operators of the ledger are those of the books. *)

LEMMA SameOutstanding ==
  ASSUME NEW o, NEW sd, NEW p
  PROVE  Ledger!Outstanding(o, sd, p) = Outstanding(o, sd, p)
<1>1. Ledger!At(o, sd, p) = At(o, sd, p)
  BY DEF Ledger!At, At
<1>2. Ledger!Units(o, sd, p) = Units(o, sd, p)
  BY <1>1 DEF Ledger!Units, Units
<1>3. \A S : Ledger!Cardinality(S) = Cardinality(S)
  BY DEF Ledger!Cardinality, Cardinality
<1>4. QED
  BY <1>2, <1>3 DEF Ledger!Outstanding, Outstanding

LEMMA SameBest ==
  ASSUME NEW S
  PROVE  Ledger!Max(S) = Max(S) /\ Ledger!Min(S) = Min(S)
BY DEF Ledger!Max, Max, Ledger!Min, Min
-----------------------------------------------------------------------------
(* The live orders and the quotes. *)

\* The order of the ledger that rests in the book of s under the reference r.
OrderAt(s, r) == [stock  |-> s,
                  side   |-> books[s].orders[r].side,
                  price  |-> books[s].orders[r].price,
                  shares |-> books[s].orders[r].shares]

\* The live orders are those of the books, each in one book.
LiveExact ==
  /\ LiveOrders = [r \in Live |-> LiveOrders[r]]
  /\ \A s \in Stocks : \A r \in DOMAIN books[s].orders : r \in Live /\ LiveOrders[r] = OrderAt(s, r)
  /\ \A r \in Live : \E s \in Stocks : r \in DOMAIN books[s].orders

QuoteCurrent == \A s \in Stocks : books[s].last_snapshot = Ledger!QuoteOf(LiveOrders, s)

LEMMA LiveIsExact == FeedInv => LiveExact
<1> SUFFICES ASSUME FeedInv PROVE LiveExact
  OBVIOUS
<1>1. LiveOrders = [r \in Live |-> LiveOrders[r]]
  BY DEF LiveOrders
<1>2. \A r \in Live : \E s \in Stocks : r \in DOMAIN books[s].orders
  BY DEF Live
<1>3. ASSUME NEW s \in Stocks, NEW r \in DOMAIN books[s].orders
      PROVE  r \in Live /\ LiveOrders[r] = OrderAt(s, r)
  <2>1. r \in Live
    BY DEF Live
  <2>2. r \in Refs
    BY BookParts DEF FeedInv, ExactBook, GoodBook, IsOrders, IsMap
  <2>3. \A t \in Stocks : r \in DOMAIN books[t].orders => t = s
    BY <2>2 DEF FeedInv, IndexComplete
  <2>4. (CHOOSE t \in Stocks : r \in DOMAIN books[t].orders) = s
    BY <2>3
  <2>5. QED
    BY <2>1, <2>4 DEF LiveOrders, OrderAt
<1>4. QED
  BY <1>1, <1>2, <1>3 DEF LiveExact

\* The ledger counts the same shares as the book.
LEMMA SameShares ==
  ASSUME LiveExact, NEW s \in Stocks, NEW sd, NEW p
  PROVE  Ledger!Outstanding(Ledger!OrdersOf(LiveOrders, s), sd, p)
           = Outstanding(books[s].orders, sd, p)
<1>1. PICK o : o = Ledger!OrdersOf(LiveOrders, s)
  OBVIOUS
<1>2. DOMAIN o = {r \in Live : LiveOrders[r].stock = s}
      /\ \A r \in DOMAIN o : o[r] = LiveOrders[r]
  <2>1. DOMAIN LiveOrders = Live
    BY DEF LiveOrders
  <2>2. QED
    BY <1>1, <2>1 DEF Ledger!OrdersOf, Ledger!Restrict
<1>3. ASSUME NEW t \in Stocks, NEW r \in DOMAIN books[t].orders
      PROVE  /\ r \in Live /\ LiveOrders[r].stock = t
             /\ LiveOrders[r].side = books[t].orders[r].side
             /\ LiveOrders[r].price = books[t].orders[r].price
             /\ LiveOrders[r].shares = books[t].orders[r].shares
  <2>1. r \in Live /\ LiveOrders[r] = OrderAt(t, r)
    BY Zenon DEF LiveExact
  <2>2. QED
    BY <2>1 DEF OrderAt
<1>4. DOMAIN o = DOMAIN books[s].orders
  <2>1. \A r \in Live : \E t \in Stocks : r \in DOMAIN books[t].orders
    BY Zenon DEF LiveExact
  <2>2. QED
    BY <1>2, <1>3, <2>1
<1>5. \A r \in DOMAIN o : /\ o[r].side = books[s].orders[r].side
                          /\ o[r].price = books[s].orders[r].price
                          /\ o[r].shares = books[s].orders[r].shares
  BY <1>2, <1>3, <1>4
<1>6. At(o, sd, p) = At(books[s].orders, sd, p)
  BY <1>4, <1>5 DEF At
<1>7. \A r \in At(o, sd, p) : o[r].shares = books[s].orders[r].shares
  BY <1>5 DEF At
<1>8. Units(o, sd, p) = Units(books[s].orders, sd, p)
  BY <1>6, <1>7 DEF Units
<1>9. Outstanding(o, sd, p) = Outstanding(books[s].orders, sd, p)
  BY <1>8 DEF Outstanding
<1>10. QED
  BY <1>1, <1>9, SameOutstanding

\* The best price of a book is the one the ledger computes.
LEMMA SameBestPrice ==
  ASSUME FeedInv, NEW s \in Stocks, NEW sd \in Side
  PROVE  best_snapshot(books[s].levels[sd], sd) = Ledger!Best(LiveOrders, s, sd)
<1>1. LiveExact /\ ExactBook(books[s])
  BY LiveIsExact DEF FeedInv
<1>2. PICK levels : levels = books[s].levels[sd]
  OBVIOUS
<1>3. /\ IsLevels(levels) /\ NoneEmpty(levels)
      /\ \A p \in Prices : Volume(levels, p) = Outstanding(books[s].orders, sd, p)
  BY <1>1, <1>2, BookParts DEF ExactBook, GoodBook, IsSides
<1>4. \A p \in Prices : Volume(levels, p)
        = Ledger!Outstanding(Ledger!OrdersOf(LiveOrders, s), sd, p)
  BY <1>1, <1>3, SameShares
<1>5. DOMAIN levels \in SUBSET Prices
  BY <1>3 DEF IsLevels, IsMap
<1>6. DOMAIN levels = {p \in Prices : Volume(levels, p) > 0}
  BY <1>3, <1>5 DEF NoneEmpty, Volume
<1>7. DOMAIN levels = Ledger!Quoted(LiveOrders, s, sd)
  BY <1>4, <1>6 DEF Ledger!Quoted
<1>8. CASE DOMAIN levels = {}
  BY <1>2, <1>7, <1>8 DEF best_snapshot, Ledger!Best
<1>9. CASE DOMAIN levels # {}
  <2>1. PICK best : best = IF sd = "Buy" THEN Max(DOMAIN levels) ELSE Min(DOMAIN levels)
    OBVIOUS
  <2>2. best = Ledger!BestPrice(LiveOrders, s, sd)
    BY <1>7, <2>1, SameBest DEF Ledger!BestPrice
  <2>3. DOMAIN levels \in SUBSET Nat /\ IsFiniteSet(DOMAIN levels)
    BY <1>5, BookAssumption, FS_Subset DEF BookAssumption
  <2>4. Max(DOMAIN levels) \in DOMAIN levels
    BY <1>9, <2>3, GreatestOfFinite DEF Max
  <2>5. Min(DOMAIN levels) \in DOMAIN levels
    BY <1>9, <2>3, LeastNat DEF Min
  <2>6. best \in DOMAIN levels
    BY <2>1, <2>4, <2>5
  <2>7. levels[best].volume = Ledger!Outstanding(Ledger!OrdersOf(LiveOrders, s), sd, best)
    BY <1>4, <1>5, <2>6 DEF Volume
  <2>8. best_snapshot(levels, sd) = <<best, levels[best].volume>>
    BY <1>9, <2>1 DEF best_snapshot
  <2>9. Ledger!Best(LiveOrders, s, sd) =
          <<best, Ledger!Outstanding(Ledger!OrdersOf(LiveOrders, s), sd, best)>>
    BY <1>7, <1>9, <2>2 DEF Ledger!Best
  <2>10. QED
    BY <1>2, <2>7, <2>8, <2>9
<1>10. QED
  BY <1>8, <1>9

LEMMA QuotesAreCurrent == FeedInv => QuoteCurrent
<1> SUFFICES ASSUME FeedInv, NEW s \in Stocks
             PROVE  books[s].last_snapshot = Ledger!QuoteOf(LiveOrders, s)
  BY DEF QuoteCurrent
<1>1. books[s].last_snapshot = snapshot_bbo(books[s].levels)
  BY DEF FeedInv, ExactBook, GoodBook
<1>2. "Buy" \in Side /\ "Sell" \in Side
  BY DEF Side
<1>3. /\ best_snapshot(books[s].levels["Buy"], "Buy") = Ledger!Best(LiveOrders, s, "Buy")
      /\ best_snapshot(books[s].levels["Sell"], "Sell") = Ledger!Best(LiveOrders, s, "Sell")
  BY <1>2, SameBestPrice
<1>4. QED
  BY <1>1, <1>3 DEF snapshot_bbo, Ledger!QuoteOf

-----------------------------------------------------------------------------
(* The steps. *)

LEMMA LiveExactNext == FeedInv' => LiveExact'
BY LiveIsExact, PTL

LEMMA Publishes ==
  ASSUME FeedInv', NEW lv, LiveOrders' = lv
  PROVE  Ledger!Becomes(lv)
<1>1. QuoteCurrent'
  BY QuotesAreCurrent, PTL
<1>2. \A s \in Stocks : books'[s].last_snapshot = Ledger!QuoteOf(lv, s)
  BY <1>1 DEF QuoteCurrent
<1>3. QED
  BY <1>2 DEF Ledger!Becomes

LEMMA SilentStep ==
  ASSUME books' = books
  PROVE  UNCHANGED Ledger!ledger
<1>1. LiveOrders' = LiveOrders
  BY DEF LiveOrders, Live
<1>2. QED
  BY <1>1 DEF Ledger!ledger

\* How the live orders change when the book of s gets these orders: the others
\* stay, and so does every order of the book that is still the same.
LiveChange(s, orders) ==
  /\ DOMAIN LiveOrders = Live /\ LiveOrders' = [r \in Live' |-> LiveOrders'[r]]
  /\ \A r : r \in Live' <=> \/ r \in DOMAIN orders
                            \/ r \in Live /\ r \notin DOMAIN books[s].orders
  /\ \A r \in DOMAIN books[s].orders : r \in Live /\ LiveOrders[r] = OrderAt(s, r)
  /\ \A r \in DOMAIN orders :
       LiveOrders'[r] = [stock  |-> s,               side   |-> orders[r].side,
                         price  |-> orders[r].price, shares |-> orders[r].shares]
  /\ \A r \in Live : r \notin DOMAIN books[s].orders => r \notin DOMAIN orders
  /\ \A r \in Live \cap Live' :
       (r \in DOMAIN orders => orders[r] = books[s].orders[r]) => LiveOrders'[r] = LiveOrders[r]

LEMMA LiveNext ==
  ASSUME FeedInv, FeedInv', NEW s \in Stocks, NEW orders, books'[s].orders = orders,
         \A t \in Stocks \ {s} : books'[t] = books[t]
  PROVE  LiveChange(s, orders)
<1>1. LiveExact /\ LiveExact'
  BY LiveIsExact, LiveExactNext
<1>2. DOMAIN LiveOrders = Live /\ LiveOrders' = [r \in Live' |-> LiveOrders'[r]]
  <2>1. LiveOrders = [r \in Live |-> LiveOrders[r]]
    BY <1>1, Zenon DEF LiveExact
  <2>2. LiveOrders' = [r \in Live' |-> LiveOrders'[r]]
    BY <1>1, Zenon DEF LiveExact
  <2>3. QED
    BY <2>1, <2>2
<1>3. \A r \in DOMAIN books[s].orders : r \in Live /\ LiveOrders[r] = OrderAt(s, r)
  BY <1>1, Zenon DEF LiveExact
<1>4. ASSUME NEW r \in DOMAIN orders
      PROVE  /\ r \in Live'
             /\ LiveOrders'[r] = [stock  |-> s,               side   |-> orders[r].side,
                                  price  |-> orders[r].price, shares |-> orders[r].shares]
  <2>1. r \in DOMAIN books'[s].orders
    BY <1>4
  <2>2. r \in Live' /\ LiveOrders'[r] = OrderAt(s, r)'
    BY <1>1, <2>1, Zenon DEF LiveExact
  <2>3. QED
    BY <2>2 DEF OrderAt
<1>5. ASSUME NEW r, r \in Live, r \notin DOMAIN books[s].orders
      PROVE  /\ r \in Live' /\ r \notin DOMAIN orders
             /\ LiveOrders'[r] = LiveOrders[r]
  <2>1. PICK t \in Stocks : r \in DOMAIN books[t].orders
    BY <1>1, <1>5, Zenon DEF LiveExact
  <2>2. t # s /\ books'[t] = books[t]
    BY <1>5, <2>1
  <2>3. LiveOrders[r] = OrderAt(t, r)
    BY <1>1, <2>1, Zenon DEF LiveExact
  <2>4. r \in DOMAIN books'[t].orders
    BY <2>1, <2>2
  <2>5. r \in Live' /\ LiveOrders'[r] = OrderAt(t, r)'
    BY <1>1, <2>4, Zenon DEF LiveExact
  <2>6. OrderAt(t, r)' = OrderAt(t, r)
    BY <2>2 DEF OrderAt
  <2>7. r \notin DOMAIN orders
    <3>1. SUFFICES ASSUME r \in DOMAIN orders PROVE FALSE
      OBVIOUS
    <3>2. LiveOrders'[r].stock = s
      <4>1. LiveOrders'[r] = [stock  |-> s,               side   |-> orders[r].side,
                              price  |-> orders[r].price, shares |-> orders[r].shares]
        BY <1>4, <3>1, Zenon
      <4>2. QED
        BY <4>1
    <3>3. LiveOrders'[r].stock = t
      BY <2>5, <2>6 DEF OrderAt
    <3>4. QED
      BY <2>2, <3>2, <3>3
  <2>8. QED
    BY <2>3, <2>5, <2>6, <2>7
<1>6. ASSUME NEW r, r \in Live', r \notin DOMAIN orders
      PROVE  r \in Live /\ r \notin DOMAIN books[s].orders
  <2>1. PICK t \in Stocks : r \in DOMAIN books'[t].orders
    BY <1>1, <1>6, Zenon DEF LiveExact
  <2>2. t # s /\ books'[t] = books[t]
    BY <1>6, <2>1
  <2>3. r \in DOMAIN books[t].orders
    BY <2>1, <2>2
  <2>4. r \in Live /\ LiveOrders[r].stock = t
    <3>1. r \in Live /\ LiveOrders[r] = OrderAt(t, r)
      BY <1>1, <2>3, Zenon DEF LiveExact
    <3>2. QED
      BY <3>1 DEF OrderAt
  <2>5. ASSUME r \in DOMAIN books[s].orders
        PROVE  LiveOrders[r].stock = s
    <3>1. LiveOrders[r] = OrderAt(s, r)
      BY <1>3, <2>5, Zenon
    <3>2. QED
      BY <3>1 DEF OrderAt
  <2>6. QED
    BY <2>2, <2>4, <2>5
<1>7. ASSUME NEW r \in Live \cap Live', r \in DOMAIN orders => orders[r] = books[s].orders[r]
      PROVE  LiveOrders'[r] = LiveOrders[r]
  <2>1. CASE r \in DOMAIN books[s].orders
    <3>1. r \in DOMAIN orders
      BY <1>6, <2>1
    <3>2. LiveOrders'[r] = [stock  |-> s,               side   |-> orders[r].side,
                            price  |-> orders[r].price, shares |-> orders[r].shares]
      BY <1>4, <3>1, Zenon
    <3>3. LiveOrders[r] = OrderAt(s, r)
      BY <1>3, <2>1, Zenon
    <3>4. QED
      BY <1>7, <3>1, <3>2, <3>3 DEF OrderAt
  <2>2. CASE r \notin DOMAIN books[s].orders
    BY <1>5, <2>2
  <2>3. QED
    BY <2>1, <2>2
<1>8. \A r : r \in Live' <=> r \in DOMAIN orders \/ (r \in Live /\ r \notin DOMAIN books[s].orders)
  BY <1>4, <1>5, <1>6
<1>9. QED
  BY <1>2, <1>3, <1>4, <1>5, <1>7, <1>8 DEF LiveChange

\* Each event is a step of the ledger.
LEMMA AddEnters ==
  ASSUME FeedInv, FeedInv', NEW r \in Refs \ Live, NEW s \in Stocks, NEW sd \in Side,
         NEW n \in Shares \ {0}, NEW p \in Prices, AddOrder(r, s, sd, n, p)
  PROVE  Ledger!Enter(r, s, sd, n, p)
<1>1. n \in Nat \ {0}
  BY BookAssumption DEF BookAssumption
<1>2. PICK info : info = [side |-> sd, price |-> p, shares |-> n]
  OBVIOUS
<1>3. PICK order : order = [stock |-> s, side |-> sd, price |-> p, shares |-> n]
  OBVIOUS
<1>4. PICK orders : orders = Put(books[s].orders, r, info)
  OBVIOUS
<1>5. books'[s].orders = orders /\ \A t \in Stocks \ {s} : books'[t] = books[t]
  BY <1>1, <1>2, <1>4, FeedAddOrder
<1>6. LiveChange(s, orders)
  BY <1>5, LiveNext
<1>7. /\ DOMAIN orders = DOMAIN books[s].orders \cup {r} /\ orders[r] = info
      /\ \A x \in DOMAIN books[s].orders : x # r => orders[x] = books[s].orders[x]
  BY <1>4 DEF Put
<1>8. r \notin Live /\ r \notin DOMAIN LiveOrders
  BY <1>6 DEF LiveChange
<1>9. Live' = Live \cup {r}
  BY <1>6, <1>7 DEF LiveChange
<1>10. LiveOrders'[r] = order
  <2>1. LiveOrders'[r] = [stock  |-> s,               side   |-> orders[r].side,
                          price  |-> orders[r].price, shares |-> orders[r].shares]
    BY <1>6, <1>7 DEF LiveChange
  <2>2. QED
    BY <1>2, <1>3, <1>7, <2>1
<1>11. ASSUME NEW x \in Live
       PROVE  LiveOrders'[x] = LiveOrders[x]
  <2>1. x \in DOMAIN orders => orders[x] = books[s].orders[x]
    BY <1>7, <1>8
  <2>2. QED
    BY <1>6, <1>9, <2>1 DEF LiveChange
<1>12. PICK lv : lv = Ledger!Entered(LiveOrders, r, order)
  OBVIOUS
<1>13. LiveOrders' = lv
  <2>1. LiveOrders' = [x \in Live \cup {r} |-> LiveOrders'[x]]
    BY <1>6, <1>9 DEF LiveChange
  <2>2. lv = [x \in Live \cup {r} |-> IF x = r THEN order ELSE LiveOrders[x]]
    BY <1>6, <1>12 DEF Ledger!Entered, LiveChange
  <2>3. QED
    BY <1>8, <1>10, <1>11, <2>1, <2>2
<1>14. Ledger!Becomes(lv)
  BY <1>13, Publishes
<1>15. QED
  BY <1>3, <1>8, <1>12, <1>14 DEF Ledger!Enter, Ledger!Becomes

LEMMA RemovedOrder ==
  ASSUME FeedInv, FeedInv', NEW s \in Stocks, NEW r \in DOMAIN books[s].orders,
         \A t \in Stocks \ {s} : books'[t] = books[t],
         books'[s].orders = Without(books[s].orders, r)
  PROVE  r \in DOMAIN LiveOrders /\ Ledger!Becomes(Ledger!Removed(r))
<1>1. PICK orders : orders = Without(books[s].orders, r)
  OBVIOUS
<1>2. LiveChange(s, orders)
  BY <1>1, LiveNext
<1>3. /\ DOMAIN orders = DOMAIN books[s].orders \ {r}
      /\ \A x \in DOMAIN books[s].orders : x # r => orders[x] = books[s].orders[x]
  BY <1>1 DEF Without, Restrict
<1>4. r \in Live /\ r \in DOMAIN LiveOrders
  BY <1>2 DEF LiveChange
<1>5. Live' = Live \ {r}
  BY <1>2, <1>3 DEF LiveChange
<1>6. ASSUME NEW x \in Live \ {r}
      PROVE  LiveOrders'[x] = LiveOrders[x]
  <2>1. x \in DOMAIN orders => orders[x] = books[s].orders[x]
    BY <1>3
  <2>2. QED
    BY <1>2, <1>5, <2>1 DEF LiveChange
<1>7. LiveOrders' = Ledger!Removed(r)
  <2>1. LiveOrders' = [x \in Live \ {r} |-> LiveOrders'[x]]
    BY <1>2, <1>5 DEF LiveChange
  <2>2. Ledger!Removed(r) = [x \in Live \ {r} |-> LiveOrders[x]]
    BY <1>2 DEF Ledger!Removed, Ledger!Restrict, LiveChange
  <2>3. QED
    BY <1>6, <2>1, <2>2
<1>8. PICK lv : lv = Ledger!Removed(r)
  OBVIOUS
<1>9. Ledger!Becomes(lv)
  BY <1>7, <1>8, Publishes
<1>10. QED
  BY <1>4, <1>8, <1>9 DEF Ledger!Becomes

\* Some of the shares of an order are taken and it stays.
LEMMA ReducedOrder ==
  ASSUME FeedInv, FeedInv', NEW s \in Stocks, NEW r \in DOMAIN books[s].orders, NEW n \in Nat,
         \A t \in Stocks \ {s} : books'[t] = books[t],
         books'[s].orders =
           Put(books[s].orders, r, [books[s].orders[r] EXCEPT !.shares = @ - n])
  PROVE  /\ r \in DOMAIN LiveOrders
         /\ Ledger!Becomes([LiveOrders EXCEPT ![r].shares = @ - n])
<1>1. PICK info \in OrderInfo : info = books[s].orders[r]
  BY BookParts DEF FeedInv, ExactBook, GoodBook, IsOrders, IsMap
<1>2. PICK new : new = [info EXCEPT !.shares = @ - n]
  OBVIOUS
<1>3. new.side = info.side /\ new.price = info.price /\ new.shares = info.shares - n
  BY <1>2 DEF OrderInfo
<1>4. PICK orders : orders = Put(books[s].orders, r, new)
  OBVIOUS
<1>5. LiveChange(s, orders)
  BY <1>1, <1>2, <1>4, LiveNext
<1>6. /\ DOMAIN orders = DOMAIN books[s].orders /\ orders[r] = new
      /\ \A x \in DOMAIN books[s].orders : x # r => orders[x] = books[s].orders[x]
  BY <1>4 DEF Put
<1>7. r \in Live /\ r \in DOMAIN LiveOrders
  BY <1>5 DEF LiveChange
<1>8. Live' = Live
  BY <1>5, <1>6 DEF LiveChange
<1>9. LiveOrders[r] = [stock |-> s, side |-> info.side, price |-> info.price, shares |-> info.shares]
  BY <1>1, <1>5 DEF LiveChange, OrderAt
<1>10. LiveOrders'[r] = [LiveOrders[r] EXCEPT !.shares = @ - n]
  <2>1. LiveOrders'[r] = [stock  |-> s,               side   |-> orders[r].side,
                          price  |-> orders[r].price, shares |-> orders[r].shares]
    BY <1>5, <1>6 DEF LiveChange
  <2>2. LiveOrders'[r] = [stock |-> s, side |-> info.side, price |-> info.price,
                          shares |-> info.shares - n]
    BY <1>3, <1>6, <2>1
  <2>3. QED
    BY <1>9, <2>2
<1>11. ASSUME NEW x \in Live, x # r
       PROVE  LiveOrders'[x] = LiveOrders[x]
  <2>1. x \in DOMAIN orders => orders[x] = books[s].orders[x]
    BY <1>6, <1>11
  <2>2. QED
    BY <1>5, <1>8, <2>1 DEF LiveChange
<1>12. PICK lv : lv = [LiveOrders EXCEPT ![r].shares = @ - n]
  OBVIOUS
<1>13. LiveOrders' = lv
  <2>1. LiveOrders' = [x \in Live |-> LiveOrders'[x]]
    BY <1>5, <1>8 DEF LiveChange
  <2>2. lv = [x \in Live |-> IF x = r THEN [LiveOrders[r] EXCEPT !.shares = @ - n]
                             ELSE LiveOrders[x]]
    BY <1>5, <1>12 DEF LiveChange
  <2>3. QED
    BY <1>10, <1>11, <2>1, <2>2
<1>14. Ledger!Becomes(lv)
  BY <1>13, Publishes
<1>15. QED
  BY <1>7, <1>12, <1>14 DEF Ledger!Becomes

LEMMA AmendedOrder ==
  ASSUME FeedInv, FeedInv', NEW s \in Stocks, NEW r \in DOMAIN books[s].orders,
         NEW new_r \in Refs \ Live, NEW n, NEW p,
         \A t \in Stocks \ {s} : books'[t] = books[t],
         books'[s].orders = Put(Without(books[s].orders, r), new_r,
                              [side |-> books[s].orders[r].side, price |-> p, shares |-> n])
  PROVE  Ledger!Amend(r, new_r, n, p)
<1>1. PICK info : info = [side |-> books[s].orders[r].side, price |-> p, shares |-> n]
  OBVIOUS
<1>2. PICK orders : orders = Put(Without(books[s].orders, r), new_r, info)
  OBVIOUS
<1>3. LiveChange(s, orders)
  BY <1>1, <1>2, LiveNext
<1>4. r \in Live /\ r \in DOMAIN LiveOrders /\ new_r \notin Live /\ new_r \notin DOMAIN LiveOrders
  BY <1>3 DEF LiveChange
<1>5. /\ DOMAIN orders = (DOMAIN books[s].orders \ {r}) \cup {new_r} /\ orders[new_r] = info
      /\ \A x \in DOMAIN books[s].orders :
           x # r /\ x # new_r => orders[x] = books[s].orders[x]
  BY <1>2 DEF Put, Without, Restrict
<1>6. Live' = (Live \ {r}) \cup {new_r}
  BY <1>3, <1>4, <1>5 DEF LiveChange
<1>7. PICK order : order = [stock |-> LiveOrders[r].stock, side |-> LiveOrders[r].side,
                            price |-> p, shares |-> n]
  OBVIOUS
<1>8. LiveOrders'[new_r] = order
  <2>1. LiveOrders'[new_r] = [stock  |-> s,                   side   |-> orders[new_r].side,
                              price  |-> orders[new_r].price, shares |-> orders[new_r].shares]
    BY <1>3, <1>5 DEF LiveChange
  <2>2. LiveOrders[r].stock = s /\ LiveOrders[r].side = books[s].orders[r].side
    <3>1. LiveOrders[r] = OrderAt(s, r)
      BY <1>3, Zenon DEF LiveChange
    <3>2. QED
      BY <3>1 DEF OrderAt
  <2>3. QED
    BY <1>1, <1>5, <1>7, <2>1, <2>2
<1>9. ASSUME NEW x \in Live \ {r}
      PROVE  LiveOrders'[x] = LiveOrders[x]
  <2>1. x \in DOMAIN orders => orders[x] = books[s].orders[x]
    BY <1>4, <1>5
  <2>2. QED
    BY <1>3, <1>6, <2>1 DEF LiveChange
<1>10. PICK rest : rest = Ledger!Removed(r)
  OBVIOUS
<1>11. rest = [x \in Live \ {r} |-> LiveOrders[x]]
  BY <1>3, <1>10 DEF Ledger!Removed, Ledger!Restrict, LiveChange
<1>12. PICK lv : lv = Ledger!Entered(rest, new_r, order)
  OBVIOUS
<1>13. LiveOrders' = lv
  <2>1. LiveOrders' = [x \in (Live \ {r}) \cup {new_r} |-> LiveOrders'[x]]
    BY <1>3, <1>6 DEF LiveChange
  <2>2. lv = [x \in (Live \ {r}) \cup {new_r} |-> IF x = new_r THEN order ELSE LiveOrders[x]]
    BY <1>11, <1>12 DEF Ledger!Entered
  <2>3. QED
    BY <1>4, <1>8, <1>9, <2>1, <2>2
<1>14. Ledger!Becomes(lv)
  BY <1>13, Publishes
<1>15. QED
  BY <1>4, <1>7, <1>10, <1>12, <1>14 DEF Ledger!Amend, Ledger!Becomes

LEMMA LedgerStep ==
  ASSUME FeedInv, FeedInv', [FeedNext]_vars
  PROVE  [Ledger!LedgerNext]_(Ledger!ledger)
<1>1. Shares \subseteq Nat /\ Side = {"Buy", "Sell"}
  BY BookAssumption DEF BookAssumption, Side
<1>2. ASSUME NEW r \in Refs \ Live, NEW s \in Stocks, NEW sd \in Side, NEW n \in Shares \ {0},
             NEW p \in Prices, AddOrder(r, s, sd, n, p)
      PROVE  Ledger!LedgerNext
  BY <1>1, <1>2, AddEnters DEF Ledger!LedgerNext
<1>3. ASSUME NEW r \in Refs, NEW n \in Shares, OrderReduced(r, n)
      PROVE  Ledger!LedgerNext \/ books' = books
  <2>1. SUFFICES ASSUME NEW s \in Stocks, r \in DOMAIN books[s].orders, n > 0,
                        \A t \in Stocks \ {s} : books'[t] = books[t],
                        books'[s].orders =
                          IF n < books[s].orders[r].shares
                          THEN Put(books[s].orders, r,
                                   [books[s].orders[r] EXCEPT !.shares = @ - n])
                          ELSE Without(books[s].orders, r)
                 PROVE  Ledger!Reduce(r, n)
    <3>1. n \in Nat
      BY <1>1
    <3>2. \/ books' = books
          \/ \E s \in Stocks :
                 /\ r \in DOMAIN books[s].orders /\ n > 0
                 /\ \A t \in Stocks \ {s} : books'[t] = books[t]
                 /\ books'[s].orders =
                      IF n < books[s].orders[r].shares
                      THEN Put(books[s].orders, r, [books[s].orders[r] EXCEPT !.shares = @ - n])
                      ELSE Without(books[s].orders, r)
      BY <1>3, <3>1, FeedOrderReduced
    <3>3. n > 0 => n \in Shares \ {0}
      BY <3>1
    <3>4. QED
      BY <3>2, <3>3 DEF Ledger!LedgerNext
  <2>2. LiveOrders[r].shares = books[s].orders[r].shares
    <3>1. LiveOrders[r] = OrderAt(s, r)
      BY <2>1, LiveIsExact DEF LiveExact
    <3>2. QED
      BY <3>1 DEF OrderAt
  <2>3. CASE n < books[s].orders[r].shares
    <3>1. /\ r \in DOMAIN LiveOrders
          /\ Ledger!Becomes([LiveOrders EXCEPT ![r].shares = @ - n])
      BY <1>1, <2>1, <2>3, ReducedOrder
    <3>2. QED
      BY <2>2, <2>3, <3>1 DEF Ledger!Reduce, Ledger!Becomes
  <2>4. CASE ~(n < books[s].orders[r].shares)
    <3>1. r \in DOMAIN LiveOrders /\ Ledger!Becomes(Ledger!Removed(r))
      BY <2>1, <2>4, RemovedOrder
    <3>2. QED
      BY <2>2, <2>4, <3>1 DEF Ledger!Reduce, Ledger!Becomes
  <2>5. QED
    BY <2>3, <2>4
<1>4. ASSUME NEW r \in Refs, OrderDelete(r)
      PROVE  Ledger!LedgerNext \/ books' = books
  <2>1. SUFFICES ASSUME NEW s \in Stocks, r \in DOMAIN books[s].orders,
                        \A t \in Stocks \ {s} : books'[t] = books[t],
                        books'[s].orders = Without(books[s].orders, r)
                 PROVE  Ledger!Withdraw(r)
    BY <1>4, FeedOrderDelete DEF Ledger!LedgerNext
  <2>2. r \in DOMAIN LiveOrders /\ Ledger!Becomes(Ledger!Removed(r))
    BY <2>1, RemovedOrder
  <2>3. QED
    BY <2>2 DEF Ledger!Withdraw
<1>5. ASSUME NEW r \in Refs, NEW new_r \in Refs \ Live, NEW n \in Shares \ {0},
             NEW p \in Prices, OrderReplace(r, new_r, n, p)
      PROVE  Ledger!LedgerNext \/ books' = books
  <2>1. SUFFICES ASSUME NEW s \in Stocks, r \in DOMAIN books[s].orders,
                        \A t \in Stocks \ {s} : books'[t] = books[t],
                        books'[s].orders = Put(Without(books[s].orders, r), new_r,
                          [side |-> books[s].orders[r].side, price |-> p, shares |-> n])
                 PROVE  Ledger!Amend(r, new_r, n, p)
    <3>1. n \in Nat \ {0}
      BY <1>1
    <3>2. \/ books' = books
          \/ \E s \in Stocks :
                 /\ r \in DOMAIN books[s].orders
                 /\ \A t \in Stocks \ {s} : books'[t] = books[t]
                 /\ books'[s].orders = Put(Without(books[s].orders, r), new_r,
                      [side |-> books[s].orders[r].side, price |-> p, shares |-> n])
      BY <1>5, <3>1, FeedOrderReplace
    <3>3. QED
      BY <3>2 DEF Ledger!LedgerNext
  <2>2. QED
    BY <2>1, AmendedOrder
<1>6. OtherEvent \/ UNCHANGED vars => books' = books
  BY DEF OtherEvent, Ignored, vars
<1>7. Ledger!LedgerNext \/ books' = books
  BY <1>2, <1>3, <1>4, <1>5, <1>6 DEF FeedNext
<1>8. QED
  BY <1>7, SilentStep

LEMMA LedgerStart == Init => Ledger!LedgerInit
<1> SUFFICES ASSUME Init PROVE Ledger!LedgerInit
  OBVIOUS
<1>1. \A s \in Stocks : DOMAIN books[s].orders = {}
  BY DEF Init, NewBook, EmptyMap
<1>2. Live = {}
  BY <1>1 DEF Live
<1>3. LiveOrders = [r \in {} |-> r]
  BY <1>2 DEF LiveOrders
<1>4. \A s \in Stocks : books[s].last_snapshot = Ledger!QuoteOf(LiveOrders, s)
  BY FeedInit, QuotesAreCurrent DEF QuoteCurrent
<1>5. QED
  BY <1>3, <1>4 DEF Ledger!LedgerInit

\* On an ITCH feed the books implement the ledger: no sequence of events makes
\* the incremental books publish a quote that differs from the one recomputed
\* from the live orders (OrderBook::apply_event, snapshot_bbo).
THEOREM BooksImplementLedger == FeedSpec => ImplementsLedger
<1>1. Init => Ledger!LedgerInit
  BY LedgerStart
<1>2. FeedInv /\ FeedInv' /\ [FeedNext]_vars => [Ledger!LedgerNext]_(Ledger!ledger)
  BY LedgerStep
<1>3. QED
  BY <1>1, <1>2, FeedInvHolds, PTL DEF FeedSpec, ImplementsLedger, Ledger!LedgerSpec

=============================================================================
