--------------------------- MODULE GatewayProofs ----------------------------
(***************************************************************************)
(* Proofs about module Gateway, for every exchange, every capacity of the  *)
(* queues and every batch size.                                            *)
(***************************************************************************)
EXTENDS Gateway, OrderBookProofs, SequenceTheorems

-----------------------------------------------------------------------------
(* Sequences as queues. *)

LEMMA Pushed ==
  ASSUME NEW S, NEW q \in Seq(S), NEW e \in S, NEW new, new = Append(q, e)
  PROVE  /\ new \in Seq(S) /\ Len(q) \in Nat /\ Len(new) = Len(q) + 1
         /\ new[Len(q) + 1] = e
         /\ \A i \in 1 .. Len(q) : new[i] = q[i]
OBVIOUS

LEMMA Popped ==
  ASSUME NEW S, NEW q \in Seq(S), q # <<>>, NEW new, new = Tail(q) \/ new = RemoveAt(q, 1)
  PROVE  /\ q[1] \in S
         /\ new \in Seq(S) /\ Len(new) \in Nat /\ Len(q) = Len(new) + 1
         /\ \A i \in 1 .. Len(new) : new[i] = q[i + 1]
<1>1. Len(q) \in Nat /\ Len(q) > 0
  OBVIOUS
<1>2. CASE new = Tail(q)
  BY <1>1, <1>2
<1>3. CASE new = RemoveAt(q, 1)
  <2>1. PICK s : s = SubSeq(q, 2, Len(q))
    OBVIOUS
  <2>2. s \in Seq(S) /\ Len(s) = Len(q) - 1 /\ \A i \in 1 .. Len(s) : s[i] = q[i + 1]
    <3>1. PICK n \in Nat : n = Len(q) /\ n > 0
      BY <1>1
    <3>2. \A i \in 2 .. n : q[i] \in S
      BY <3>1
    <3>3. /\ s \in Seq(S)
          /\ Len(s) = IF 2 =< n THEN n - 2 + 1 ELSE 0
          /\ \A i \in 1 .. n - 2 + 1 : s[i] = q[2 + i - 1]
      BY <2>1, <3>1, <3>2, SubSeqProperties
    <3>4. (IF 2 =< n THEN n - 2 + 1 ELSE 0) = n - 1 /\ n - 2 + 1 = n - 1
      BY <3>1
    <3>5. Len(s) = n - 1
      BY <3>3, <3>4, Zenon
    <3>6. ASSUME NEW i \in 1 .. n - 1 PROVE s[i] = q[i + 1]
      <4>1. i \in 1 .. n - 2 + 1 /\ 2 + i - 1 = i + 1
        BY <3>1
      <4>2. s[i] = q[2 + i - 1]
        BY <3>3, <4>1, Zenon
      <4>3. QED
        BY <4>1, <4>2, Zenon
    <3>7. QED
      BY <3>1, <3>3, <3>5, <3>6, Zenon
  <2>3. SubSeq(q, 1, 0) = <<>>
    BY SubSeqEmpty
  <2>4. new = <<>> \o s
    BY <1>3, <2>1, <2>3 DEF RemoveAt
  <2>5. <<>> \o s = s
    BY <2>2, ConcatEmptySeq
  <2>6. QED
    BY <1>1, <2>2, <2>4, <2>5
<1>4. QED
  BY <1>2, <1>3

-----------------------------------------------------------------------------
(* Events, and what they do to a map of orders. *)

FeedEvent ==
  [type : {"add"}, r : Refs, s : Stocks, side : Side, n : Shares \ {0}, p : Prices]
    \cup [type : {"reduce"}, r : Refs, n : Shares \ {0}]
    \cup [type : {"delete"}, r : Refs]
    \cup [type : {"replace"}, r : Refs, new_r : Refs, n : Shares \ {0}, p : Prices]

MarketOrder == [stock : Stocks, side : Side, price : Prices, shares : Nat]

\* The references that an event brings into use.
Introduces(e) ==
  {r \in Refs : (e.type = "add" /\ r = e.r) \/ (e.type = "replace" /\ r = e.new_r)}

\* The event makes sense for the orders m.
Applies(m, e) ==
  /\ e.type = "add" => e.r \notin DOMAIN m
  /\ e.type = "reduce" => e.r \in DOMAIN m /\ e.n =< m[e.r].shares
  /\ e.type = "delete" => e.r \in DOMAIN m
  /\ e.type = "replace" => e.r \in DOMAIN m /\ e.new_r \notin DOMAIN m

\* new are the orders after the event.
Follows(m, e, new) ==
  /\ e.type = "add" =>
       new = Put(m, e.r, [stock |-> e.s, side |-> e.side, price |-> e.p, shares |-> e.n])
  /\ e.type = "reduce" =>
       new = IF e.n = m[e.r].shares THEN Without(m, e.r) ELSE [m EXCEPT ![e.r].shares = @ - e.n]
  /\ e.type = "delete" => new = Without(m, e.r)
  /\ e.type = "replace" =>
       new = Put(Without(m, e.r), e.new_r,
                 [stock |-> m[e.r].stock, side |-> m[e.r].side, price |-> e.p, shares |-> e.n])

\* No two orders would trade with each other.
Sane(m) ==
  \A r, t \in DOMAIN m :
     m[r].stock = m[t].stock /\ m[r].side = "Buy" /\ m[t].side = "Sell" => m[r].price < m[t].price

LEMMA EventKinds ==
  ASSUME NEW e \in FeedEvent
  PROVE  \/ /\ e.type = "add" /\ e.r \in Refs /\ e.s \in Stocks /\ e.side \in Side
            /\ e.n \in Shares \ {0} /\ e.p \in Prices
         \/ e.type = "reduce" /\ e.r \in Refs /\ e.n \in Shares \ {0}
         \/ e.type = "delete" /\ e.r \in Refs
         \/ /\ e.type = "replace" /\ e.r \in Refs /\ e.new_r \in Refs
            /\ e.n \in Shares \ {0} /\ e.p \in Prices
<1>1. CASE e \in [type : {"add"}, r : Refs, s : Stocks, side : Side, n : Shares \ {0}, p : Prices]
  BY <1>1
<1>2. CASE e \in [type : {"reduce"}, r : Refs, n : Shares \ {0}]
  BY <1>2
<1>3. CASE e \in [type : {"delete"}, r : Refs]
  BY <1>3
<1>4. CASE e \in [type : {"replace"}, r : Refs, new_r : Refs, n : Shares \ {0}, p : Prices]
  BY <1>4
<1>5. QED
  BY <1>1, <1>2, <1>3, <1>4 DEF FeedEvent

\* The books only get new references, unless references are brought in.
LEMMA LiveGrows ==
  ASSUME NEW s \in Stocks, NEW X, \A t \in Stocks \ {s} : books'[t] = books[t],
         DOMAIN books'[s].orders \subseteq DOMAIN books[s].orders \cup X
  PROVE  Live' \subseteq Live \cup X
BY DEF Live

\* An event that brings in nothing in use is one of an ITCH feed.
LEMMA EventIsFeed ==
  ASSUME FeedInv, NEW e \in FeedEvent, Introduces(e) \cap Live = {}, apply_event(e)
  PROVE  FeedNext /\ Live' \subseteq Live \cup Introduces(e)
<1>1. Shares \subseteq Nat
  BY BookAssumption
<1>2. CASE e.type = "add"
  <2>1. /\ e.r \in Refs /\ e.s \in Stocks /\ e.side \in Side
        /\ e.n \in Shares \ {0} /\ e.p \in Prices
    BY <1>2, EventKinds
  <2>2. PICK r \in Refs, s \in Stocks, sd \in Side, n \in Shares \ {0}, p \in Prices :
           r = e.r /\ s = e.s /\ sd = e.side /\ n = e.n /\ p = e.p
    BY <2>1
  <2>3. Introduces(e) = {r}
    BY <1>2, <2>2 DEF Introduces
  <2>4. r \in Refs \ Live /\ AddOrder(r, s, sd, n, p)
    BY <1>2, <2>2, <2>3 DEF apply_event
  <2>5. FeedNext
    BY <2>4 DEF FeedNext
  <2>6. n \in Nat \ {0}
    BY <1>1
  <2>7. /\ \A t \in Stocks \ {s} : books'[t] = books[t]
        /\ books'[s].orders = Put(books[s].orders, r, [side |-> sd, price |-> p, shares |-> n])
    BY <2>4, <2>6, FeedAddOrder
  <2>8. DOMAIN books'[s].orders = DOMAIN books[s].orders \cup {r}
    BY <2>7 DEF Put
  <2>9. QED
    BY <2>3, <2>5, <2>7, <2>8, LiveGrows
<1>3. CASE e.type = "reduce"
  <2>1. e.r \in Refs /\ e.n \in Shares \ {0}
    BY <1>3, EventKinds
  <2>2. OrderReduced(e.r, e.n)
    BY <1>3 DEF apply_event
  <2>3. FeedNext
    BY <2>1, <2>2 DEF FeedNext
  <2>4. e.n \in Nat
    BY <1>1, <2>1
  <2>5. \/ books' = books
        \/ \E s \in Stocks : /\ \A t \in Stocks \ {s} : books'[t] = books[t]
                             /\ DOMAIN books'[s].orders \subseteq DOMAIN books[s].orders
    <3>1. SUFFICES ASSUME NEW s \in Stocks, e.r \in DOMAIN books[s].orders,
                          \A t \in Stocks \ {s} : books'[t] = books[t],
                          \/ books'[s].orders = Put(books[s].orders, e.r,
                               [books[s].orders[e.r] EXCEPT !.shares = @ - e.n])
                          \/ books'[s].orders = Without(books[s].orders, e.r)
                   PROVE  DOMAIN books'[s].orders \subseteq DOMAIN books[s].orders
      BY <2>1, <2>2, <2>4, FeedOrderReduced
    <3>2. QED
      BY <3>1 DEF Put, Without, Restrict
  <2>6. Live' \subseteq Live
    <3>1. CASE books' = books
      BY <3>1 DEF Live
    <3>2. ASSUME NEW s \in Stocks, \A t \in Stocks \ {s} : books'[t] = books[t],
                 DOMAIN books'[s].orders \subseteq DOMAIN books[s].orders
          PROVE  Live' \subseteq Live
      BY <3>2 DEF Live
    <3>3. QED
      BY <2>5, <3>1, <3>2
  <2>7. QED
    BY <2>3, <2>6
<1>4. CASE e.type = "delete"
  <2>1. e.r \in Refs
    BY <1>4, EventKinds
  <2>2. OrderDelete(e.r)
    BY <1>4 DEF apply_event
  <2>3. FeedNext
    BY <2>1, <2>2 DEF FeedNext
  <2>4. \/ books' = books
        \/ \E s \in Stocks : /\ \A t \in Stocks \ {s} : books'[t] = books[t]
                             /\ DOMAIN books'[s].orders \subseteq DOMAIN books[s].orders
    BY <2>1, <2>2, FeedOrderDelete DEF Without, Restrict
  <2>5. Live' \subseteq Live
    <3>1. CASE books' = books
      BY <3>1 DEF Live
    <3>2. ASSUME NEW s \in Stocks, \A t \in Stocks \ {s} : books'[t] = books[t],
                 DOMAIN books'[s].orders \subseteq DOMAIN books[s].orders
          PROVE  Live' \subseteq Live
      BY <3>2 DEF Live
    <3>3. QED
      BY <2>4, <3>1, <3>2
  <2>6. QED
    BY <2>3, <2>5
<1>5. CASE e.type = "replace"
  <2>1. e.r \in Refs /\ e.new_r \in Refs /\ e.n \in Shares \ {0} /\ e.p \in Prices
    BY <1>5, EventKinds
  <2>2. PICK r \in Refs, new_r \in Refs, n \in Shares \ {0}, p \in Prices :
           r = e.r /\ new_r = e.new_r /\ n = e.n /\ p = e.p
    BY <2>1
  <2>3. Introduces(e) = {new_r}
    BY <1>5, <2>2 DEF Introduces
  <2>4. new_r \in Refs \ Live /\ OrderReplace(r, new_r, n, p)
    BY <1>5, <2>2, <2>3 DEF apply_event
  <2>5. FeedNext
    BY <2>4 DEF FeedNext
  <2>6. n \in Nat \ {0}
    BY <1>1
  <2>7. \/ books' = books
        \/ \E s \in Stocks :
             /\ \A t \in Stocks \ {s} : books'[t] = books[t]
             /\ DOMAIN books'[s].orders \subseteq DOMAIN books[s].orders \cup {new_r}
    BY <2>4, <2>6, FeedOrderReplace DEF Put, Without, Restrict
  <2>8. Live' \subseteq Live \cup {new_r}
    <3>1. CASE books' = books
      BY <3>1 DEF Live
    <3>2. ASSUME NEW s \in Stocks, \A t \in Stocks \ {s} : books'[t] = books[t],
                 DOMAIN books'[s].orders \subseteq DOMAIN books[s].orders \cup {new_r}
          PROVE  Live' \subseteq Live \cup {new_r}
      BY <3>2, LiveGrows
    <3>3. QED
      BY <2>7, <3>1, <3>2
  <2>9. QED
    BY <2>3, <2>5, <2>8
<1>6. QED
  BY <1>2, <1>3, <1>4, <1>5, EventKinds

\* The books apply an event that makes sense to them the way the exchange does.
LEMMA BooksFollow ==
  ASSUME FeedInv, FeedInv', NEW e \in FeedEvent, Applies(LiveOrders, e), apply_event(e)
  PROVE  Follows(LiveOrders, e, LiveOrders')
<1>1. Shares \subseteq Nat /\ LiveExact /\ DOMAIN LiveOrders = Live
  BY BookAssumption, LiveIsExact DEF LiveOrders
<1>2. \A x : Ledger!Removed(x) = Without(LiveOrders, x)
  BY DEF Ledger!Removed, Ledger!Restrict, Without, Restrict
<1>3. CASE e.type = "add"
  <2>1. PICK r \in Refs, s \in Stocks, sd \in Side, n \in Shares \ {0}, p \in Prices :
           r = e.r /\ s = e.s /\ sd = e.side /\ n = e.n /\ p = e.p
    BY <1>3, EventKinds
  <2>2. r \in Refs \ Live
    BY <1>1, <1>3, <2>1 DEF Applies
  <2>3. AddOrder(r, s, sd, n, p)
    BY <1>3, <2>1 DEF apply_event
  <2>4. Ledger!Enter(r, s, sd, n, p)
    BY <2>2, <2>3, AddEnters
  <2>5. PICK order : order = [stock |-> s, side |-> sd, price |-> p, shares |-> n]
    OBVIOUS
  <2>6. LiveOrders' = Ledger!Entered(LiveOrders, r, order)
    BY <2>4, <2>5 DEF Ledger!Enter, Ledger!Becomes
  <2>7. LiveOrders' = Put(LiveOrders, r, order)
    BY <2>6 DEF Ledger!Entered, Put
  <2>8. QED
    BY <1>3, <2>1, <2>5, <2>7 DEF Follows
<1>4. ASSUME NEW r \in Live
      PROVE  \E s \in Stocks : r \in DOMAIN books[s].orders /\ LiveOrders[r] = OrderAt(s, r)
  BY <1>1 DEF LiveExact
<1>5. CASE e.type = "reduce"
  <2>1. PICK r \in Refs, n \in Shares \ {0} : r = e.r /\ n = e.n
    BY <1>5, EventKinds
  <2>2. r \in Live /\ n =< LiveOrders[r].shares /\ n \in Nat /\ n # 0
    BY <1>1, <1>5, <2>1 DEF Applies
  <2>3. OrderReduced(r, n)
    BY <1>5, <2>1 DEF apply_event
  <2>4. PICK s \in Stocks :
           /\ r \in DOMAIN books[s].orders
           /\ \A t \in Stocks \ {s} : books'[t] = books[t]
           /\ books'[s].orders =
                IF n < books[s].orders[r].shares
                THEN Put(books[s].orders, r, [books[s].orders[r] EXCEPT !.shares = @ - n])
                ELSE Without(books[s].orders, r)
    BY <2>2, <2>3, FeedOrderReduced
  <2>5. LiveOrders[r].shares = books[s].orders[r].shares
    <3>1. LiveOrders[r] = OrderAt(s, r)
      BY <1>1, <2>4, Zenon DEF LiveExact
    <3>2. QED
      BY <3>1 DEF OrderAt
  <2>6. LiveOrders[r].shares \in Nat
    BY <2>4, <2>5, BookParts DEF FeedInv, ExactBook, GoodBook, IsOrders, IsMap, OrderInfo
  <2>7. CASE n < books[s].orders[r].shares
    <3>1. Ledger!Becomes([LiveOrders EXCEPT ![r].shares = @ - n])
      BY <2>2, <2>4, <2>7, ReducedOrder
    <3>2. LiveOrders' = [LiveOrders EXCEPT ![r].shares = @ - n]
      BY <3>1 DEF Ledger!Becomes
    <3>3. n # LiveOrders[r].shares
      BY <2>2, <2>5, <2>6, <2>7
    <3>4. QED
      BY <1>5, <2>1, <3>2, <3>3 DEF Follows
  <2>8. CASE ~(n < books[s].orders[r].shares)
    <3>1. Ledger!Becomes(Ledger!Removed(r))
      BY <2>4, <2>8, RemovedOrder
    <3>2. LiveOrders' = Without(LiveOrders, r)
      BY <1>2, <3>1 DEF Ledger!Becomes
    <3>3. n = LiveOrders[r].shares
      BY <2>2, <2>5, <2>6, <2>8
    <3>4. QED
      BY <1>5, <2>1, <3>2, <3>3 DEF Follows
  <2>9. QED
    BY <2>7, <2>8
<1>6. CASE e.type = "delete"
  <2>1. PICK r \in Refs : r = e.r
    BY <1>6, EventKinds
  <2>2. r \in Live
    BY <1>1, <1>6, <2>1 DEF Applies
  <2>3. OrderDelete(r)
    BY <1>6, <2>1 DEF apply_event
  <2>4. PICK s \in Stocks : /\ r \in DOMAIN books[s].orders
                            /\ \A t \in Stocks \ {s} : books'[t] = books[t]
                            /\ books'[s].orders = Without(books[s].orders, r)
    BY <2>2, <2>3, FeedOrderDelete
  <2>5. Ledger!Becomes(Ledger!Removed(r))
    BY <2>4, RemovedOrder
  <2>6. LiveOrders' = Without(LiveOrders, r)
    BY <1>2, <2>5 DEF Ledger!Becomes
  <2>7. QED
    BY <1>6, <2>1, <2>6 DEF Follows
<1>7. CASE e.type = "replace"
  <2>1. PICK r \in Refs, new_r \in Refs, n \in Shares \ {0}, p \in Prices :
           r = e.r /\ new_r = e.new_r /\ n = e.n /\ p = e.p
    BY <1>7, EventKinds
  <2>2. r \in Live /\ new_r \in Refs \ Live /\ n \in Nat \ {0}
    BY <1>1, <1>7, <2>1 DEF Applies
  <2>3. OrderReplace(r, new_r, n, p)
    BY <1>7, <2>1 DEF apply_event
  <2>4. PICK s \in Stocks :
           /\ r \in DOMAIN books[s].orders
           /\ \A t \in Stocks \ {s} : books'[t] = books[t]
           /\ books'[s].orders = Put(Without(books[s].orders, r), new_r,
                [side |-> books[s].orders[r].side, price |-> p, shares |-> n])
    BY <2>2, <2>3, FeedOrderReplace
  <2>5. Ledger!Amend(r, new_r, n, p)
    BY <2>2, <2>4, AmendedOrder
  <2>6. PICK order : order = [stock |-> LiveOrders[r].stock, side |-> LiveOrders[r].side,
                              price |-> p, shares |-> n]
    OBVIOUS
  <2>7. LiveOrders' = Ledger!Entered(Ledger!Removed(r), new_r, order)
    BY <2>5, <2>6 DEF Ledger!Amend, Ledger!Becomes
  <2>8. LiveOrders' = Put(Without(LiveOrders, r), new_r, order)
    BY <1>2, <2>7 DEF Ledger!Entered, Put
  <2>9. QED
    BY <1>7, <2>1, <2>6, <2>8 DEF Follows
<1>8. QED
  BY <1>3, <1>5, <1>6, <1>7, EventKinds

-----------------------------------------------------------------------------
(* The exchange. *)

MarketInv == IsMap(market, used, MarketOrder) /\ used \subseteq Refs /\ Sane(market)

\* What the exchange sends makes sense for its orders and brings in what is new.
Sends(e) ==
  /\ push_event(e)
  /\ Applies(market, e) /\ Follows(market, e, market')
  /\ used \subseteq used' /\ Introduces(e) \subseteq used' \ used

LEMMA SaneSubset ==
  ASSUME NEW m, Sane(m), NEW new, DOMAIN new \subseteq DOMAIN m,
         \A r \in DOMAIN new : /\ new[r].stock = m[r].stock
                               /\ new[r].side = m[r].side
                               /\ new[r].price = m[r].price
  PROVE  Sane(new)
BY DEF Sane

\* An order that may rest does not trade with any other.
LEMMA SaneEntered ==
  ASSUME NEW m \in {market}, Sane(m), \A t \in DOMAIN m : m[t].price \in Nat,
         NEW kept \in SUBSET DOMAIN m,
         NEW r, NEW s, NEW side \in Side, NEW price \in Nat, MayRest(s, side, price),
         NEW new, DOMAIN new = kept \cup {r},
         \A t \in kept : t # r => new[t] = m[t],
         new[r].stock = s, new[r].side = side, new[r].price = price
  PROVE  Sane(new)
<1>1. \A t \in DOMAIN m : m[t].stock = s /\ m[t].side # side =>
         IF side = "Buy" THEN price < m[t].price ELSE price > m[t].price
  BY DEF MayRest
<1>2. SUFFICES ASSUME NEW x \in DOMAIN new, NEW y \in DOMAIN new,
                      new[x].stock = new[y].stock, new[x].side = "Buy", new[y].side = "Sell"
               PROVE  new[x].price < new[y].price
  BY DEF Sane
<1>3. CASE x = r
  <2>1. y # r /\ y \in kept /\ new[y] = m[y] /\ side = "Buy"
    BY <1>2, <1>3
  <2>2. price < m[y].price
    BY <1>1, <1>2, <1>3, <2>1
  <2>3. QED
    BY <1>3, <2>1, <2>2
<1>4. CASE x # r /\ y = r
  <2>1. x \in kept /\ new[x] = m[x] /\ side = "Sell"
    BY <1>2, <1>4
  <2>2. price > m[x].price
    BY <1>1, <1>2, <1>4, <2>1
  <2>3. QED
    BY <1>4, <2>1, <2>2
<1>5. CASE x # r /\ y # r
  BY <1>2, <1>5 DEF Sane
<1>6. QED
  BY <1>3, <1>4, <1>5

LEMMA EnterSends ==
  ASSUME MarketInv, NEW r \in Refs \ used, NEW s \in Stocks, NEW side \in Side,
         NEW n \in Shares \ {0}, NEW p \in Prices, Enter(r, s, side, n, p)
  PROVE  MarketInv' /\ \E e \in FeedEvent : Sends(e)
<1>1. Shares \subseteq Nat /\ Prices \subseteq Nat
  BY BookAssumption
<1>2. PICK e : e = [type |-> "add", r |-> r, s |-> s, side |-> side, n |-> n, p |-> p]
  OBVIOUS
<1>3. /\ e \in FeedEvent /\ e.type = "add" /\ e.r = r /\ e.s = s /\ e.side = side
      /\ e.n = n /\ e.p = p
  BY <1>2 DEF FeedEvent
<1>4. PICK order : order = [stock |-> s, side |-> side, price |-> p, shares |-> n]
  OBVIOUS
<1>5. /\ order \in MarketOrder /\ order.stock = s /\ order.side = side /\ order.price = p
  BY <1>1, <1>4 DEF MarketOrder
<1>6. /\ MayRest(s, side, p) /\ push_event(e)
      /\ market' = Put(market, r, order) /\ used' = used \cup {r}
  BY <1>2, <1>4 DEF Enter
<1>7. /\ DOMAIN market \subseteq used /\ market \in [DOMAIN market -> MarketOrder]
      /\ used \subseteq Refs /\ Sane(market)
  BY DEF MarketInv, IsMap
<1>8. IsMap(market', used', MarketOrder) /\ used' \subseteq Refs
  BY <1>5, <1>6, <1>7 DEF IsMap, Put
<1>9. Sane(market')
  <2>1. DOMAIN market' = DOMAIN market \cup {r} /\ market'[r] = order
        /\ \A t \in DOMAIN market : t # r => market'[t] = market[t]
    BY <1>6 DEF Put
  <2>2. \A t \in DOMAIN market : market[t].price \in Nat
    BY <1>1, <1>7 DEF MarketOrder
  <2>3. p \in Nat
    BY <1>1
  <2>4. QED
    BY <1>5, <1>6, <1>7, <2>1, <2>2, <2>3, SaneEntered
<1>10. Applies(market, e) /\ Follows(market, e, market') /\ Introduces(e) \subseteq used' \ used
  <2>1. Applies(market, e)
    BY <1>3, <1>7 DEF Applies
  <2>2. Follows(market, e, market')
    BY <1>3, <1>4, <1>6 DEF Follows
  <2>3. QED
    BY <1>3, <1>6, <2>1, <2>2 DEF Introduces
<1>11. MarketInv'
  BY <1>8, <1>9 DEF MarketInv, IsMap, Sane
<1>12. QED
  BY <1>3, <1>6, <1>10, <1>11 DEF Sends

LEMMA ReduceSends ==
  ASSUME MarketInv, NEW r \in DOMAIN market, NEW n \in Shares \ {0}, Reduce(r, n)
  PROVE  MarketInv' /\ \E e \in FeedEvent : Sends(e)
<1>1. Shares \subseteq Nat
  BY BookAssumption
<1>2. PICK e : e = [type |-> "reduce", r |-> r, n |-> n]
  OBVIOUS
<1>3. /\ DOMAIN market \subseteq used /\ market \in [DOMAIN market -> MarketOrder]
      /\ used \subseteq Refs /\ Sane(market)
  BY DEF MarketInv, IsMap
<1>4. e \in FeedEvent /\ e.type = "reduce" /\ e.r = r /\ e.n = n
  BY <1>2, <1>3 DEF FeedEvent
<1>5. /\ n =< market[r].shares /\ push_event(e) /\ used' = used
      /\ market' = IF n = market[r].shares THEN Without(market, r)
                   ELSE [market EXCEPT ![r].shares = @ - n]
  BY <1>2 DEF Reduce
<1>6. /\ IsMap(market', used, MarketOrder)
      /\ DOMAIN market' \subseteq DOMAIN market
      /\ \A x \in DOMAIN market' : /\ market'[x].stock = market[x].stock
                                   /\ market'[x].side = market[x].side
                                   /\ market'[x].price = market[x].price
  <2>1. CASE n = market[r].shares
    BY <1>3, <1>5, <2>1 DEF IsMap, Without, Restrict
  <2>2. CASE n # market[r].shares
    <3>1. PICK order \in MarketOrder : order = market[r]
      BY <1>3
    <3>2. PICK new : new = [order EXCEPT !.shares = @ - n]
      OBVIOUS
    <3>3. /\ new \in MarketOrder /\ new.stock = order.stock
          /\ new.side = order.side /\ new.price = order.price
      <4>1. order.shares \in Nat /\ n \in Nat /\ n =< order.shares
        BY <1>1, <1>5, <3>1 DEF MarketOrder
      <4>2. order.shares - n \in Nat
        BY <4>1
      <4>3. QED
        BY <3>2, <4>2 DEF MarketOrder
    <3>4. market' = [market EXCEPT ![r] = new]
      BY <1>5, <2>2, <3>1, <3>2
    <3>5. QED
      BY <1>3, <3>1, <3>3, <3>4 DEF IsMap
  <2>3. QED
    BY <2>1, <2>2
<1>7. Sane(market')
  BY <1>3, <1>6, SaneSubset
<1>8. Applies(market, e) /\ Follows(market, e, market') /\ Introduces(e) = {}
  BY <1>4, <1>5 DEF Applies, Follows, Introduces
<1>9. MarketInv'
  BY <1>3, <1>5, <1>6, <1>7 DEF MarketInv, IsMap, Sane
<1>10. QED
  BY <1>4, <1>5, <1>8, <1>9 DEF Sends

LEMMA WithdrawSends ==
  ASSUME MarketInv, NEW r \in DOMAIN market, Withdraw(r)
  PROVE  MarketInv' /\ \E e \in FeedEvent : Sends(e)
<1>1. PICK e : e = [type |-> "delete", r |-> r]
  OBVIOUS
<1>2. /\ DOMAIN market \subseteq used /\ market \in [DOMAIN market -> MarketOrder]
      /\ used \subseteq Refs /\ Sane(market)
  BY DEF MarketInv, IsMap
<1>3. e \in FeedEvent /\ e.type = "delete" /\ e.r = r
  BY <1>1, <1>2 DEF FeedEvent
<1>4. push_event(e) /\ used' = used /\ market' = Without(market, r)
  BY <1>1 DEF Withdraw
<1>5. IsMap(market', used, MarketOrder)
  BY <1>2, <1>4 DEF IsMap, Without, Restrict
<1>6. Sane(market')
  BY <1>2, <1>4 DEF Without, Restrict, Sane
<1>7. Applies(market, e) /\ Follows(market, e, market') /\ Introduces(e) = {}
  BY <1>3, <1>4 DEF Applies, Follows, Introduces
<1>8. MarketInv'
  BY <1>2, <1>4, <1>5, <1>6 DEF MarketInv, IsMap, Sane
<1>9. QED
  BY <1>3, <1>4, <1>7, <1>8 DEF Sends

LEMMA AmendSends ==
  ASSUME MarketInv, NEW r \in DOMAIN market, NEW new_r \in Refs \ used,
         NEW n \in Shares \ {0}, NEW p \in Prices, Amend(r, new_r, n, p)
  PROVE  MarketInv' /\ \E e \in FeedEvent : Sends(e)
<1>1. Shares \subseteq Nat /\ Prices \subseteq Nat
  BY BookAssumption
<1>2. PICK e : e = [type |-> "replace", r |-> r, new_r |-> new_r, n |-> n, p |-> p]
  OBVIOUS
<1>3. /\ DOMAIN market \subseteq used /\ market \in [DOMAIN market -> MarketOrder]
      /\ used \subseteq Refs /\ Sane(market)
  BY DEF MarketInv, IsMap
<1>4. /\ e \in FeedEvent /\ e.type = "replace" /\ e.r = r /\ e.new_r = new_r
      /\ e.n = n /\ e.p = p
  BY <1>2, <1>3 DEF FeedEvent
<1>5. PICK old \in MarketOrder : old = market[r]
  BY <1>3
<1>6. PICK order : order = [stock |-> old.stock, side |-> old.side, price |-> p, shares |-> n]
  OBVIOUS
<1>7. [old EXCEPT !.price = p, !.shares = n] = order
  <2>1. PICK kept : kept = [old EXCEPT !.price = p]
    OBVIOUS
  <2>2. kept = [stock |-> old.stock, side |-> old.side, price |-> p, shares |-> old.shares]
    BY <1>5, <2>1 DEF MarketOrder
  <2>3. [kept EXCEPT !.shares = n] = order
    BY <1>6, <2>2
  <2>4. [old EXCEPT !.price = p, !.shares = n] = [kept EXCEPT !.shares = n]
    BY <2>1
  <2>5. QED
    BY <2>3, <2>4
<1>8. /\ order \in MarketOrder /\ order.stock = old.stock /\ order.side = old.side
      /\ order.price = p
  BY <1>1, <1>5, <1>6 DEF MarketOrder
<1>9. /\ MayRest(old.stock, old.side, p) /\ push_event(e)
      /\ market' = Put(Without(market, r), new_r, order) /\ used' = used \cup {new_r}
  BY <1>2, <1>5, <1>7 DEF Amend
<1>10. /\ DOMAIN market' = (DOMAIN market \ {r}) \cup {new_r} /\ market'[new_r] = order
       /\ \A t \in DOMAIN market \ {r} : t # new_r => market'[t] = market[t]
       /\ market' = [t \in DOMAIN market' |-> market'[t]]
  BY <1>9 DEF Put, Without, Restrict
<1>11. IsMap(market', used', MarketOrder) /\ used' \subseteq Refs
  <2>1. \A t \in DOMAIN market' : market'[t] \in MarketOrder
    BY <1>3, <1>8, <1>10
  <2>2. QED
    BY <1>3, <1>9, <1>10, <2>1 DEF IsMap
<1>12. Sane(market')
  <2>1. \A t \in DOMAIN market : market[t].price \in Nat
    BY <1>1, <1>3 DEF MarketOrder
  <2>2. p \in Nat /\ old.side \in Side
    BY <1>1, <1>5 DEF MarketOrder
  <2>3. PICK kept \in SUBSET DOMAIN market : kept = DOMAIN market \ {r}
    OBVIOUS
  <2>4. PICK new : new = market'
    OBVIOUS
  <2>5. Sane(market) /\ MayRest(old.stock, old.side, p)
    BY <1>3, <1>9
  <2>6. /\ DOMAIN new = kept \cup {new_r} /\ \A t \in kept : t # new_r => new[t] = market[t]
        /\ new[new_r].stock = old.stock /\ new[new_r].side = old.side /\ new[new_r].price = p
    BY <1>8, <1>10, <2>3, <2>4
  <2>7. Sane(new)
    BY <2>1, <2>2, <2>3, <2>5, <2>6, SaneEntered
  <2>8. QED
    BY <2>4, <2>7
<1>13. Applies(market, e) /\ Follows(market, e, market') /\ Introduces(e) \subseteq used' \ used
  <2>1. Applies(market, e)
    BY <1>3, <1>4 DEF Applies
  <2>2. Follows(market, e, market')
    BY <1>4, <1>5, <1>6, <1>9 DEF Follows
  <2>3. QED
    BY <1>4, <1>9, <2>1, <2>2 DEF Introduces
<1>14. MarketInv'
  BY <1>11, <1>12 DEF MarketInv, IsMap, Sane
<1>15. QED
  BY <1>4, <1>9, <1>13, <1>14 DEF Sends

-----------------------------------------------------------------------------
(* The events on their way. *)

\* No reference that an event of the queue brings in is in use in the books, or
\* is brought in by another event.
Fresh(q, live, refs) ==
  /\ live \subseteq refs
  /\ \A i \in 1 .. Len(q) : Introduces(q[i]) \subseteq refs \ live
  /\ \A i, j \in 1 .. Len(q) : i # j => Introduces(q[i]) \cap Introduces(q[j]) = {}

LEMMA FreshPushed ==
  ASSUME NEW q \in Seq(FeedEvent), NEW e \in FeedEvent, NEW live, NEW refs, NEW more,
         Fresh(q, live, refs), refs \subseteq more, Introduces(e) \subseteq more \ refs,
         NEW new, new = Append(q, e)
  PROVE  Fresh(new, live, more)
<1>1. PICK n \in Nat : n = Len(q)
  OBVIOUS
<1>2. Len(new) = n + 1 /\ new[n + 1] = e /\ \A i \in 1 .. n : new[i] = q[i]
  <2>1. Len(new) = Len(q) + 1 /\ new[Len(q) + 1] = e /\ \A i \in 1 .. Len(q) : new[i] = q[i]
    BY Pushed
  <2>2. QED
    BY <1>1, <2>1, Zenon
<1>3. /\ live \subseteq refs
      /\ \A i \in 1 .. n : Introduces(q[i]) \subseteq refs \ live
      /\ \A i, j \in 1 .. n : i # j => Introduces(q[i]) \cap Introduces(q[j]) = {}
  BY <1>1, Zenon DEF Fresh
<1>4. \A i \in 1 .. n + 1 : i \in 1 .. n \/ i = n + 1
  BY <1>1
<1>5. PICK I : I = [i \in 1 .. n + 1 |-> Introduces(new[i])]
  OBVIOUS
<1>6. /\ \A i \in 1 .. n : I[i] = Introduces(q[i])
      /\ I[n + 1] = Introduces(e)
  BY <1>1, <1>2, <1>5
<1>7. /\ \A i \in 1 .. n + 1 : I[i] \subseteq more \ live
      /\ \A i, j \in 1 .. n + 1 : i # j => I[i] \cap I[j] = {}
  <2>1. /\ \A i \in 1 .. n : I[i] \subseteq refs \ live
        /\ \A i, j \in 1 .. n : i # j => I[i] \cap I[j] = {}
        /\ I[n + 1] \subseteq more \ refs
    BY <1>3, <1>6
  <2>2. ASSUME NEW i \in 1 .. n + 1 PROVE I[i] \subseteq more \ live
    <3>1. CASE i = n + 1
      BY <1>3, <2>1, <3>1
    <3>2. CASE i \in 1 .. n
      BY <2>1, <3>2
    <3>3. QED
      BY <1>4, <3>1, <3>2
  <2>3. ASSUME NEW i \in 1 .. n + 1, NEW j \in 1 .. n + 1, i # j
        PROVE  I[i] \cap I[j] = {}
    <3>1. CASE i \in 1 .. n /\ j \in 1 .. n
      BY <2>1, <2>3, <3>1
    <3>2. CASE i \in 1 .. n /\ j = n + 1
      BY <2>1, <3>2
    <3>3. CASE i = n + 1 /\ j \in 1 .. n
      BY <2>1, <3>3
    <3>4. QED
      BY <1>4, <2>3, <3>1, <3>2, <3>3
  <2>4. QED
    BY <2>2, <2>3, Zenon
<1>8. \A i \in 1 .. n + 1 : Introduces(new[i]) = I[i]
  BY <1>5
<1>9. /\ \A i \in 1 .. n + 1 : Introduces(new[i]) \subseteq more \ live
      /\ \A i, j \in 1 .. n + 1 : i # j => Introduces(new[i]) \cap Introduces(new[j]) = {}
  <2>1. ASSUME NEW i \in 1 .. n + 1 PROVE Introduces(new[i]) \subseteq more \ live
    BY <1>7, <1>8
  <2>2. ASSUME NEW i \in 1 .. n + 1, NEW j \in 1 .. n + 1, i # j
        PROVE  Introduces(new[i]) \cap Introduces(new[j]) = {}
    BY <1>7, <1>8, <2>2
  <2>3. QED
    BY <2>1, <2>2, Zenon
<1>10. live \subseteq more
  BY <1>3
<1>11. QED
  BY <1>2, <1>9, <1>10, Zenon DEF Fresh

LEMMA FreshKept ==
  ASSUME NEW q, NEW live, NEW refs, NEW more, Fresh(q, live, refs), refs \subseteq more
  PROVE  Fresh(q, live, more)
BY DEF Fresh

LEMMA FreshPopped ==
  ASSUME NEW q \in Seq(FeedEvent), q # <<>>, NEW live, NEW refs, Fresh(q, live, refs),
         NEW then, then \subseteq live \cup Introduces(q[1]),
         NEW new, new = RemoveAt(q, 1)
  PROVE  Fresh(new, then, refs)
<1>1. PICK n \in Nat : n = Len(new)
  BY Popped
<1>2. Len(q) = n + 1 /\ \A i \in 1 .. n : new[i] = q[i + 1]
  <2>1. Len(q) = Len(new) + 1 /\ \A i \in 1 .. Len(new) : new[i] = q[i + 1]
    BY Popped
  <2>2. QED
    BY <1>1, <2>1, Zenon
<1>3. /\ live \subseteq refs
      /\ \A i \in 1 .. n + 1 : Introduces(q[i]) \subseteq refs \ live
      /\ \A i, j \in 1 .. n + 1 : i # j => Introduces(q[i]) \cap Introduces(q[j]) = {}
  BY <1>2, Zenon DEF Fresh
<1>4. PICK I : I = [i \in 1 .. n + 1 |-> Introduces(q[i])]
  OBVIOUS
<1>5. \A i \in 1 .. n + 1 : Introduces(q[i]) = I[i]
  BY <1>4
<1>6. /\ \A i \in 1 .. n + 1 : I[i] \subseteq refs \ live
      /\ \A i, j \in 1 .. n + 1 : i # j => I[i] \cap I[j] = {}
  BY <1>3, <1>5, Zenon
<1>7. \A i \in 1 .. n : i + 1 \in 1 .. n + 1 /\ i + 1 # 1
  OBVIOUS
<1>8. 1 \in 1 .. n + 1 /\ \A i, j \in 1 .. n : i # j => i + 1 # j + 1
  OBVIOUS
<1>9. then \subseteq live \cup I[1]
  BY <1>4, <1>8
<1>10. \A i \in 1 .. n : Introduces(new[i]) = I[i + 1]
  BY <1>2, <1>5, <1>7, Zenon
<1>11. /\ then \subseteq refs
       /\ \A i \in 1 .. n : I[i + 1] \subseteq refs \ then
       /\ \A i, j \in 1 .. n : i # j => I[i + 1] \cap I[j + 1] = {}
  BY <1>3, <1>6, <1>7, <1>8, <1>9
<1>12. /\ \A i \in 1 .. n : Introduces(new[i]) \subseteq refs \ then
       /\ \A i, j \in 1 .. n : i # j => Introduces(new[i]) \cap Introduces(new[j]) = {}
  <2>1. ASSUME NEW i \in 1 .. n PROVE Introduces(new[i]) \subseteq refs \ then
    BY <1>10, <1>11
  <2>2. ASSUME NEW i \in 1 .. n, NEW j \in 1 .. n, i # j
        PROVE  Introduces(new[i]) \cap Introduces(new[j]) = {}
    BY <1>10, <1>11, <2>2
  <2>3. QED
    BY <2>1, <2>2, Zenon
<1>13. QED
  BY <1>1, <1>11, <1>12, Zenon DEF Fresh

\* The events of q lead from the orders `from' to the orders `to', through orders
\* that would not trade with each other.
Leads(ms, q, from, to) ==
  /\ ms[0] = from /\ ms[Len(q)] = to
  /\ \A i \in 0 .. Len(q) : Sane(ms[i])
  /\ \A i \in 1 .. Len(q) : Applies(ms[i - 1], q[i]) /\ Follows(ms[i - 1], q[i], ms[i])

LeadTo(q, from, to) == \E ms : Leads(ms, q, from, to)

LEMMA LeadsNowhere ==
  ASSUME NEW m, Sane(m)
  PROVE  LeadTo(<<>>, m, m)
<1>1. PICK ms : ms = [i \in {0} |-> m]
  OBVIOUS
<1>2. Leads(ms, <<>>, m, m)
  BY <1>1 DEF Leads
<1>3. QED
  BY <1>2 DEF LeadTo

LEMMA LeadsPushed ==
  ASSUME NEW q \in Seq(FeedEvent), NEW e \in FeedEvent, NEW from, NEW to, NEW then,
         LeadTo(q, from, to), Applies(to, e), Follows(to, e, then), Sane(then),
         NEW new, new = Append(q, e)
  PROVE  LeadTo(new, from, then)
<1>1. PICK n \in Nat : n = Len(q)
  OBVIOUS
<1>2. Len(new) = n + 1 /\ new[n + 1] = e /\ \A i \in 1 .. n : new[i] = q[i]
  <2>1. Len(new) = Len(q) + 1 /\ new[Len(q) + 1] = e /\ \A i \in 1 .. Len(q) : new[i] = q[i]
    BY Pushed
  <2>2. QED
    BY <1>1, <2>1, Zenon
<1>3. PICK ms : Leads(ms, q, from, to)
  BY DEF LeadTo
<1>4. /\ ms[0] = from /\ ms[n] = to
      /\ \A i \in 0 .. n : Sane(ms[i])
      /\ \A i \in 1 .. n : Applies(ms[i - 1], q[i]) /\ Follows(ms[i - 1], q[i], ms[i])
  BY <1>1, <1>3, Zenon DEF Leads
<1>5. PICK more : more = [i \in 0 .. n + 1 |-> IF i = n + 1 THEN then ELSE ms[i]]
  OBVIOUS
<1>6. more[n + 1] = then /\ \A i \in 0 .. n : more[i] = ms[i]
  BY <1>1, <1>5
<1>7. \A i \in 1 .. n + 1 : \/ i = n + 1 /\ i - 1 = n
                            \/ i \in 1 .. n /\ i \in 0 .. n /\ i - 1 \in 0 .. n
  BY <1>1
<1>8. 0 \in 0 .. n /\ n \in 0 .. n /\ \A i \in 0 .. n + 1 : i = n + 1 \/ i \in 0 .. n
  BY <1>1
<1>9. more[0] = from /\ more[n] = to
  BY <1>4, <1>6, <1>8
<1>10. \A i \in 0 .. n + 1 : Sane(more[i])
  BY <1>4, <1>6, <1>8, Zenon
<1>11. ASSUME NEW i \in 1 .. n + 1
       PROVE  Applies(more[i - 1], new[i]) /\ Follows(more[i - 1], new[i], more[i])
  <2>1. CASE i = n + 1 /\ i - 1 = n
    BY <1>2, <1>6, <1>9, <2>1, Zenon
  <2>2. CASE i \in 1 .. n /\ i \in 0 .. n /\ i - 1 \in 0 .. n
    BY <1>2, <1>4, <1>6, <2>2, Zenon
  <2>3. QED
    BY <1>7, <2>1, <2>2
<1>12. Leads(more, new, from, then)
  BY <1>2, <1>6, <1>9, <1>10, <1>11, Zenon DEF Leads
<1>13. QED
  BY <1>12 DEF LeadTo

\* What follows is determined by the event.
LEMMA FollowsOnce ==
  ASSUME NEW e \in FeedEvent, NEW m, NEW x, NEW y, Follows(m, e, x), Follows(m, e, y)
  PROVE  x = y
<1>1. e.type \in {"add", "reduce", "delete", "replace"}
  BY EventKinds
<1>2. QED
  BY <1>1, Zenon DEF Follows

LEMMA LeadsPopped ==
  ASSUME NEW q \in Seq(FeedEvent), q # <<>>, NEW from, NEW to, LeadTo(q, from, to),
         NEW then, Follows(from, q[1], then),
         NEW new, new = RemoveAt(q, 1)
  PROVE  LeadTo(new, then, to)
<1>1. PICK n \in Nat : n = Len(new)
  BY Popped
<1>2. Len(q) = n + 1 /\ q[1] \in FeedEvent /\ \A i \in 1 .. n : new[i] = q[i + 1]
  <2>1. /\ Len(q) = Len(new) + 1 /\ q[1] \in FeedEvent
        /\ \A i \in 1 .. Len(new) : new[i] = q[i + 1]
    BY Popped
  <2>2. QED
    BY <1>1, <2>1, Zenon
<1>3. PICK ms : Leads(ms, q, from, to)
  BY DEF LeadTo
<1>4. /\ ms[0] = from /\ ms[n + 1] = to
      /\ \A i \in 0 .. n + 1 : Sane(ms[i])
      /\ \A i \in 1 .. n + 1 : Applies(ms[i - 1], q[i]) /\ Follows(ms[i - 1], q[i], ms[i])
  BY <1>2, <1>3, Zenon DEF Leads
<1>5. ms[1] = then
  <2>1. 1 \in 1 .. n + 1 /\ 1 - 1 = 0
    BY <1>1
  <2>2. Follows(ms[0], q[1], ms[1])
    BY <1>4, <2>1
  <2>3. QED
    BY <1>2, <1>4, <2>2, FollowsOnce
<1>6. PICK less : less = [i \in 0 .. n |-> ms[i + 1]]
  OBVIOUS
<1>7. \A i \in 0 .. n : less[i] = ms[i + 1] /\ i + 1 \in 0 .. n + 1
  BY <1>1, <1>6
<1>8. 0 \in 0 .. n /\ n \in 0 .. n /\ 0 + 1 = 1
  BY <1>1
<1>9. less[0] = then /\ less[n] = to
  BY <1>4, <1>5, <1>7, <1>8
<1>10. \A i \in 0 .. n : Sane(less[i])
  BY <1>4, <1>7, Zenon
<1>11. ASSUME NEW i \in 1 .. n
       PROVE  Applies(less[i - 1], new[i]) /\ Follows(less[i - 1], new[i], less[i])
  <2>1. i - 1 \in 0 .. n /\ i \in 0 .. n /\ (i - 1) + 1 = i /\ i + 1 \in 1 .. n + 1 /\ (i + 1) - 1 = i
    BY <1>1
  <2>2. less[i - 1] = ms[i] /\ less[i] = ms[i + 1] /\ new[i] = q[i + 1]
    BY <1>2, <1>7, <2>1
  <2>3. Applies(ms[i], q[i + 1]) /\ Follows(ms[i], q[i + 1], ms[i + 1])
    BY <1>4, <2>1, Zenon
  <2>4. QED
    BY <2>2, <2>3, Zenon
<1>12. Leads(less, new, then, to)
  BY <1>1, <1>9, <1>10, <1>11, Zenon DEF Leads
<1>13. QED
  BY <1>12 DEF LeadTo

-----------------------------------------------------------------------------
(* The updates on their way. *)

\* What a subscriber has been told last of the BBO of s.
LastTold(us) == IF us = {} THEN NoBbo ELSE (CHOOSE u \in us : TRUE).snap

Shown(v, s) == LastTold(v[s])

\* b is what a subscriber will have been told of s after the updates of q.
Latest(q, v, s, b) ==
  /\ (\A i \in 1 .. Len(q) : q[i].stock # s) => b = Shown(v, s)
  /\ \A i \in 1 .. Len(q) :
       q[i].stock = s /\ (\A j \in 1 .. Len(q) : q[j].stock = s => j =< i) => q[i].snap = b

LEMMA LatestPushed ==
  ASSUME NEW q \in Seq(Update), NEW u \in Update, NEW v, NEW s, NEW b,
         u.stock = s => b = u.snap, u.stock # s => Latest(q, v, s, b),
         NEW new, new = Append(q, u)
  PROVE  Latest(new, v, s, b)
<1>1. PICK n \in Nat : n = Len(q)
  OBVIOUS
<1>2. Len(new) = n + 1 /\ new[n + 1] = u /\ \A i \in 1 .. n : new[i] = q[i]
  <2>1. Len(new) = Len(q) + 1 /\ new[Len(q) + 1] = u /\ \A i \in 1 .. Len(q) : new[i] = q[i]
    BY Pushed
  <2>2. QED
    BY <1>1, <2>1, Zenon
<1>3. \A i \in 1 .. n + 1 : i \in 1 .. n \/ i = n + 1
  BY <1>1
<1>4. n + 1 \in 1 .. n + 1 /\ (\A i \in 1 .. n : i \in 1 .. n + 1 /\ ~(n + 1 =< i))
  BY <1>1
<1>5. /\ (\A i \in 1 .. n + 1 : new[i].stock # s) => b = Shown(v, s)
      /\ \A i \in 1 .. n + 1 :
           new[i].stock = s /\ (\A j \in 1 .. n + 1 : new[j].stock = s => j =< i)
              => new[i].snap = b
  <2>1. CASE u.stock = s
    <3>1. ASSUME NEW i \in 1 .. n + 1, \A j \in 1 .. n + 1 : new[j].stock = s => j =< i
          PROVE  i = n + 1
      BY <1>2, <1>3, <1>4, <2>1, <3>1, Zenon
    <3>2. QED
      BY <1>2, <1>4, <2>1, <3>1, Zenon
  <2>2. CASE u.stock # s
    <3>1. /\ (\A i \in 1 .. n : q[i].stock # s) => b = Shown(v, s)
          /\ \A i \in 1 .. n :
               q[i].stock = s /\ (\A j \in 1 .. n : q[j].stock = s => j =< i) => q[i].snap = b
      BY <1>1, <2>2, Zenon DEF Latest
    <3>2. ASSUME \A i \in 1 .. n + 1 : new[i].stock # s
          PROVE  \A i \in 1 .. n : q[i].stock # s
      BY <1>2, <1>4, <3>2, Zenon
    <3>3. ASSUME NEW i \in 1 .. n + 1, new[i].stock = s,
                 \A j \in 1 .. n + 1 : new[j].stock = s => j =< i
          PROVE  new[i].snap = b
      <4>1. i \in 1 .. n
        BY <1>2, <1>3, <2>2, <3>3, Zenon
      <4>2. \A j \in 1 .. n : q[j].stock = s => j =< i
        BY <1>2, <1>4, <3>3, Zenon
      <4>3. new[i] = q[i]
        BY <1>2, <4>1
      <4>4. QED
        BY <3>1, <3>3, <4>1, <4>2, <4>3, Zenon
    <3>4. QED
      BY <3>1, <3>2, <3>3, Zenon
  <2>3. QED
    BY <2>1, <2>2
<1>6. QED
  BY <1>2, <1>5, Zenon DEF Latest

LEMMA LatestPopped ==
  ASSUME NEW q \in Seq(Update), q # <<>>, NEW v, v = [s \in Stocks |-> v[s]],
         NEW s \in Stocks, NEW b, Latest(q, v, s, b),
         NEW new, new = Tail(q), NEW w, w = [v EXCEPT ![q[1].stock] = {q[1]}]
  PROVE  Latest(new, w, s, b)
<1>1. PICK n \in Nat : n = Len(new)
  BY Popped
<1>2. Len(q) = n + 1 /\ \A i \in 1 .. n : new[i] = q[i + 1]
  <2>1. Len(q) = Len(new) + 1 /\ \A i \in 1 .. Len(new) : new[i] = q[i + 1]
    BY Popped
  <2>2. QED
    BY <1>1, <2>1, Zenon
<1>3. PICK u : u = q[1]
  OBVIOUS
<1>4. /\ (\A i \in 1 .. n + 1 : q[i].stock # s) => b = Shown(v, s)
      /\ \A i \in 1 .. n + 1 :
           q[i].stock = s /\ (\A j \in 1 .. n + 1 : q[j].stock = s => j =< i) => q[i].snap = b
  BY <1>2, Zenon DEF Latest
<1>5. /\ \A i \in 1 .. n : i + 1 \in 1 .. n + 1
      /\ \A i \in 1 .. n + 1 : i = 1 \/ (\E j \in 1 .. n : i = j + 1)
      /\ \A i, j \in 1 .. n : j =< i <=> j + 1 =< i + 1
      /\ 1 \in 1 .. n + 1 /\ \A i \in 1 .. n : 1 =< i + 1
  <2>1. ASSUME NEW i \in 1 .. n + 1, i # 1 PROVE \E j \in 1 .. n : i = j + 1
    <3>1. i - 1 \in 1 .. n /\ i = (i - 1) + 1
      BY <1>1, <2>1
    <3>2. QED
      BY <3>1, Zenon
  <2>2. QED
    BY <1>1, <2>1
<1>6. u.stock = s => Shown(w, s) = u.snap
  BY <1>3 DEF Shown, LastTold
<1>7. u.stock # s => Shown(w, s) = Shown(v, s)
  <2>1. SUFFICES ASSUME u.stock # s PROVE Shown(w, s) = Shown(v, s)
    OBVIOUS
  <2>2. w[s] = v[s]
    BY <1>3, <2>1
  <2>3. QED
    BY <2>2 DEF Shown
<1>8. ASSUME \A i \in 1 .. n : new[i].stock # s
      PROVE  b = Shown(w, s)
  <2>1. \A j \in 1 .. n : q[j + 1].stock # s
    BY <1>2, <1>8, Zenon
  <2>2. CASE u.stock = s
    <3>1. \A j \in 1 .. n + 1 : q[j].stock = s => j =< 1
      <4>1. SUFFICES ASSUME NEW j \in 1 .. n + 1, q[j].stock = s PROVE j = 1
        BY <1>1
      <4>2. QED
        BY <1>5, <2>1, <4>1, Zenon
    <3>2. QED
      BY <1>3, <1>4, <1>5, <1>6, <2>2, <3>1, Zenon
  <2>3. CASE u.stock # s
    <3>1. \A i \in 1 .. n + 1 : q[i].stock # s
      BY <1>3, <1>5, <2>1, <2>3, Zenon
    <3>2. QED
      BY <1>4, <1>7, <2>3, <3>1, Zenon
  <2>4. QED
    BY <2>2, <2>3
<1>9. ASSUME NEW i \in 1 .. n, new[i].stock = s, \A j \in 1 .. n : new[j].stock = s => j =< i
      PROVE  new[i].snap = b
  <2>1. i + 1 \in 1 .. n + 1 /\ new[i] = q[i + 1]
    BY <1>2, <1>5, Zenon
  <2>2. ASSUME NEW j \in 1 .. n + 1, q[j].stock = s PROVE j =< i + 1
    <3>1. CASE j = 1
      BY <1>1, <3>1
    <3>2. ASSUME NEW k \in 1 .. n, j = k + 1 PROVE j =< i + 1
      <4>1. new[k].stock = s
        BY <1>2, <2>2, <3>2, Zenon
      <4>2. k =< i
        BY <1>9, <4>1, Zenon
      <4>3. QED
        BY <1>1, <3>2, <4>2
    <3>3. j = 1 \/ \E k \in 1 .. n : j = k + 1
      BY <1>5, Zenon
    <3>4. QED
      BY <3>1, <3>2, <3>3, Zenon
  <2>3. QED
    BY <1>4, <1>9, <2>1, <2>2, Zenon
<1>10. QED
  BY <1>1, <1>8, <1>9, Zenon DEF Latest

-----------------------------------------------------------------------------
(* The invariant. *)

EventsInv ==
  /\ event_queue \in Seq(FeedEvent)
  /\ Fresh(event_queue, Live, used)
  /\ lost \in Nat
  /\ lost = 0 => LeadTo(event_queue, LiveOrders, market)

UpdatesInv ==
  /\ broadcast \in Seq(Update)
  /\ view = [s \in Stocks |-> view[s]]
  /\ unsent \in Nat
  /\ unsent = 0 =>
       \A s \in Stocks : Latest(broadcast, view, s, snapshot_bbo(books[s].levels))

GatewayInv == FeedInv /\ MarketInv /\ EventsInv /\ UpdatesInv

LEMMA NothingLive ==
  ASSUME Init
  PROVE  Live = {} /\ LiveOrders = EmptyMap
<1>1. \A s \in Stocks : books[s] = NewBook
  BY DEF Init
<1>2. NewBook.orders = EmptyMap /\ DOMAIN EmptyMap = {}
  BY DEF NewBook, EmptyMap
<1>3. Live = {}
  BY <1>1, <1>2 DEF Live
<1>4. QED
  BY <1>3 DEF LiveOrders, EmptyMap

LEMMA GatewayInvInit == GatewayInit => GatewayInv
<1> SUFFICES ASSUME GatewayInit PROVE GatewayInv
  OBVIOUS
<1>1. FeedInv
  BY FeedInit DEF GatewayInit
<1>2. Live = {} /\ LiveOrders = EmptyMap
  BY NothingLive DEF GatewayInit
<1>3. /\ market = EmptyMap /\ used = {} /\ event_queue = <<>> /\ broadcast = <<>>
      /\ view = [s \in Stocks |-> {}] /\ lost = 0 /\ unsent = 0
  BY DEF GatewayInit
<1>4. DOMAIN EmptyMap = {}
  BY DEF EmptyMap
<1>5. Sane(EmptyMap)
  BY <1>4 DEF Sane
<1>6. MarketInv
  BY <1>3, <1>5 DEF MarketInv, IsMap, EmptyMap
<1>7. EventsInv
  <2>1. LeadTo(<<>>, EmptyMap, EmptyMap)
    BY <1>5, LeadsNowhere
  <2>2. Fresh(<<>>, {}, {})
    BY DEF Fresh
  <2>3. QED
    BY <1>2, <1>3, <2>1, <2>2 DEF EventsInv
<1>8. UpdatesInv
  <2>1. ASSUME NEW s \in Stocks
        PROVE  Latest(<<>>, view, s, snapshot_bbo(books[s].levels))
    <3>1. books[s].levels = [sd \in Side |-> EmptyMap]
      BY DEF GatewayInit, Init, NewBook
    <3>2. snapshot_bbo(books[s].levels) = NoBbo
      BY <1>4, <3>1 DEF snapshot_bbo, best_snapshot, NoBbo, Side
    <3>3. Shown(view, s) = NoBbo
      BY <1>3 DEF Shown, LastTold
    <3>4. QED
      BY <3>2, <3>3 DEF Latest
  <2>2. broadcast \in Seq(Update) /\ view = [s \in Stocks |-> view[s]] /\ unsent \in Nat
    BY <1>3
  <2>3. QED
    BY <1>3, <2>1, <2>2, Zenon DEF UpdatesInv
<1>9. QED
  BY <1>1, <1>6, <1>7, <1>8 DEF GatewayInv

\* A step that leaves the books alone.
LEMMA BooksStand ==
  ASSUME FeedInv, UNCHANGED vars
  PROVE  /\ FeedInv' /\ Live' = Live /\ LiveOrders' = LiveOrders
         /\ \A s \in Stocks : snapshot_bbo(books'[s].levels) = snapshot_bbo(books[s].levels)
<1>1. FeedInv'
  BY FeedStep
<1>2. books' = books
  BY DEF vars
<1>3. Live' = Live
  BY <1>2 DEF Live
<1>4. LiveOrders' = LiveOrders
  BY <1>2, <1>3, Zenon DEF LiveOrders
<1>5. QED
  BY <1>1, <1>2, <1>3, <1>4

\* A step that leaves the updates, the view and the books alone.
LEMMA UpdatesStand ==
  ASSUME UpdatesInv, broadcast' = broadcast, view' = view, unsent' = unsent,
         \A s \in Stocks : snapshot_bbo(books'[s].levels) = snapshot_bbo(books[s].levels)
  PROVE  UpdatesInv'
<1>1. unsent = 0 => \A s \in Stocks :
                      Latest(broadcast, view, s, snapshot_bbo(books'[s].levels))
  BY DEF UpdatesInv
<1>2. QED
  BY <1>1, Zenon DEF UpdatesInv

LEMMA EventsStand ==
  ASSUME EventsInv, event_queue' = event_queue, lost' = lost, used' = used,
         market' = market, Live' = Live, LiveOrders' = LiveOrders
  PROVE  EventsInv'
BY Zenon DEF EventsInv

LEMMA MarketStands ==
  ASSUME MarketInv, market' = market, used' = used
  PROVE  MarketInv'
BY Zenon DEF MarketInv, IsMap, Sane

\* The consumer pushes an event of the exchange, or loses it.
LEMMA PushKeeps ==
  ASSUME GatewayInv, MarketInv', NEW e \in FeedEvent, Sends(e)
  PROVE  GatewayInv'
<1>1. FeedInv /\ EventsInv /\ UpdatesInv
  BY DEF GatewayInv
<1>2. /\ push_event(e) /\ Applies(market, e) /\ Follows(market, e, market')
      /\ used \subseteq used' /\ Introduces(e) \subseteq used' \ used
  BY DEF Sends
<1>3. UNCHANGED vars /\ broadcast' = broadcast /\ view' = view /\ unsent' = unsent
  BY <1>2 DEF push_event, vars
<1>4. /\ FeedInv' /\ Live' = Live /\ LiveOrders' = LiveOrders
      /\ \A s \in Stocks : snapshot_bbo(books'[s].levels) = snapshot_bbo(books[s].levels)
  BY <1>1, <1>3, BooksStand
<1>5. UpdatesInv'
  BY <1>1, <1>3, <1>4, UpdatesStand
<1>6. EventsInv'
  <2>1. event_queue \in Seq(FeedEvent) /\ Fresh(event_queue, Live, used) /\ lost \in Nat
    BY <1>1 DEF EventsInv
  <2>2. CASE event_queue' = Append(event_queue, e) /\ lost' = lost
    <3>1. event_queue' \in Seq(FeedEvent)
      BY <2>1, <2>2, Pushed
    <3>2. Fresh(event_queue', Live, used')
      BY <1>2, <2>1, <2>2, FreshPushed
    <3>3. lost = 0 => LeadTo(event_queue', LiveOrders, market')
      <4>1. SUFFICES ASSUME lost = 0 PROVE LeadTo(event_queue', LiveOrders, market')
        OBVIOUS
      <4>2. LeadTo(event_queue, LiveOrders, market)
        BY <1>1, <4>1 DEF EventsInv
      <4>3. Sane(market')
        BY DEF MarketInv, Sane
      <4>4. QED
        BY <1>2, <2>1, <2>2, <4>2, <4>3, LeadsPushed
    <3>4. QED
      BY <1>4, <2>1, <2>2, <3>1, <3>2, <3>3, Zenon DEF EventsInv
  <2>3. CASE event_queue' = event_queue /\ lost' = lost + 1
    <3>1. Fresh(event_queue, Live, used')
      BY <1>2, <2>1, FreshKept
    <3>2. lost' \in Nat /\ lost' # 0
      BY <2>1, <2>3
    <3>3. QED
      BY <1>4, <2>1, <2>3, <3>1, <3>2, Zenon DEF EventsInv
  <2>4. QED
    BY <1>2, <2>2, <2>3 DEF push_event
<1>7. QED
  BY <1>4, <1>5, <1>6, Zenon DEF GatewayInv

\* The update of an event is queued, or counted as refused.
LEMMA EnqueueKeeps ==
  ASSUME FeedInv', UpdatesInv, \A s \in Stocks : Told(s), enqueue_bbo, view' = view
  PROVE  UpdatesInv'
<1>1. /\ broadcast \in Seq(Update) /\ view = [s \in Stocks |-> view[s]] /\ unsent \in Nat
      /\ unsent = 0 =>
           \A s \in Stocks : Latest(broadcast, view, s, snapshot_bbo(books[s].levels))
  BY DEF UpdatesInv
<1>2. bbo' \subseteq Update /\ \A u, v \in bbo' : u = v
  BY DEF FeedInv, Inv, BboOK
<1>3. CASE bbo' = {}
  <2>1. broadcast' = broadcast /\ unsent' = unsent
    BY <1>3 DEF enqueue_bbo
  <2>2. ASSUME NEW s \in Stocks
        PROVE  snapshot_bbo(books'[s].levels) = snapshot_bbo(books[s].levels)
    BY <1>3 DEF Told
  <2>3. QED
    BY <2>1, <2>2, UpdatesStand
<1>4. CASE bbo' # {} /\ Len(broadcast) = BroadcastCap
  <2>1. broadcast' = broadcast /\ unsent' = unsent + 1
    BY <1>4 DEF enqueue_bbo
  <2>2. unsent' \in Nat /\ unsent' # 0
    BY <1>1, <2>1
  <2>3. QED
    BY <1>1, <2>1, <2>2, Zenon DEF UpdatesInv
<1>5. CASE bbo' # {} /\ Len(broadcast) # BroadcastCap
  <2>1. PICK u \in bbo' : u = CHOOSE v \in bbo' : TRUE
    BY <1>5
  <2>2. u \in Update /\ bbo' = {u}
    BY <1>2, <2>1
  <2>3. broadcast' = Append(broadcast, u) /\ unsent' = unsent
    BY <1>5, <2>1 DEF enqueue_bbo
  <2>4. broadcast' \in Seq(Update)
    BY <1>1, <2>2, <2>3, Pushed
  <2>5. ASSUME NEW s \in Stocks
        PROVE  /\ u.stock = s => snapshot_bbo(books'[s].levels) = u.snap
               /\ u.stock # s =>
                    snapshot_bbo(books'[s].levels) = snapshot_bbo(books[s].levels)
    BY <2>2 DEF Told
  <2>6. ASSUME unsent = 0, NEW s \in Stocks
        PROVE  Latest(broadcast', view, s, snapshot_bbo(books'[s].levels))
    <3>1. PICK b : b = snapshot_bbo(books'[s].levels)
      OBVIOUS
    <3>2. Latest(broadcast, view, s, snapshot_bbo(books[s].levels))
      BY <1>1, <2>6
    <3>3. u.stock = s => b = u.snap
      BY <2>5, <3>1
    <3>4. u.stock # s => Latest(broadcast, view, s, b)
      <4>1. SUFFICES ASSUME u.stock # s PROVE Latest(broadcast, view, s, b)
        OBVIOUS
      <4>2. b = snapshot_bbo(books[s].levels)
        BY <2>5, <3>1, <4>1
      <4>3. QED
        BY <3>2, <4>2
    <3>5. Latest(broadcast', view, s, b)
      BY <1>1, <2>2, <2>3, <3>3, <3>4, LatestPushed
    <3>6. QED
      BY <3>1, <3>5
  <2>7. QED
    BY <1>1, <2>3, <2>4, <2>6, Zenon DEF UpdatesInv
<1>6. QED
  BY <1>3, <1>4, <1>5

\* The writer applies the oldest event of the queue.
LEMMA ApplyKeeps ==
  ASSUME GatewayInv, event_queue # <<>>, apply_event(event_queue[next]), enqueue_bbo,
         event_queue' = remaining, UNCHANGED <<market, used, view, lost>>
  PROVE  FeedNext /\ GatewayInv'
<1>1. FeedInv /\ MarketInv /\ EventsInv /\ UpdatesInv
  BY DEF GatewayInv
<1>2. PICK e : e = event_queue[1]
  OBVIOUS
<1>3. apply_event(e) /\ event_queue' = RemoveAt(event_queue, 1)
  BY <1>2 DEF next, remaining
<1>4. event_queue \in Seq(FeedEvent) /\ Fresh(event_queue, Live, used) /\ lost \in Nat
  BY <1>1 DEF EventsInv
<1>5. e \in FeedEvent /\ event_queue' \in Seq(FeedEvent)
  BY <1>2, <1>3, <1>4, Popped
<1>6. 1 \in 1 .. Len(event_queue)
  BY <1>4
<1>7. Introduces(e) \cap Live = {}
  <2>1. Introduces(event_queue[1]) \subseteq used \ Live
    BY <1>4, <1>6, Zenon DEF Fresh
  <2>2. QED
    BY <1>2, <2>1
<1>8. FeedNext /\ Live' \subseteq Live \cup Introduces(e)
  BY <1>1, <1>3, <1>5, <1>7, EventIsFeed
<1>9. FeedInv'
  BY <1>1, <1>8, FeedStep
<1>10. \A s \in Stocks : Told(s)
  BY <1>1, <1>8, FeedIsNext, NextTells DEF FeedInv
<1>11. UpdatesInv'
  BY <1>1, <1>9, <1>10, EnqueueKeeps
<1>12. Fresh(event_queue', Live', used')
  <2>1. Fresh(event_queue', Live', used)
    BY <1>2, <1>3, <1>4, <1>8, FreshPopped
  <2>2. QED
    BY <2>1, Zenon
<1>13. ASSUME lost = 0
       PROVE  LeadTo(event_queue', LiveOrders', market')
  <2>1. PICK ms : Leads(ms, event_queue, LiveOrders, market)
    BY <1>1, <1>13 DEF EventsInv, LeadTo
  <2>2. ms[0] = LiveOrders /\ Applies(ms[1 - 1], event_queue[1])
    BY <1>6, <2>1, Zenon DEF Leads
  <2>3. 1 - 1 = 0
    OBVIOUS
  <2>4. Applies(LiveOrders, e)
    BY <1>2, <2>2, <2>3
  <2>5. Follows(LiveOrders, e, LiveOrders')
    BY <1>1, <1>3, <1>5, <1>9, <2>4, BooksFollow
  <2>6. LeadTo(event_queue, LiveOrders, market)
    BY <1>1, <1>13 DEF EventsInv
  <2>7. LeadTo(event_queue', LiveOrders', market)
    BY <1>2, <1>3, <1>4, <2>5, <2>6, LeadsPopped
  <2>8. QED
    BY <2>7, Zenon
<1>14. EventsInv'
  <2>1. lost' = lost
    OBVIOUS
  <2>2. QED
    BY <1>4, <1>5, <1>12, <1>13, <2>1, Zenon DEF EventsInv
<1>15. MarketInv'
  BY <1>1, MarketStands
<1>16. QED
  BY <1>8, <1>9, <1>11, <1>14, <1>15, Zenon DEF GatewayInv

\* A subscriber gets an update.
LEMMA DeliverKeeps == GatewayInv /\ Deliver => GatewayInv'
<1> SUFFICES ASSUME GatewayInv, Deliver PROVE GatewayInv'
  OBVIOUS
<1>1. FeedInv /\ MarketInv /\ EventsInv /\ UpdatesInv
  BY DEF GatewayInv
<1>2. /\ UNCHANGED vars /\ event_queue' = event_queue /\ lost' = lost /\ unsent' = unsent
      /\ market' = market /\ used' = used
  BY DEF Deliver, vars
<1>3. /\ FeedInv' /\ Live' = Live /\ LiveOrders' = LiveOrders
      /\ \A s \in Stocks : snapshot_bbo(books'[s].levels) = snapshot_bbo(books[s].levels)
  BY <1>1, <1>2, BooksStand
<1>4. EventsInv' /\ MarketInv'
  BY <1>1, <1>2, <1>3, EventsStand, MarketStands
<1>5. UpdatesInv'
  <2>1. /\ broadcast \in Seq(Update) /\ view = [s \in Stocks |-> view[s]] /\ unsent \in Nat
        /\ unsent = 0 =>
             \A s \in Stocks : Latest(broadcast, view, s, snapshot_bbo(books[s].levels))
    BY <1>1 DEF UpdatesInv
  <2>2. broadcast # <<>> /\ broadcast' = Tail(broadcast) /\ Head(broadcast) = broadcast[1]
    BY <2>1 DEF Deliver
  <2>3. view' = [view EXCEPT ![broadcast[1].stock] = {broadcast[1]}]
    BY <2>2 DEF Deliver
  <2>4. broadcast' \in Seq(Update)
    BY <2>1, <2>2, Popped
  <2>5. view' = [s \in Stocks |-> view'[s]]
    BY <2>1, <2>3
  <2>6. ASSUME unsent = 0, NEW s \in Stocks
        PROVE  Latest(broadcast', view', s, snapshot_bbo(books'[s].levels))
    <3>1. PICK b : b = snapshot_bbo(books[s].levels)
      OBVIOUS
    <3>2. Latest(broadcast, view, s, b)
      BY <2>1, <2>6, <3>1
    <3>3. Latest(broadcast', view', s, b)
      BY <2>1, <2>2, <2>3, <3>2, LatestPopped
    <3>4. QED
      BY <1>3, <3>1, <3>3
  <2>7. QED
    BY <1>2, <2>1, <2>4, <2>5, <2>6, Zenon DEF UpdatesInv
<1>6. QED
  BY <1>3, <1>4, <1>5, Zenon DEF GatewayInv

\* Every other step leaves the queues, the exchange and the books alone.
LEMMA OthersKeep ==
  ASSUME GatewayInv, UNCHANGED vars,
         UNCHANGED <<market, used, event_queue, broadcast, view, lost, unsent>>
  PROVE  GatewayInv'
<1>1. FeedInv /\ MarketInv /\ EventsInv /\ UpdatesInv
  BY DEF GatewayInv
<1>2. /\ FeedInv' /\ Live' = Live /\ LiveOrders' = LiveOrders
      /\ \A s \in Stocks : snapshot_bbo(books'[s].levels) = snapshot_bbo(books[s].levels)
  BY <1>1, BooksStand
<1>3. EventsInv' /\ MarketInv' /\ UpdatesInv'
  BY <1>1, <1>2, EventsStand, MarketStands, UpdatesStand
<1>4. QED
  BY <1>2, <1>3, Zenon DEF GatewayInv

LEMMA GatewayInvNext ==
  GatewayInv /\ [GatewayNext]_gateway => [FeedNext]_vars /\ GatewayInv'
<1> SUFFICES ASSUME GatewayInv, [GatewayNext]_gateway PROVE [FeedNext]_vars /\ GatewayInv'
  OBVIOUS
<1>1. MarketInv
  BY DEF GatewayInv
<1>2. ASSUME NEW e \in FeedEvent, Sends(e), MarketInv'
      PROVE  [FeedNext]_vars /\ GatewayInv'
  <2>1. UNCHANGED vars
    BY <1>2 DEF Sends, push_event, vars
  <2>2. QED
    BY <1>2, <2>1, PushKeeps
<1>3. CASE Exchange
  <2>1. ASSUME NEW r \in Refs \ used, NEW s \in Stocks, NEW sd \in Side,
               NEW n \in Shares \ {0}, NEW p \in Prices, Enter(r, s, sd, n, p)
        PROVE  MarketInv' /\ \E e \in FeedEvent : Sends(e)
    BY <1>1, <2>1, EnterSends
  <2>2. ASSUME NEW r \in DOMAIN market, NEW n \in Shares \ {0}, Reduce(r, n)
        PROVE  MarketInv' /\ \E e \in FeedEvent : Sends(e)
    BY <1>1, <2>2, ReduceSends
  <2>3. ASSUME NEW r \in DOMAIN market, Withdraw(r)
        PROVE  MarketInv' /\ \E e \in FeedEvent : Sends(e)
    BY <1>1, <2>3, WithdrawSends
  <2>4. ASSUME NEW r \in DOMAIN market, NEW new_r \in Refs \ used, NEW n \in Shares \ {0},
               NEW p \in Prices, Amend(r, new_r, n, p)
        PROVE  MarketInv' /\ \E e \in FeedEvent : Sends(e)
    BY <1>1, <2>4, AmendSends
  <2>5. MarketInv' /\ \E e \in FeedEvent : Sends(e)
    BY <1>3, <2>1, <2>2, <2>3, <2>4 DEF Exchange
  <2>6. QED
    BY <1>2, <2>5
<1>4. CASE WriteEvent
  <2>1. UNCHANGED <<market, used, view, lost>>
    BY <1>4 DEF WriteEvent
  <2>2. CASE /\ event_queue # <<>> /\ apply_event(event_queue[next])
             /\ enqueue_bbo /\ event_queue' = remaining
    BY <2>1, <2>2, ApplyKeeps
  <2>3. CASE UNCHANGED <<event_queue, broadcast, unsent, books, order_to_stock, bbo>>
    BY <2>1, <2>3, OthersKeep DEF vars
  <2>4. QED
    BY <1>4, <2>2, <2>3 DEF WriteEvent
<1>5. CASE Deliver
  <2>1. UNCHANGED vars
    BY <1>5 DEF Deliver, vars
  <2>2. QED
    BY <1>5, <2>1, DeliverKeeps
<1>6. CASE ConsumerStop \/ WriterLoop \/ Stop \/ UNCHANGED gateway
  <2>1. UNCHANGED vars /\ UNCHANGED <<market, used, event_queue, broadcast, view, lost, unsent>>
    BY <1>6 DEF ConsumerStop, WriterLoop, Stop, Interrupt, gateway, vars
  <2>2. QED
    BY <2>1, OthersKeep
<1>7. QED
  BY <1>3, <1>4, <1>5, <1>6 DEF GatewayNext

LEMMA GatewayInvHolds == GatewaySpec => []GatewayInv
<1>1. GatewayInit => GatewayInv
  BY GatewayInvInit
<1>2. GatewayInv /\ [GatewayNext]_gateway => GatewayInv'
  BY GatewayInvNext
<1>3. QED
  BY <1>1, <1>2, PTL DEF GatewaySpec

-----------------------------------------------------------------------------
\* Whatever the exchange does and whatever push_event loses, the writer asks of
\* the books only what an ITCH feed may: no reference is added while it is in
\* use.  The theorems about FeedSpec hold of the books of the gateway.
THEOREM BooksSeeAFeed == GatewaySpec => FeedOnly
<1>1. GatewayInit => Init
  BY DEF GatewayInit
<1>2. GatewayInv /\ [GatewayNext]_gateway => [FeedNext]_vars
  BY GatewayInvNext
<1>3. QED
  BY <1>1, <1>2, GatewayInvHolds, PTL DEF GatewaySpec, FeedOnly, FeedSpec

\* A level is at a price at which an order of the book rests.
LEMMA BestRests ==
  ASSUME FeedInv, NEW s \in Stocks, NEW sd \in Side,
         best_snapshot(books[s].levels[sd], sd)[1] # 0
  PROVE  \E r \in Live : /\ LiveOrders[r].stock = s /\ LiveOrders[r].side = sd
                         /\ LiveOrders[r].price = best_snapshot(books[s].levels[sd], sd)[1]
<1>1. PICK levels : levels = books[s].levels[sd]
  OBVIOUS
<1>2. IsLevels(levels)
  BY <1>1, BookParts DEF FeedInv, ExactBook, GoodBook, IsSides
<1>3. PICK p : p = best_snapshot(levels, sd)[1]
  OBVIOUS
<1>4. p \in DOMAIN levels
  <2>1. PICK D : D = DOMAIN levels
    OBVIOUS
  <2>2. D \in SUBSET Nat /\ IsFiniteSet(D)
    BY <1>2, <2>1, BookAssumption, FS_Subset DEF IsLevels, IsMap
  <2>3. D # {}
    BY <1>1, <2>1 DEF best_snapshot
  <2>4. Max(D) \in D
    BY <2>2, <2>3, GreatestOfFinite DEF Max
  <2>5. Min(D) \in D
    BY <2>2, <2>3, LeastNat DEF Min
  <2>6. p = Max(D) \/ p = Min(D)
    BY <1>3, <2>1, <2>3 DEF best_snapshot
  <2>7. QED
    BY <2>1, <2>4, <2>5, <2>6
<1>5. p \in Prices
  BY <1>2, <1>4 DEF IsLevels, IsMap
<1>6. At(books[s].orders, sd, p) # {}
  BY <1>1, <1>4, <1>5, ExactIsConserved DEF VolumeConserved
<1>7. PICK r \in DOMAIN books[s].orders :
         books[s].orders[r].side = sd /\ books[s].orders[r].price = p
  BY <1>6 DEF At
<1>8. r \in Live /\ LiveOrders[r] = OrderAt(s, r)
  BY LiveIsExact DEF LiveExact
<1>9. LiveOrders[r].stock = s /\ LiveOrders[r].side = sd /\ LiveOrders[r].price = p
  BY <1>7, <1>8 DEF OrderAt
<1>10. QED
  BY <1>1, <1>3, <1>8, <1>9

\* While push_event has lost no event, no book is ever crossed, however far the
\* writer is behind: every book state is one the exchange has been in.
THEOREM NeverCrossedWithoutLoss == GatewaySpec => []NeverCrossedUnlessLost
<1>1. GatewayInv => NeverCrossedUnlessLost
  <2>1. SUFFICES ASSUME GatewayInv, lost = 0, NEW s \in Stocks,
                        is_crossed(snapshot_bbo(books[s].levels))
                 PROVE  FALSE
    BY DEF NeverCrossedUnlessLost, Crossed
  <2>2. FeedInv
    BY <2>1 DEF GatewayInv
  <2>3. Sane(LiveOrders)
    <3>1. LeadTo(event_queue, LiveOrders, market) /\ event_queue \in Seq(FeedEvent)
      BY <2>1 DEF GatewayInv, EventsInv
    <3>2. 0 \in 0 .. Len(event_queue)
      BY <3>1
    <3>3. QED
      BY <3>1, <3>2, Zenon DEF LeadTo, Leads
  <2>4. PICK bid : bid = best_snapshot(books[s].levels["Buy"], "Buy")[1]
    OBVIOUS
  <2>5. PICK ask : ask = best_snapshot(books[s].levels["Sell"], "Sell")[1]
    OBVIOUS
  <2>6. bid # 0 /\ ask # 0 /\ bid > ask
    BY <2>1, <2>4, <2>5 DEF is_crossed, snapshot_bbo
  <2>7. "Buy" \in Side /\ "Sell" \in Side
    BY DEF Side
  <2>8. PICK r \in Live : /\ LiveOrders[r].stock = s /\ LiveOrders[r].side = "Buy"
                          /\ LiveOrders[r].price = bid
    BY <2>2, <2>4, <2>6, <2>7, BestRests
  <2>9. PICK t \in Live : /\ LiveOrders[t].stock = s /\ LiveOrders[t].side = "Sell"
                          /\ LiveOrders[t].price = ask
    BY <2>2, <2>5, <2>6, <2>7, BestRests
  <2>10. DOMAIN LiveOrders = Live
    BY DEF LiveOrders
  <2>11. bid < ask
    BY <2>3, <2>8, <2>9, <2>10 DEF Sane
  <2>12. bid \in Nat /\ ask \in Nat
    BY <2>2, <2>4, <2>5, <2>7, BookParts, BestType DEF FeedInv, ExactBook, GoodBook, IsSides
  <2>13. QED
    BY <2>6, <2>11, <2>12
<1>2. QED
  BY <1>1, GatewayInvHolds, PTL

\* When the queue is empty and no event was lost, the books hold the orders of
\* the exchange and no others.
THEOREM BooksCatchUp == GatewaySpec => []CaughtUp
<1>1. GatewayInv => CaughtUp
  <2>1. SUFFICES ASSUME GatewayInv, event_queue = <<>>, lost = 0
                 PROVE  Resting = {[r |-> r, stock |-> market[r].stock,
                                    order |-> [side   |-> market[r].side,
                                               price  |-> market[r].price,
                                               shares |-> market[r].shares]]
                                     : r \in DOMAIN market}
    BY DEF CaughtUp
  <2>2. FeedInv
    BY <2>1 DEF GatewayInv
  <2>3. market = LiveOrders
    <3>1. LeadTo(<<>>, LiveOrders, market)
      BY <2>1 DEF GatewayInv, EventsInv
    <3>2. Len(<<>>) = 0
      OBVIOUS
    <3>3. QED
      BY <3>1, <3>2, Zenon DEF LeadTo, Leads
  <2>4. DOMAIN LiveOrders = Live
    BY DEF LiveOrders
  <2>5. ASSUME NEW s \in Stocks, NEW r \in DOMAIN books[s].orders
        PROVE  /\ r \in Live
               /\ [r |-> r, stock |-> s, order |-> books[s].orders[r]]
                    = [r |-> r, stock |-> LiveOrders[r].stock,
                       order |-> [side   |-> LiveOrders[r].side,
                                  price  |-> LiveOrders[r].price,
                                  shares |-> LiveOrders[r].shares]]
    <3>1. r \in Live /\ LiveOrders[r] = OrderAt(s, r)
      BY <2>2, LiveIsExact DEF LiveExact
    <3>2. books[s].orders[r] \in OrderInfo
      BY <2>2, BookParts DEF FeedInv, ExactBook, GoodBook, IsOrders, IsMap
    <3>3. books[s].orders[r] = [side   |-> books[s].orders[r].side,
                                price  |-> books[s].orders[r].price,
                                shares |-> books[s].orders[r].shares]
      BY <3>2 DEF OrderInfo
    <3>4. QED
      BY <3>1, <3>3 DEF OrderAt
  <2>6. ASSUME NEW r \in Live PROVE \E s \in Stocks : r \in DOMAIN books[s].orders
    BY <2>2, LiveIsExact DEF LiveExact
  <2>7. Resting = {[r |-> r, stock |-> LiveOrders[r].stock,
                    order |-> [side   |-> LiveOrders[r].side,
                               price  |-> LiveOrders[r].price,
                               shares |-> LiveOrders[r].shares]] : r \in Live}
    <3> DEFINE Row(s, r) == [r |-> r, stock |-> s, order |-> books[s].orders[r]]
               Sent(r) == [r |-> r, stock |-> LiveOrders[r].stock,
                           order |-> [side   |-> LiveOrders[r].side,
                                      price  |-> LiveOrders[r].price,
                                      shares |-> LiveOrders[r].shares]]
               Rows(s) == {Row(s, r) : r \in DOMAIN books[s].orders}
    <3>1. \A s \in Stocks : \A r \in DOMAIN books[s].orders : r \in Live /\ Row(s, r) = Sent(r)
      BY <2>5, Zenon
    <3>2. Resting = UNION {Rows(s) : s \in Stocks}
      BY Zenon DEF Resting
    <3> HIDE DEF Row, Sent
    <3>3. ASSUME NEW x \in UNION {Rows(s) : s \in Stocks}
          PROVE  x \in {Sent(r) : r \in Live}
      BY <3>1
    <3>4. ASSUME NEW r \in Live PROVE Sent(r) \in UNION {Rows(s) : s \in Stocks}
      <4>1. PICK s \in Stocks : r \in DOMAIN books[s].orders
        BY <2>6
      <4>2. Sent(r) \in Rows(s)
        BY <3>1, <4>1
      <4>3. QED
        BY <4>2
    <3>5. Resting = {Sent(r) : r \in Live}
      BY <3>2, <3>3, <3>4
    <3>6. QED
      BY <3>5 DEF Sent
  <2>8. QED
    BY <2>3, <2>4, <2>7
<1>2. QED
  BY <1>1, GatewayInvHolds, PTL

\* When the broadcast queue is empty and no update was refused, a subscriber that
\* keeps the last update of every stock sees the BBO of every book.
THEOREM SubscriberIsCurrent == GatewaySpec => []ViewCurrent
<1>1. GatewayInv => ViewCurrent
  <2>1. SUFFICES ASSUME GatewayInv, broadcast = <<>>, unsent = 0, NEW s \in Stocks
                 PROVE  snapshot_bbo(books[s].levels) =
                          IF view[s] = {} THEN NoBbo
                          ELSE (CHOOSE u \in view[s] : TRUE).snap
    BY DEF ViewCurrent
  <2>2. Latest(<<>>, view, s, snapshot_bbo(books[s].levels))
    BY <2>1 DEF GatewayInv, UpdatesInv
  <2>3. snapshot_bbo(books[s].levels) = Shown(view, s)
    BY <2>2 DEF Latest
  <2>4. QED
    BY <2>3, Zenon DEF Shown, LastTold
<1>2. QED
  BY <1>1, GatewayInvHolds, PTL

=============================================================================
