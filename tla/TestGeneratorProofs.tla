------------------------ MODULE TestGeneratorProofs -------------------------
(***************************************************************************)
(* Proofs about the test generator, for any number of ticks within one     *)
(* batch, any backlog and any width of the counters above its prices: its  *)
(* prices stay near the base price although the drift is cast and wraps,   *)
(* and its references are fresh whatever of it still waits.  So what it    *)
(* sends is an ITCH feed, and all that module OrderBookProofs shows of the *)
(* books on a feed holds of them behind the generator.                     *)
(***************************************************************************)
EXTENDS TestGenerator, OrderBookProofs, SequenceTheorems

-----------------------------------------------------------------------------
(* Its numbers. *)

LEMMA Constants ==
  /\ AAPL \in Stocks /\ MaxTicks \in Nat
  /\ SentRefs \subseteq Refs /\ SentShares \subseteq Shares /\ SentPrices \subseteq Prices
BY GeneratorAssumption, SMT DEF GeneratorAssumption

LEMMA ModUnique ==
  ASSUME NEW w \in Nat \ {0}, NEW q \in Int, NEW r \in Int, 0 =< r, r < w
  PROVE  (w * q + r) % w = r
<1>1. PICK a \in Int : a = w * q + r
  OBVIOUS
<1>2. a % w \in 0 .. w - 1 /\ a = w * (a \div w) + (a % w) /\ a \div w \in Int
  BY <1>1
<1>3. PICK d \in Int, m \in Int : d = a \div w /\ m = a % w
  BY <1>2
<1>4. w * (q - d) = m - r
  BY <1>1, <1>2, <1>3
<1>5. q - d < 1 /\ q - d > -1
  <2>1. ASSUME q - d >= 1 PROVE FALSE
    <3>1. w * (q - d) >= w
      BY <2>1
    <3>2. QED
      BY <1>2, <1>3, <1>4, <3>1
  <2>2. ASSUME q - d =< -1 PROVE FALSE
    <3>1. w * (q - d) =< -w
      BY <2>2
    <3>2. QED
      BY <1>2, <1>3, <1>4, <3>1
  <2>3. QED
    BY <1>3, <2>1, <2>2
<1>6. q = d
  BY <1>3, <1>5
<1>7. QED
  BY <1>1, <1>2, <1>3, <1>6

\* The drift of a tick, from -50 to 49, is cast to a u64, multiplied and added in
\* it; the sum is what it would be without the wraps.
LEMMA MidPrice ==
  ASSUME NEW tick \in Nat
  PROVE  /\ tick % 100 \in Nat /\ tick % 100 < 100
         /\ mid_price(tick) = 1450000 + 1000 * (tick % 100)
<1>1. PICK d \in Nat : d = tick % 100 /\ d < 100
  OBVIOUS
<1>2. WordSize \in Nat \ {0} /\ WordSize > 1600000
  BY GeneratorAssumption, SMT DEF GeneratorAssumption
<1>3. PICK w \in Nat \ {0} : w = WordSize /\ w > 1600000
  BY <1>2, SMT
<1>4. (1500000 + ((((d - 50) % w) * 1000) % w)) % w = 1450000 + 1000 * d
  <2>1. CASE d >= 50
    <3>1. (w * 0 + (d - 50)) % w = d - 50
      BY <1>1, <1>3, <2>1, ModUnique, SMT
    <3>2. (w * 0 + (d - 50) * 1000) % w = (d - 50) * 1000
      BY <1>1, <1>3, <2>1, ModUnique, SMT
    <3>3. (w * 0 + (1450000 + 1000 * d)) % w = 1450000 + 1000 * d
      BY <1>1, <1>3, <2>1, ModUnique, SMT
    <3>4. QED
      BY <1>1, <1>3, <3>1, <3>2, <3>3, SMT
  <2>2. CASE d < 50
    <3>1. (w * (-1) + (w + (d - 50))) % w = w + (d - 50)
      BY <1>1, <1>3, <2>2, ModUnique, SMT
    <3>2. (w * 999 + (w + (d - 50) * 1000)) % w = w + (d - 50) * 1000
      BY <1>1, <1>3, <2>2, ModUnique, SMT
    <3>3. (w * 1 + (1450000 + 1000 * d)) % w = 1450000 + 1000 * d
      BY <1>1, <1>3, <2>2, ModUnique, SMT
    <3>4. (w + (d - 50)) * 1000 = w * 999 + (w + (d - 50) * 1000)
      BY <1>1, <1>3, SMT
    <3>5. 1500000 + (w + (d - 50) * 1000) = w * 1 + (1450000 + 1000 * d)
      BY <1>1, <1>3, SMT
    <3>6. w * (-1) + (w + (d - 50)) = d - 50
      BY <1>1, <1>3, SMT
    <3>7. QED
      BY <3>1, <3>2, <3>3, <3>4, <3>5, <3>6, SMT
  <2>3. QED
    BY <1>1, <2>1, <2>2, SMT
<1>5. QED
  BY <1>1, <1>3, <1>4, SMT DEF mid_price

-----------------------------------------------------------------------------
(* Its events. *)

AddEvents    == [type : {"add"}, r : SentRefs, side : Side, n : SentShares, p : SentPrices]
DeleteEvents == [type : {"delete"}, r : SentRefs]
SpotEvents   == AddEvents \cup DeleteEvents
OptionEvents == [type : {"option"}, c : Contracts, r : Nat, side : Side, n : Nat, p : Nat]
Event        == SpotEvents \cup OptionEvents

IsAdd(e) == e.type = "add"

\* The references of the orders in a sequence of events.
AddRefs(q) == { q[i].r : i \in { j \in 1 .. Len(q) : IsAdd(q[j]) } }

Below(A, B) == \A a \in A, b \in B : a < b

\* The references of the orders rise.
Rising(q) ==
  \A i, j \in 1 .. Len(q) : i < j /\ IsAdd(q[i]) /\ IsAdd(q[j]) => q[i].r < q[j].r

LEMMA EventTypes ==
  /\ \A e \in AddEvents : /\ IsAdd(e) /\ e.type # "delete" /\ e.type # "option"
                          /\ e.r \in SentRefs /\ e.side \in Side
                          /\ e.n \in SentShares /\ e.p \in SentPrices
  /\ \A e \in DeleteEvents : ~IsAdd(e) /\ e.type = "delete" /\ e.r \in SentRefs
  /\ \A e \in OptionEvents : ~IsAdd(e) /\ e.type = "option"
BY DEF AddEvents, DeleteEvents, OptionEvents, IsAdd

LEMMA TailRising ==
  ASSUME NEW q \in Seq(Event), q # <<>>, Rising(q)
  PROVE  /\ Head(q) \in Event /\ Tail(q) \in Seq(Event)
         /\ Rising(Tail(q))
         /\ AddRefs(Tail(q)) \subseteq AddRefs(q)
         /\ IsAdd(Head(q)) => /\ Head(q).r \in AddRefs(q)
                              /\ \A r \in AddRefs(Tail(q)) : Head(q).r < r
<1>1. /\ Len(q) \in Nat /\ 1 \in 1 .. Len(q) /\ Head(q) = q[1] /\ Head(q) \in Event
      /\ Tail(q) \in Seq(Event) /\ Len(Tail(q)) = Len(q) - 1
  OBVIOUS
<1>2. \A i \in 1 .. Len(Tail(q)) : i + 1 \in 1 .. Len(q) /\ Tail(q)[i] = q[i + 1] /\ 1 < i + 1
  BY <1>1
<1>3. Rising(Tail(q))
  BY <1>1, <1>2 DEF Rising
<1>4. ASSUME NEW r \in AddRefs(Tail(q))
      PROVE  r \in AddRefs(q) /\ (IsAdd(Head(q)) => Head(q).r < r)
  <2>1. PICK i \in 1 .. Len(Tail(q)) : IsAdd(Tail(q)[i]) /\ r = Tail(q)[i].r
    BY <1>4 DEF AddRefs
  <2>2. i + 1 \in 1 .. Len(q) /\ IsAdd(q[i + 1]) /\ r = q[i + 1].r /\ 1 < i + 1
    BY <1>2, <2>1
  <2>3. r \in AddRefs(q)
    BY <2>2 DEF AddRefs
  <2>4. IsAdd(q[1]) => q[1].r < r
    BY <1>1, <2>2 DEF Rising
  <2>5. QED
    BY <1>1, <2>3, <2>4
<1>5. IsAdd(Head(q)) => Head(q).r \in AddRefs(q)
  BY <1>1 DEF AddRefs
<1>6. QED
  BY <1>1, <1>3, <1>4, <1>5

\* A sequence that rises, followed by one that rises above it.
LEMMA ConcatRising ==
  ASSUME NEW q \in Seq(Event), NEW h \in Seq(Event), Rising(q), Rising(h),
         Below(AddRefs(q), AddRefs(h))
  PROVE  /\ q \o h \in Seq(Event)
         /\ Rising(q \o h)
         /\ AddRefs(q \o h) \subseteq AddRefs(q) \cup AddRefs(h)
<1>1. PICK both \in Seq(Event) : both = q \o h
  <2>1. q \o h \in Seq(Event)
    BY ConcatProperties
  <2>2. QED
    BY <2>1
<1>2. /\ Len(q) \in Nat /\ Len(h) \in Nat /\ Len(both) = Len(q) + Len(h)
      /\ \A i \in 1 .. Len(q) : both[i] = q[i]
      /\ \A i \in 1 .. Len(h) : both[Len(q) + i] = h[i]
  <2>1. Len(q) \in Nat /\ Len(h) \in Nat /\ Len(both) = Len(q) + Len(h)
    BY <1>1, ConcatProperties
  <2>2. \A i \in 1 .. Len(both) : both[i] = IF i =< Len(q) THEN q[i] ELSE h[i - Len(q)]
    BY <1>1, <2>1, ConcatProperties
  <2>3. ASSUME NEW i \in 1 .. Len(h) PROVE both[Len(q) + i] = h[i]
    BY <2>1, <2>2
  <2>4. QED
    BY <2>1, <2>2, <2>3
<1>3. ASSUME NEW i \in 1 .. Len(both)
      PROVE  \/ i \in 1 .. Len(q) /\ both[i] = q[i]
             \/ i - Len(q) \in 1 .. Len(h) /\ both[i] = h[i - Len(q)]
  <2>1. CASE i =< Len(q)
    BY <1>2, <2>1
  <2>2. CASE i > Len(q)
    <3>1. i - Len(q) \in 1 .. Len(h) /\ Len(q) + (i - Len(q)) = i
      BY <1>2, <2>2
    <3>2. QED
      BY <1>2, <3>1
  <2>3. QED
    BY <1>2, <2>1, <2>2
<1>4. ASSUME NEW i \in 1 .. Len(q), NEW j \in 1 .. Len(h), IsAdd(q[i]), IsAdd(h[j])
      PROVE  q[i].r < h[j].r
  <2>1. q[i].r \in AddRefs(q) /\ h[j].r \in AddRefs(h)
    BY <1>4 DEF AddRefs
  <2>2. QED
    BY <2>1 DEF Below
<1>5. ASSUME NEW i \in 1 .. Len(both), NEW j \in 1 .. Len(both),
             i < j, IsAdd(both[i]), IsAdd(both[j])
      PROVE  both[i].r < both[j].r
  <2>1. CASE i \in 1 .. Len(q) /\ both[i] = q[i]
    <3>1. CASE j \in 1 .. Len(q) /\ both[j] = q[j]
      BY <1>5, <2>1, <3>1 DEF Rising
    <3>2. CASE j - Len(q) \in 1 .. Len(h) /\ both[j] = h[j - Len(q)]
      BY <1>4, <1>5, <2>1, <3>2
    <3>3. QED
      BY <1>3, <3>1, <3>2
  <2>2. CASE i - Len(q) \in 1 .. Len(h) /\ both[i] = h[i - Len(q)]
    <3>1. i - Len(q) < j - Len(q) /\ ~ (j \in 1 .. Len(q))
      BY <1>2, <1>5, <2>2
    <3>2. j - Len(q) \in 1 .. Len(h) /\ both[j] = h[j - Len(q)]
      BY <1>3, <3>1
    <3>3. QED
      BY <1>5, <2>2, <3>1, <3>2 DEF Rising
  <2>3. QED
    BY <1>3, <2>1, <2>2
<1>6. Rising(both)
  BY <1>5 DEF Rising
<1>7. ASSUME NEW r \in AddRefs(both)
      PROVE  r \in AddRefs(q) \/ r \in AddRefs(h)
  <2>1. PICK i \in 1 .. Len(both) : IsAdd(both[i]) /\ r = both[i].r
    BY <1>7 DEF AddRefs
  <2>2. CASE i \in 1 .. Len(q) /\ both[i] = q[i]
    BY <2>1, <2>2 DEF AddRefs
  <2>3. CASE i - Len(q) \in 1 .. Len(h) /\ both[i] = h[i - Len(q)]
    BY <2>1, <2>3 DEF AddRefs
  <2>4. QED
    BY <1>3, <2>2, <2>3
<1>8. QED
  BY <1>1, <1>6, <1>7

LEMMA SingleRising ==
  ASSUME NEW e \in Event
  PROVE  /\ <<e>> \in Seq(Event) /\ Rising(<<e>>)
         /\ \A r \in AddRefs(<<e>>) : IsAdd(e) /\ r = e.r
<1>1. <<e>> \in Seq(Event) /\ Len(<<e>>) = 1 /\ <<e>>[1] = e
  OBVIOUS
<1>2. Rising(<<e>>)
  BY <1>1 DEF Rising
<1>3. \A r \in AddRefs(<<e>>) : IsAdd(e) /\ r = e.r
  BY <1>1 DEF AddRefs
<1>4. QED
  BY <1>1, <1>2, <1>3

LEMMA NothingRises == <<>> \in Seq(Event) /\ Rising(<<>>) /\ AddRefs(<<>>) = {}
BY DEF Rising, AddRefs

-----------------------------------------------------------------------------
(* What it sends in a tick. *)

LEMMA SharesSent ==
  ASSUME NEW n \in Nat, 0 < n, n < 750
  PROVE  n \in SentShares
BY SMT DEF SentShares

LEMMA PricesSent ==
  ASSUME NEW i \in Int, 1447 < i, i < 1552, NEW p, p = 1000 * i
  PROVE  p \in SentPrices
BY SMT DEF SentPrices

LEMMA SixRising ==
  ASSUME NEW ref \in Nat, NEW e1 \in AddEvents, NEW e2 \in AddEvents, NEW e3 \in AddEvents,
         NEW e4 \in AddEvents, NEW e5 \in DeleteEvents, NEW e6 \in DeleteEvents,
         e1.r = ref + 1, e2.r = ref + 2, e3.r = ref + 3, e4.r = ref + 4,
         NEW q, q = <<e1, e2, e3, e4, e5, e6>>
  PROVE  /\ q \in Seq(Event) /\ Rising(q)
         /\ \A r \in AddRefs(q) : r \in Nat /\ ref < r /\ r =< ref + 4
<1>1. /\ q \in Seq(Event) /\ Len(q) = 6
      /\ q[1] = e1 /\ q[2] = e2 /\ q[3] = e3 /\ q[4] = e4 /\ q[5] = e5 /\ q[6] = e6
  BY DEF Event, SpotEvents
<1>2. ~IsAdd(e5) /\ ~IsAdd(e6)
  BY EventTypes
<1>3. \A i \in 1 .. 6 : IsAdd(q[i]) => i < 5 /\ q[i].r = ref + i
  BY <1>1, <1>2
<1>4. Rising(q)
  BY <1>1, <1>3 DEF Rising
<1>5. \A r \in AddRefs(q) : r \in Nat /\ ref < r /\ r =< ref + 4
  BY <1>1, <1>3 DEF AddRefs
<1>6. QED
  BY <1>1, <1>4, <1>5

LEMMA SpotRising ==
  ASSUME NEW tick \in Nat, NEW ref \in Nat, ref + 4 =< 21 + 4 * MaxTicks
  PROVE  /\ spot_events(tick, ref) \in Seq(Event) /\ Rising(spot_events(tick, ref))
         /\ \A r \in AddRefs(spot_events(tick, ref)) : r \in Nat /\ ref < r /\ r =< ref + 4
<1>1. PICK p1, p2, p3, p4 :
        /\ p1 = mid_price(tick) - 1000 /\ p2 = mid_price(tick) - 2000
        /\ p3 = mid_price(tick) + 1000 /\ p4 = mid_price(tick) + 2000
  BY SMT
<1>2. p1 \in SentPrices /\ p2 \in SentPrices /\ p3 \in SentPrices /\ p4 \in SentPrices
  <2>1. PICK d \in Nat : d < 100 /\ mid_price(tick) = 1450000 + 1000 * d
    BY MidPrice, SMT
  <2>2. PICK i1, i2, i3, i4 : i1 = 1449 + d /\ i2 = 1448 + d /\ i3 = 1451 + d /\ i4 = 1452 + d
    BY SMT
  <2>3. p1 = 1000 * i1 /\ p2 = 1000 * i2 /\ p3 = 1000 * i3 /\ p4 = 1000 * i4
    BY <1>1, <2>1, <2>2, SMT
  <2>4. \A i \in {i1, i2, i3, i4} : i \in Int /\ 1447 < i /\ i < 1552
    BY <2>1, <2>2, SMT
  <2>5. QED
    BY <2>3, <2>4, PricesSent, SMT
<1>3. PICK n1, n2, n3, n4 :
        /\ n1 = 100 + (tick % 500) /\ n2 = 200 + (tick % 300)
        /\ n3 = 150 + (tick % 400) /\ n4 = 250 + (tick % 200)
  OBVIOUS
<1>4. n1 \in SentShares /\ n2 \in SentShares /\ n3 \in SentShares /\ n4 \in SentShares
  <2>1. /\ tick % 500 \in Nat /\ tick % 500 < 500 /\ tick % 300 \in Nat /\ tick % 300 < 300
        /\ tick % 400 \in Nat /\ tick % 400 < 400 /\ tick % 200 \in Nat /\ tick % 200 < 200
    OBVIOUS
  <2>2. \A n \in {n1, n2, n3, n4} : n \in Nat /\ 0 < n /\ n < 750
    BY <1>3, <2>1
  <2>3. QED
    BY <2>2, SharesSent
<1>5. PICK r5, r6 : /\ r5 = saturating_sub(after_tick(ref), 48)
                    /\ r6 = saturating_sub(after_tick(ref), 47)
  OBVIOUS
<1>6. {ref + 1, ref + 2, ref + 3, ref + 4, r5, r6} \subseteq SentRefs
  <2>1. MaxTicks \in Nat
    BY Constants
  <2>2. r5 \in Nat /\ r5 =< ref + 4 /\ r6 \in Nat /\ r6 =< ref + 4
    BY <1>5 DEF saturating_sub, after_tick
  <2>3. QED
    BY <2>1, <2>2 DEF SentRefs
<1>7. ASSUME NEW r \in SentRefs, NEW sd \in Side, NEW n \in SentShares, NEW p \in SentPrices
      PROVE  Add(r, sd, n, p) \in AddEvents /\ Add(r, sd, n, p).r = r
  BY DEF Add, AddEvents
<1>8. \A r \in SentRefs : [type |-> "delete", r |-> r] \in DeleteEvents
  BY DEF DeleteEvents
<1>9. "Buy" \in Side /\ "Sell" \in Side
  BY DEF Side
<1>10. PICK e1 \in AddEvents : e1 = Add(ref + 1, "Buy", n1, p1) /\ e1.r = ref + 1
  BY <1>2, <1>4, <1>6, <1>7, <1>9
<1>11. PICK e2 \in AddEvents : e2 = Add(ref + 2, "Buy", n2, p2) /\ e2.r = ref + 2
  BY <1>2, <1>4, <1>6, <1>7, <1>9
<1>12. PICK e3 \in AddEvents : e3 = Add(ref + 3, "Sell", n3, p3) /\ e3.r = ref + 3
  BY <1>2, <1>4, <1>6, <1>7, <1>9
<1>13. PICK e4 \in AddEvents : e4 = Add(ref + 4, "Sell", n4, p4) /\ e4.r = ref + 4
  BY <1>2, <1>4, <1>6, <1>7, <1>9
<1>14. PICK e5 \in DeleteEvents : e5 = [type |-> "delete", r |-> r5]
  BY <1>6, <1>8
<1>15. PICK e6 \in DeleteEvents : e6 = [type |-> "delete", r |-> r6]
  BY <1>6, <1>8
<1>16. spot_events(tick, ref) = <<e1, e2, e3, e4, e5, e6>>
  BY <1>1, <1>3, <1>5, <1>10, <1>11, <1>12, <1>13, <1>14, <1>15, SMT DEF spot_events
<1>17. PICK q : q = <<e1, e2, e3, e4, e5, e6>>
  OBVIOUS
<1>18. q \in Seq(Event) /\ Rising(q) /\ \A r \in AddRefs(q) : r \in Nat /\ ref < r /\ r =< ref + 4
  BY <1>10, <1>11, <1>12, <1>13, <1>17, SixRising
<1>19. QED
  BY <1>16, <1>17, <1>18

LEMMA ContractParts ==
  /\ \A k \in 1 .. 5 : Strikes[k] \in Nat /\ Strikes[k] \in Range(Strikes)
  /\ \A k \in 1 .. 2 : Expiries[k] \in Range(Expiries) /\ Types[k] \in Range(Types)
<1>1. DOMAIN Strikes = 1 .. 5 /\ \A k \in 1 .. 5 : Strikes[k] \in Nat
  BY SMT DEF Strikes
<1>2. DOMAIN Expiries = 1 .. 2 /\ DOMAIN Types = 1 .. 2
  BY DEF Expiries, Types
<1>3. QED
  BY <1>1, <1>2 DEF Range

LEMMA OptionAddType ==
  ASSUME NEW i \in 1 .. 5, NEW j \in 1 .. 2, NEW k \in 1 .. 2,
         NEW r \in Nat, NEW sd \in Side, NEW n \in Nat, NEW p \in Nat
  PROVE  OptionAdd(<<Strikes[i], Expiries[j], Types[k]>>, r, sd, n, p) \in OptionEvents
<1>1. <<Strikes[i], Expiries[j], Types[k]>> \in Contracts
  BY ContractParts DEF Contracts
<1>2. QED
  BY <1>1 DEF OptionAdd, OptionEvents

LEMMA NoAddsRise ==
  ASSUME NEW q \in Seq(OptionEvents)
  PROVE  q \in Seq(Event) /\ Rising(q) /\ AddRefs(q) = {}
<1>1. \A i \in 1 .. Len(q) : ~IsAdd(q[i])
  BY EventTypes
<1>2. q \in Seq(Event)
  BY DEF Event
<1>3. QED
  BY <1>1, <1>2 DEF Rising, AddRefs

LEMMA RegistrationType ==
  ASSUME NEW ref \in Nat
  PROVE  registration(ref) \in Seq(OptionEvents) /\ Len(registration(ref)) = 20
<1>1. ASSUME NEW i \in 1 .. 20
      PROVE  registration(ref)[i] \in OptionEvents
  <2>1. PICK a \in 1 .. 5, b \in 1 .. 2, c \in 1 .. 2 :
          /\ a = ((i - 1) \div 4) + 1 /\ b = (((i - 1) \div 2) % 2) + 1
          /\ c = ((i - 1) % 2) + 1
    OBVIOUS
  <2>2. PICK key : key = <<Strikes[a], Expiries[b], Types[c]>>
    OBVIOUS
  <2>3. registration(ref)[i] =
          OptionAdd(key, ref + i - 1, IF key[3] = "Call" THEN "Buy" ELSE "Sell",
                    10 + ((ref + i - 1) % 50), key[1] \div 30)
    BY <2>1, <2>2 DEF registration
  <2>4. key[1] \div 30 \in Nat
    <3>1. key[1] \in Nat
      BY <2>2, ContractParts
    <3>2. QED
      BY <3>1
  <2>5. /\ ref + i - 1 \in Nat /\ 10 + ((ref + i - 1) % 50) \in Nat
        /\ (IF key[3] = "Call" THEN "Buy" ELSE "Sell") \in Side
    BY DEF Side
  <2>6. \A r \in Nat, sd \in Side, n \in Nat, p \in Nat :
          OptionAdd(key, r, sd, n, p) \in OptionEvents
    BY <2>2, OptionAddType
  <2>7. QED
    BY <2>3, <2>4, <2>5, <2>6
<1>2. QED
  BY <1>1 DEF registration

LEMMA OptionEventsType ==
  ASSUME NEW tick \in Nat
  PROVE  option_events(tick) \in Seq(OptionEvents)
<1>1. PICK a \in 1 .. 5, b \in 1 .. 2, c \in 1 .. 2 :
        /\ a = (tick % 5) + 1 /\ b = ((tick \div 5) % 2) + 1 /\ c = ((tick \div 3) % 2) + 1
  OBVIOUS
<1>2. PICK sd, n, r, p :
        /\ sd = (IF tick % 3 = 0 THEN "Buy" ELSE "Sell") /\ n = 5 + (tick % 20)
        /\ r = 100000 + tick /\ p = (Strikes[a] \div 30) + ((tick % 100) * 10)
  BY SMT
<1>3. PICK e : e = OptionAdd(<<Strikes[a], Expiries[b], Types[c]>>, r, sd, n, p)
  OBVIOUS
<1>4. e \in OptionEvents
  <2>1. Strikes[a] \in Nat
    BY ContractParts
  <2>2. p \in Nat
    BY <1>2, <2>1, SMT
  <2>3. r \in Nat /\ n \in Nat
    BY <1>2, SMT
  <2>4. sd \in Side
    BY <1>2, SMT DEF Side
  <2>5. QED
    BY <1>3, <2>2, <2>3, <2>4, OptionAddType
<1>5. option_events(tick) = <<>> \/ option_events(tick) = <<e>>
  BY <1>1, <1>2, <1>3, SMT DEF option_events
<1>6. <<>> \in Seq(OptionEvents) /\ <<e>> \in Seq(OptionEvents)
  BY <1>4
<1>7. QED
  BY <1>5, <1>6

-----------------------------------------------------------------------------
(* The inductive invariant. *)

\* The references come from a counter that is a function of the ticks.
Counting ==
  /\ tick_count \in Nat /\ tick_count =< MaxTicks
  /\ \/ ~registered /\ tick_count = 0 /\ order_ref = 1
     \/ registered /\ order_ref = 21 + 4 * tick_count
  /\ outbox \in Seq(Event) /\ event_queue \in Seq(Event)

\* The orders that rest are older than those that wait in the queue, and these are
\* older than those that are still to be pushed.
InOrder ==
  /\ Rising(event_queue) /\ Rising(outbox)
  /\ Below(Live, AddRefs(event_queue)) /\ Below(Live, AddRefs(outbox))
  /\ Below(AddRefs(event_queue), AddRefs(outbox))
  /\ Live \cup AddRefs(event_queue) \cup AddRefs(outbox) \subseteq 0 .. order_ref

OrdersNear ==
  \A s \in Stocks : \A r \in DOMAIN books[s].orders : books[s].orders[r].price \in SentPrices

GeneratorInv == FeedInv /\ Counting /\ InOrder /\ OrdersNear

LEMMA GeneratorStart == GeneratorInit => GeneratorInv
<1> SUFFICES ASSUME GeneratorInit PROVE GeneratorInv
  OBVIOUS
<1>1. Init /\ tick_count = 0 /\ order_ref = 1 /\ ~registered /\ outbox = <<>> /\ event_queue = <<>>
  BY DEF GeneratorInit
<1>2. FeedInv
  BY <1>1, FeedInit
<1>3. Counting
  BY <1>1, Constants, NothingRises DEF Counting
<1>4. \A s \in Stocks : DOMAIN books[s].orders = {}
  BY <1>1 DEF Init, NewBook, EmptyMap
<1>5. Live = {}
  BY <1>4 DEF Live
<1>6. InOrder
  BY <1>1, <1>5, NothingRises DEF InOrder, Below
<1>7. OrdersNear
  BY <1>4 DEF OrdersNear
<1>8. QED
  BY <1>2, <1>3, <1>6, <1>7 DEF GeneratorInv

\* A step that leaves the books alone.
LEMMA BooksRest ==
  ASSUME GeneratorInv, UNCHANGED <<books, order_to_stock, bbo>>
  PROVE  FeedInv' /\ OrdersNear' /\ Live' = Live /\ [FeedNext]_vars
<1>1. UNCHANGED vars
  BY DEF vars
<1>2. FeedInv'
  BY <1>1, FeedStep DEF GeneratorInv
<1>3. OrdersNear' /\ Live' = Live
  BY DEF GeneratorInv, OrdersNear, Live
<1>4. QED
  BY <1>1, <1>2, <1>3

LEMMA TickKeeps ==
  ASSUME GeneratorInv, Tick
  PROVE  GeneratorInv' /\ [FeedNext]_vars
<1>1. /\ tick_count' = tick_count + 1 /\ registered' /\ UNCHANGED event_queue
      /\ outbox = <<>> /\ tick_count < MaxTicks
      /\ UNCHANGED <<books, order_to_stock, bbo>>
  BY DEF Tick
<1>2. FeedInv' /\ OrdersNear' /\ Live' = Live /\ [FeedNext]_vars
  BY <1>1, BooksRest
<1>3. /\ tick_count \in Nat /\ MaxTicks \in Nat /\ event_queue \in Seq(Event)
      /\ \/ ~registered /\ tick_count = 0 /\ order_ref = 1
         \/ registered /\ order_ref = 21 + 4 * tick_count
  BY Constants DEF GeneratorInv, Counting
<1>4. PICK first : first = IF registered THEN <<>> ELSE registration(order_ref)
  OBVIOUS
<1>5. PICK ref : ref = order_ref + Len(first)
  OBVIOUS
<1>6. /\ outbox' = first \o spot_events(tick_count', ref) \o option_events(tick_count')
      /\ order_ref' = after_tick(ref)
  BY <1>4, <1>5 DEF Tick
<1>7. first \in Seq(OptionEvents) /\ ref = 21 + 4 * tick_count /\ order_ref \in Nat /\ order_ref =< ref
  <2>1. CASE registered
    <3>1. first = <<>>
      BY <1>4, <2>1
    <3>2. first \in Seq(OptionEvents) /\ Len(first) = 0
      BY <3>1
    <3>3. QED
      BY <1>3, <1>5, <2>1, <3>2
  <2>2. CASE ~registered
    <3>1. first \in Seq(OptionEvents) /\ Len(first) = 20
      BY <1>3, <1>4, <2>2, RegistrationType
    <3>2. QED
      BY <1>3, <1>5, <2>2, <3>1
  <2>3. QED
    BY <2>1, <2>2
<1>8. order_ref' = 21 + 4 * tick_count' /\ tick_count' \in Nat /\ tick_count' =< MaxTicks
  BY <1>1, <1>3, <1>6, <1>7 DEF after_tick
<1>9. PICK spot, last : spot = spot_events(tick_count', ref) /\ last = option_events(tick_count')
  OBVIOUS
<1>10. ref \in Nat /\ ref + 4 =< 21 + 4 * MaxTicks /\ order_ref' = ref + 4
  BY <1>1, <1>3, <1>6, <1>7 DEF after_tick
<1>11. /\ spot \in Seq(Event) /\ Rising(spot)
       /\ \A r \in AddRefs(spot) : r \in Nat /\ ref < r /\ r =< ref + 4
  BY <1>8, <1>9, <1>10, SpotRising
<1>12. /\ first \in Seq(Event) /\ Rising(first) /\ AddRefs(first) = {}
       /\ last \in Seq(Event) /\ Rising(last) /\ AddRefs(last) = {}
  BY <1>7, <1>8, <1>9, OptionEventsType, NoAddsRise
<1>13. /\ first \o spot \in Seq(Event) /\ Rising(first \o spot)
       /\ AddRefs(first \o spot) \subseteq AddRefs(spot)
  <2>1. Below(AddRefs(first), AddRefs(spot))
    BY <1>12 DEF Below
  <2>2. QED
    BY <1>11, <1>12, <2>1, ConcatRising
<1>14. /\ outbox' \in Seq(Event) /\ Rising(outbox')
       /\ AddRefs(outbox') \subseteq AddRefs(spot)
  <2>1. Below(AddRefs(first \o spot), AddRefs(last))
    BY <1>12 DEF Below
  <2>2. outbox' = (first \o spot) \o last
    BY <1>6, <1>9
  <2>3. QED
    BY <1>12, <1>13, <2>1, <2>2, ConcatRising
<1>15. \A r \in AddRefs(outbox') : r \in Nat /\ ref < r /\ r =< order_ref'
  BY <1>7, <1>10, <1>11, <1>14
<1>16. Counting'
  BY <1>1, <1>3, <1>8, <1>14 DEF Counting
<1>17. InOrder'
  <2>1. /\ Rising(event_queue) /\ Below(Live, AddRefs(event_queue))
        /\ \A r \in Live \cup AddRefs(event_queue) : r \in 0 .. order_ref
    BY DEF GeneratorInv, InOrder
  <2>2. \A r \in Live \cup AddRefs(event_queue), x \in AddRefs(outbox') : r < x
    BY <1>7, <1>10, <1>15, <2>1
  <2>3. \A r \in Live \cup AddRefs(event_queue) \cup AddRefs(outbox') : r \in 0 .. order_ref'
    BY <1>7, <1>10, <1>15, <2>1
  <2>4. QED
    BY <1>1, <1>2, <1>14, <2>1, <2>2, <2>3 DEF InOrder, Below
<1>18. QED
  BY <1>2, <1>16, <1>17 DEF GeneratorInv

LEMMA PushKeeps ==
  ASSUME GeneratorInv, Push
  PROVE  GeneratorInv' /\ [FeedNext]_vars
<1>1. /\ outbox # <<>> /\ outbox' = Tail(outbox)
      /\ UNCHANGED <<tick_count, order_ref, registered>>
      /\ UNCHANGED <<books, order_to_stock, bbo>>
  BY DEF Push
<1>2. FeedInv' /\ OrdersNear' /\ Live' = Live /\ [FeedNext]_vars
  BY <1>1, BooksRest
<1>3. outbox \in Seq(Event) /\ event_queue \in Seq(Event)
  BY DEF GeneratorInv, Counting
<1>4. /\ Rising(event_queue) /\ Rising(outbox)
      /\ Below(Live, AddRefs(event_queue)) /\ Below(Live, AddRefs(outbox))
      /\ Below(AddRefs(event_queue), AddRefs(outbox))
      /\ Live \cup AddRefs(event_queue) \cup AddRefs(outbox) \subseteq 0 .. order_ref
  BY DEF GeneratorInv, InOrder
<1>5. PICK e \in Event : e = Head(outbox)
  BY <1>1, <1>3, TailRising, <1>4
<1>6. /\ outbox' \in Seq(Event) /\ Rising(outbox')
      /\ AddRefs(outbox') \subseteq AddRefs(outbox)
      /\ IsAdd(e) => e.r \in AddRefs(outbox) /\ \A r \in AddRefs(outbox') : e.r < r
  BY <1>1, <1>3, <1>4, <1>5, TailRising
<1>7. /\ event_queue' \in Seq(Event) /\ Rising(event_queue')
      /\ \A r \in AddRefs(event_queue') :
           r \in AddRefs(event_queue) \/ (IsAdd(e) /\ r = e.r)
  <2>1. CASE event_queue' = event_queue
    BY <1>3, <1>4, <2>1
  <2>2. CASE event_queue' = Append(event_queue, e)
    <3>1. event_queue' = event_queue \o <<e>>
      BY <1>3, <2>2, AppendIsConcat
    <3>2. /\ <<e>> \in Seq(Event) /\ Rising(<<e>>)
          /\ \A r \in AddRefs(<<e>>) : IsAdd(e) /\ r = e.r
      BY SingleRising
    <3>3. Below(AddRefs(event_queue), AddRefs(<<e>>))
      BY <1>4, <1>6, <3>2 DEF Below
    <3>4. /\ event_queue' \in Seq(Event) /\ Rising(event_queue')
          /\ AddRefs(event_queue') \subseteq AddRefs(event_queue) \cup AddRefs(<<e>>)
      BY <1>3, <1>4, <3>1, <3>2, <3>3, ConcatRising
    <3>5. QED
      BY <3>2, <3>4
  <2>3. QED
    BY <1>5, <2>1, <2>2 DEF Push
<1>8. Counting'
  BY <1>1, <1>6, <1>7 DEF GeneratorInv, Counting
<1>9. InOrder'
  <2>1. Below(Live, AddRefs(event_queue')) /\ Below(Live, AddRefs(outbox'))
    BY <1>4, <1>6, <1>7 DEF Below
  <2>2. Below(AddRefs(event_queue'), AddRefs(outbox'))
    BY <1>4, <1>6, <1>7 DEF Below
  <2>3. Live \cup AddRefs(event_queue') \cup AddRefs(outbox') \subseteq 0 .. order_ref
    BY <1>4, <1>6, <1>7
  <2>4. QED
    BY <1>1, <1>2, <1>6, <1>7, <2>1, <2>2, <2>3 DEF InOrder
<1>10. QED
  BY <1>2, <1>8, <1>9 DEF GeneratorInv

\* What the writer takes from the queue is an event of an ITCH feed.
LEMMA WriteEventKeeps ==
  ASSUME GeneratorInv, WriteEvent
  PROVE  GeneratorInv' /\ [FeedNext]_vars
<1>1. /\ event_queue # <<>> /\ event_queue' = Tail(event_queue)
      /\ UNCHANGED <<tick_count, order_ref, registered, outbox>>
  BY DEF WriteEvent, generator
<1>2. outbox \in Seq(Event) /\ event_queue \in Seq(Event)
  BY DEF GeneratorInv, Counting
<1>3. /\ Rising(event_queue) /\ Rising(outbox)
      /\ Below(Live, AddRefs(event_queue)) /\ Below(Live, AddRefs(outbox))
      /\ Below(AddRefs(event_queue), AddRefs(outbox))
      /\ Live \cup AddRefs(event_queue) \cup AddRefs(outbox) \subseteq 0 .. order_ref
  BY DEF GeneratorInv, InOrder
<1>4. PICK e \in Event : e = Head(event_queue)
  BY <1>1, <1>2, <1>3, TailRising
<1>5. /\ event_queue' \in Seq(Event) /\ Rising(event_queue')
      /\ AddRefs(event_queue') \subseteq AddRefs(event_queue)
      /\ IsAdd(e) => e.r \in AddRefs(event_queue) /\ \A r \in AddRefs(event_queue') : e.r < r
  BY <1>1, <1>2, <1>3, <1>4, TailRising
<1>6. \/ IsAdd(e) /\ AddOrder(e.r, AAPL, e.side, e.n, e.p)
      \/ e.type = "delete" /\ OrderDelete(e.r)
  BY <1>4 DEF WriteEvent, IsAdd
<1>7. FeedInv /\ OrdersNear
  BY DEF GeneratorInv
<1>8. /\ SentRefs \subseteq Refs /\ SentShares \subseteq Shares \ {0}
      /\ SentPrices \subseteq Prices /\ AAPL \in Stocks
  <2>1. 0 \notin SentShares
    BY SMT DEF SentShares
  <2>2. QED
    BY <2>1, Constants
<1>9. Counting'
  BY <1>1, <1>2, <1>5 DEF GeneratorInv, Counting
<1>10. \A r \in AddRefs(event_queue') : r \in AddRefs(event_queue)
  BY <1>5
<1>11. CASE IsAdd(e) /\ AddOrder(e.r, AAPL, e.side, e.n, e.p)
  <2>1. e \in AddEvents
    BY <1>11, EventTypes DEF Event, SpotEvents
  <2>2. PICK r \in SentRefs, sd \in Side, n \in SentShares, p \in SentPrices :
          r = e.r /\ sd = e.side /\ n = e.n /\ p = e.p
    BY <2>1, EventTypes
  <2>3. AddOrder(r, AAPL, sd, n, p)
    BY <1>11, <2>2
  <2>4. r \in AddRefs(event_queue) /\ \A x \in AddRefs(event_queue') : r < x
    BY <1>5, <1>11, <2>2
  <2>5. r \in Refs \ Live
    <3>1. \A x \in Live : x < r /\ x \in 0 .. order_ref
      BY <1>3, <2>4 DEF Below
    <3>2. ~ (r < r)
      BY <2>2 DEF SentRefs
    <3>3. QED
      BY <1>8, <2>2, <3>1, <3>2
  <2>6. n \in Shares \ {0} /\ p \in Prices
    BY <1>8, <2>2
  <2>7. FeedNext
    BY <1>8, <2>2, <2>3, <2>5, <2>6 DEF FeedNext
  <2>8. FeedInv'
    BY <1>7, <2>7, FeedStep
  <2>9. n \in Nat \ {0}
    BY <2>2, SMT DEF SentShares
  <2>10. /\ \A t \in Stocks \ {AAPL} : books'[t] = books[t]
         /\ books'[AAPL].orders =
              Put(books[AAPL].orders, r, [side |-> sd, price |-> p, shares |-> n])
    BY <1>7, <1>8, <2>2, <2>3, <2>5, <2>6, <2>9, FeedAddOrder
  <2>11. PICK o : o = [side |-> sd, price |-> p, shares |-> n]
    OBVIOUS
  <2>12. o.price \in SentPrices
    BY <2>2, <2>11
  <2>13. /\ DOMAIN books'[AAPL].orders = DOMAIN books[AAPL].orders \cup {r}
         /\ \A x \in DOMAIN books'[AAPL].orders :
              books'[AAPL].orders[x] = IF x = r THEN o ELSE books[AAPL].orders[x]
    BY <2>10, <2>11 DEF Put
  <2>14. OrdersNear'
    BY <1>7, <2>10, <2>12, <2>13 DEF OrdersNear
  <2>15. \A x \in Live' : x \in Live \/ x = r
    BY <2>10, <2>13 DEF Live
  <2>16. InOrder'
    <3>1. Below(Live', AddRefs(event_queue')) /\ Below(Live', AddRefs(outbox))
      BY <1>3, <1>10, <2>4, <2>15 DEF Below
    <3>2. Below(AddRefs(event_queue'), AddRefs(outbox))
      BY <1>3, <1>10 DEF Below
    <3>3. Live' \cup AddRefs(event_queue') \cup AddRefs(outbox) \subseteq 0 .. order_ref
      BY <1>3, <1>10, <2>4, <2>15
    <3>4. QED
      BY <1>1, <1>3, <1>5, <3>1, <3>2, <3>3 DEF InOrder
  <2>17. QED
    BY <1>9, <2>7, <2>8, <2>14, <2>16 DEF GeneratorInv
<1>12. CASE e.type = "delete" /\ OrderDelete(e.r)
  <2>1. e.r \in SentRefs
    BY <1>12, EventTypes DEF Event, SpotEvents
  <2>2. PICK r \in Refs : r = e.r /\ OrderDelete(r)
    BY <1>8, <1>12, <2>1
  <2>3. FeedNext
    BY <2>2 DEF FeedNext
  <2>4. FeedInv'
    BY <1>7, <2>3, FeedStep
  <2>5. \/ books' = books
        \/ \E s \in Stocks :
             /\ \A t \in Stocks \ {s} : books'[t] = books[t]
             /\ books'[s].orders = Without(books[s].orders, r)
    BY <1>7, <2>2, FeedOrderDelete
  <2>6. ASSUME NEW t \in Stocks, NEW x \in DOMAIN books'[t].orders
        PROVE  x \in DOMAIN books[t].orders /\ books'[t].orders[x] = books[t].orders[x]
    BY <2>5 DEF Without, Restrict
  <2>7. OrdersNear'
    BY <1>7, <2>6 DEF OrdersNear
  <2>8. \A x \in Live' : x \in Live
    BY <2>6 DEF Live
  <2>9. InOrder'
    <3>1. Below(Live', AddRefs(event_queue')) /\ Below(Live', AddRefs(outbox))
      BY <1>3, <1>10, <2>8 DEF Below
    <3>2. Below(AddRefs(event_queue'), AddRefs(outbox))
      BY <1>3, <1>10 DEF Below
    <3>3. Live' \cup AddRefs(event_queue') \cup AddRefs(outbox) \subseteq 0 .. order_ref
      BY <1>3, <1>10, <2>8
    <3>4. QED
      BY <1>1, <1>3, <1>5, <3>1, <3>2, <3>3 DEF InOrder
  <2>10. QED
    BY <1>9, <2>3, <2>4, <2>7, <2>9 DEF GeneratorInv
<1>13. QED
  BY <1>6, <1>11, <1>12

LEMMA OtherStepsKeep ==
  ASSUME GeneratorInv, WriteOption \/ WriterTurn \/ UNCHANGED everything
  PROVE  GeneratorInv' /\ [FeedNext]_vars
<1>1. /\ UNCHANGED <<tick_count, order_ref, registered, outbox, event_queue>>
      /\ UNCHANGED <<books, order_to_stock, bbo>>
  BY DEF WriteOption, WriterTurn, everything, generator
<1>2. FeedInv' /\ OrdersNear' /\ Live' = Live /\ [FeedNext]_vars
  BY <1>1, BooksRest
<1>3. Counting' /\ InOrder'
  BY <1>1, <1>2 DEF GeneratorInv, Counting, InOrder
<1>4. QED
  BY <1>2, <1>3 DEF GeneratorInv

LEMMA GeneratorStep ==
  GeneratorInv /\ [GeneratorNext]_everything => GeneratorInv' /\ [FeedNext]_vars
BY TickKeeps, PushKeeps, WriteEventKeeps, OtherStepsKeep DEF GeneratorNext

LEMMA GeneratorInvHolds == GeneratorSpec => []GeneratorInv
<1>1. GeneratorInit => GeneratorInv
  BY GeneratorStart
<1>2. GeneratorInv /\ [GeneratorNext]_everything => GeneratorInv'
  BY GeneratorStep
<1>3. QED
  BY <1>1, <1>2, PTL DEF GeneratorSpec

-----------------------------------------------------------------------------
(* The theorems. *)

\* However the ticks of run_test_generator and the turns of the writer interleave,
\* what reaches the books is an ITCH feed: no order takes the reference of one that
\* rests, and each has shares, a price and a side.
THEOREM GeneratorIsFeed == GeneratorSpec => FeedSpec
<1>1. GeneratorInit => Init
  BY DEF GeneratorInit
<1>2. GeneratorInv /\ [GeneratorNext]_everything => [FeedNext]_vars
  BY GeneratorStep
<1>3. QED
  BY <1>1, <1>2, GeneratorInvHolds, PTL DEF GeneratorSpec, FeedSpec

\* So the books behind the generator implement the ledger of the exchange.
THEOREM GeneratorImplementsLedger == GeneratorSpec => ImplementsLedger
BY GeneratorIsFeed, BooksImplementLedger

\* No order of the generator takes the reference of one that still rests or waits.
THEOREM RefsAreFresh == GeneratorSpec => []FreshRefs
<1>1. GeneratorInv => FreshRefs
  <2>1. SUFFICES ASSUME GeneratorInv, NEW i \in 1 .. Len(event_queue), IsAdd(event_queue[i])
                 PROVE  /\ event_queue[i].r \notin Live
                        /\ \A j \in 1 .. Len(event_queue) :
                             i # j /\ IsAdd(event_queue[j]) => event_queue[i].r # event_queue[j].r
    BY DEF FreshRefs, IsAdd
  <2>2. /\ Rising(event_queue) /\ Below(Live, AddRefs(event_queue))
        /\ AddRefs(event_queue) \subseteq 0 .. order_ref
    BY <2>1 DEF GeneratorInv, InOrder
  <2>3. \A j \in 1 .. Len(event_queue) : IsAdd(event_queue[j]) => event_queue[j].r \in AddRefs(event_queue)
    BY DEF AddRefs
  <2>4. event_queue[i].r \notin Live
    <3>1. ~ (event_queue[i].r < event_queue[i].r)
      BY <2>1, <2>2, <2>3
    <3>2. QED
      BY <2>1, <2>2, <2>3, <3>1 DEF Below
  <2>5. ASSUME NEW j \in 1 .. Len(event_queue), i # j, IsAdd(event_queue[j])
        PROVE  event_queue[i].r # event_queue[j].r
    <3>1. i < j \/ j < i
      BY <2>5
    <3>2. event_queue[i].r < event_queue[j].r \/ event_queue[j].r < event_queue[i].r
      BY <2>1, <2>2, <2>5, <3>1 DEF Rising
    <3>3. event_queue[i].r \in 0 .. order_ref /\ event_queue[j].r \in 0 .. order_ref
      BY <2>1, <2>2, <2>3, <2>5
    <3>4. QED
      BY <3>2, <3>3
  <2>6. QED
    BY <2>4, <2>5
<1>2. QED
  BY <1>1, GeneratorInvHolds, PTL

\* The prices of the levels stay around the base price, although the drift is cast
\* from a signed number and the sums wrap.
THEOREM PricesAreNear == GeneratorSpec => []PricesNearBase
<1>1. GeneratorInv => PricesNearBase
  <2>1. SUFFICES ASSUME GeneratorInv, NEW s \in Stocks, NEW sd \in Side,
                        NEW p \in DOMAIN books[s].levels[sd]
                 PROVE  p \in SentPrices
    <3>1. \A p \in SentPrices : p >= 1500000 - 52000 /\ p =< 1500000 + 52000
      BY SMT DEF SentPrices
    <3>2. QED
      BY <3>1, SMT DEF PricesNearBase
  <2>2. FeedInv /\ OrdersNear
    BY <2>1 DEF GeneratorInv
  <2>3. p \in Prices
    <3>1. IsBook(books[s])
      BY <2>2 DEF FeedInv, ExactBook, GoodBook
    <3>2. QED
      BY <2>1, <3>1 DEF IsBook, IsMap
  <2>4. At(books[s].orders, sd, p) # {}
    BY <2>1, <2>2, <2>3, ExactIsConserved DEF VolumeConserved
  <2>5. QED
    BY <2>2, <2>4 DEF At, OrdersNear
<1>2. QED
  BY <1>1, GeneratorInvHolds, PTL
=============================================================================
