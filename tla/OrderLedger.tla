---------------------------- MODULE OrderLedger -----------------------------
(***************************************************************************)
(* What the order books promise on an ITCH feed.  There are no levels, no  *)
(* index and no incremental update: the state is the set of live orders,   *)
(* and after every event each stock's quote is computed from them afresh.  *)
(***************************************************************************)
EXTENDS RestingShares, FiniteSetsExt, Functions

CONSTANTS Refs, Prices, Shares, Stocks

VARIABLES
  live,    \* order reference -> the order, for the live orders
  quote    \* stock -> best bid and offer

ledger == <<live, quote>>

\* The live orders of a stock.
OrdersOf(lv, s) == Restrict(lv, {r \in DOMAIN lv : lv[r].stock = s})

\* The prices at which shares of the stock rest.
Quoted(lv, s, side) == {p \in Prices : Outstanding(OrdersOf(lv, s), side, p) > 0}

BestPrice(lv, s, side) ==
  IF side = "Buy" THEN Max(Quoted(lv, s, side)) ELSE Min(Quoted(lv, s, side))

Best(lv, s, side) ==
  IF Quoted(lv, s, side) = {} THEN <<0, 0>>
  ELSE << BestPrice(lv, s, side),
          Outstanding(OrdersOf(lv, s), side, BestPrice(lv, s, side)) >>

QuoteOf(lv, s) == [bid_price  |-> Best(lv, s, "Buy")[1],
                   bid_volume |-> Best(lv, s, "Buy")[2],
                   ask_price  |-> Best(lv, s, "Sell")[1],
                   ask_volume |-> Best(lv, s, "Sell")[2]]

-----------------------------------------------------------------------------
Becomes(lv) == live' = lv /\ quote' = [s \in Stocks |-> QuoteOf(lv, s)]

Removed(r) == Restrict(live, DOMAIN live \ {r})

\* The orders with one more, under a reference that is free.
Entered(lv, r, order) == [x \in DOMAIN lv \cup {r} |-> IF x = r THEN order ELSE lv[x]]

Enter(r, s, side, n, p) ==
  /\ r \notin DOMAIN live
  /\ Becomes(Entered(live, r, [stock |-> s, side |-> side, price |-> p, shares |-> n]))

\* An execution or a cancel takes some of the shares, or all of them.
Reduce(r, n) ==
  /\ r \in DOMAIN live
  /\ Becomes(IF n < live[r].shares THEN [live EXCEPT ![r].shares = @ - n]
             ELSE Removed(r))

Withdraw(r) == r \in DOMAIN live /\ Becomes(Removed(r))

\* The order keeps its stock and side under another reference.
Amend(r, new_r, n, p) ==
  /\ r \in DOMAIN live
  /\ new_r \notin DOMAIN live
  /\ Becomes(Entered(Removed(r), new_r,
                     [stock |-> live[r].stock, side |-> live[r].side, price |-> p, shares |-> n]))

-----------------------------------------------------------------------------
LedgerInit ==
  /\ live = [r \in {} |-> r]
  /\ quote = [s \in Stocks |-> QuoteOf(live, s)]

LedgerNext ==
  \/ \E r \in Refs, s \in Stocks, sd \in {"Buy", "Sell"}, n \in Shares \ {0}, p \in Prices :
        Enter(r, s, sd, n, p)
  \/ \E r \in Refs, n \in Shares \ {0} : Reduce(r, n)
  \/ \E r \in Refs : Withdraw(r)
  \/ \E r, new_r \in Refs, n \in Shares \ {0}, p \in Prices : Amend(r, new_r, n, p)

LedgerSpec == LedgerInit /\ [][LedgerNext]_ledger
=============================================================================
