------------------------ MODULE OrderBookRefinement -------------------------
(***************************************************************************)
(* The order books on an ITCH feed as an implementation of OrderLedger.    *)
(***************************************************************************)
EXTENDS OrderBook

\* The ledger seen through the books: their orders put together, and what each
\* book has published last.
LiveOrders ==
  [r \in Live |->
     LET s == CHOOSE t \in Stocks : r \in DOMAIN books[t].orders
         o == books[s].orders[r]
     IN  [stock |-> s, side |-> o.side, price |-> o.price, shares |-> o.shares]]

Ledger == INSTANCE OrderLedger
            WITH live  <- LiveOrders,
                 quote <- [s \in Stocks |-> books[s].last_snapshot]

\* On an ITCH feed the books implement the ledger: every event changes the set
\* of live orders as the exchange says, and the last published BBO of each
\* stock is the one computed from its live orders.
ImplementsLedger == Ledger!LedgerSpec
=============================================================================
