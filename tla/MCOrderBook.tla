---------------------------- MODULE MCOrderBook -----------------------------
(***************************************************************************)
(* Instances of OrderBook for TLC.                                         *)
(***************************************************************************)
EXTENDS OrderBookRefinement, TLC

CONSTANTS r1, r2, r3, s1, s2

Perms == Permutations(Refs) \cup Permutations(Stocks)
=============================================================================
