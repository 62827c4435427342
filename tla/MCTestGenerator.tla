-------------------------- MODULE MCTestGenerator ---------------------------
(***************************************************************************)
(* Instances of TestGenerator for TLC.                                     *)
(***************************************************************************)
EXTENDS TestGenerator

CONSTANTS aapl

TheRefs   == 0 .. 120
ThePrices == {1000 * i : i \in 1440 .. 1560}
TheShares == 0 .. 1000
=============================================================================
