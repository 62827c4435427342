--------------------------- MODULE MCOptionChain ----------------------------
(***************************************************************************)
(* Instances of OptionChain for TLC.                                       *)
(***************************************************************************)
EXTENDS OptionChain, TLC

CONSTANTS u1, u2, c1, c2, r1, r2

Perms == Permutations(Refs)

AllOfU1 == [c \in Contracts |-> u1]
TheQuotes == {<<3, 4>>, <<3, 0>>}
Uneven  == [c \in Contracts |-> IF c = c1 THEN 2 ELSE 1]
=============================================================================
