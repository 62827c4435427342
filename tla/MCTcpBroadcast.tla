--------------------------- MODULE MCTcpBroadcast ---------------------------
(***************************************************************************)
(* Instances of TcpBroadcast for TLC.                                      *)
(***************************************************************************)
EXTENDS TcpBroadcast, TLC

CONSTANTS c1, c2, c3, c4

Perms == Permutations(Conns)

OneEach == [k \in Kind |-> 1]
OneBbo  == [bbo |-> 1, opt |-> 0]
TwoOnly == [bbo |-> 2, opt |-> 0]
TwoBbo  == [bbo |-> 2, opt |-> 1]
=============================================================================
