--------------------------- MODULE RestingShares ----------------------------
(***************************************************************************)
(* The shares that a map of resting orders holds at a price, counted from  *)
(* the orders themselves and not from any aggregate.  They are the reference*)
(* against which the levels of a book are judged.  The sum is taken as the *)
(* cardinality of a set that has one element per share.                    *)
(***************************************************************************)
EXTENDS Integers, FiniteSets

\* The orders of one side at one price.
At(orders, side, price) ==
  {r \in DOMAIN orders : orders[r].side = side /\ orders[r].price = price}

\* The single shares of these orders, each named by its order and its index.
Units(orders, side, price) ==
  UNION {{r} \X (1 .. orders[r].shares) : r \in At(orders, side, price)}

Outstanding(orders, side, price) == Cardinality(Units(orders, side, price))
=============================================================================
