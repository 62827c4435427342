----------------------------- MODULE ImpliedVol -----------------------------
(***************************************************************************)
(* The pricing of an option (pricing/mod.rs): the search for the implied   *)
(* volatility, and the Greeks computed with what it finds.                 *)
(*                                                                         *)
(* The floating-point formulas are not modelled.  Volatilities are a range *)
(* of integers and the error of each, the distance of the model's price    *)
(* from the market's, is any number: the search must work for every price  *)
(* function and for every step that Newton's formula may take.  Of the     *)
(* Greeks only their kind is kept: zero, another number, infinite or not a *)
(* number, as IEEE arithmetic has it.  A specification is OptionPricing's. *)
(***************************************************************************)
EXTENDS Integers

CONSTANTS
  MIN_IV, MAX_IV, StartVol,  \* 1e-4, 10 and 0.3 in the code
  MAX_IV_ITERATIONS,
  MaxError,                  \* bound on the errors
  IV_EPSILON,                \* an error below is as good as none
  Close                      \* an error below is good enough: 1 % of the market price

ASSUME SolverAssumption ==
  /\ MIN_IV \in Nat \ {0} /\ MAX_IV \in Nat /\ StartVol \in MIN_IV .. MAX_IV
  /\ MAX_IV_ITERATIONS \in Nat \ {0}
  /\ MaxError \in Nat /\ IV_EPSILON \in Nat /\ Close \in Nat

Vols     == MIN_IV .. MAX_IV
Infinity == MaxError + 1

VARIABLES
  market,      \* the market price against the intrinsic value
  error,       \* volatility -> the error of its price
  phase,       \* "idle", "search", "found" or "done"
  iteration,
  vol,
  best_vol, best_error,
  tried,       \* history: the volatilities whose price was computed
  result,      \* the implied volatility: {} or {volatility}
  greeks       \* {} or {[delta, gamma, vega]}, by their kinds

solver == <<iteration, vol, best_vol, best_error, tried>>
vars   == <<market, error, phase, solver, result, greeks>>

-----------------------------------------------------------------------------
(* Mutated forms used by the mutation runs; no specification uses them. *)

\* Where nothing is close the volatility is zero.
Mut_settled_zero(b, v, e) == IF e < Close THEN {b} ELSE {0}

\* A volatility no better than the best one so far takes its place.
Mut_better(e) == e < Infinity

-----------------------------------------------------------------------------
Init ==
  /\ market = "unusable" /\ error = [v \in Vols |-> 0]
  /\ phase = "idle"
  /\ iteration = 0 /\ vol = StartVol
  /\ best_vol = StartVol /\ best_error = Infinity /\ tried = {}
  /\ result = {} /\ greeks = {}

\* An expired option, and one without a spot, strike or market price, has no
\* volatility, nor has a price below the intrinsic value.  At the intrinsic value
\* the volatility is zero.
Start(expired) ==
  /\ phase = "idle"
  /\ error' \in [Vols -> 0 .. MaxError]
  /\ \/ /\ market' \in {"unusable", "below"}
        /\ phase' = "done" /\ UNCHANGED result
     \/ /\ ~expired /\ market' = "at"
        /\ phase' = "found" /\ result' = {0}
     \/ /\ ~expired /\ market' = "above"
        /\ phase' = "search" /\ UNCHANGED result
  /\ UNCHANGED <<solver, greeks>>

better(e) == e < best_error
clamp(x)  == IF x < MIN_IV THEN MIN_IV ELSE IF x > MAX_IV THEN MAX_IV ELSE x
more      == phase = "search" /\ iteration < MAX_IV_ITERATIONS

\* The price of vol is computed and compared with the best one.
Try ==
  /\ tried' = tried \cup {vol}
  /\ best_error' = IF better(error[vol]) THEN error[vol] ELSE best_error
  /\ best_vol' = IF better(error[vol]) THEN vol ELSE best_vol

Hit ==
  /\ more /\ Try
  /\ error[vol] < IV_EPSILON
  /\ phase' = "found" /\ result' = {vol}
  /\ UNCHANGED <<market, error, iteration, vol, greeks>>

\* The step may lead anywhere, and is brought back into the range.
NewtonStep ==
  /\ more /\ Try
  /\ error[vol] >= IV_EPSILON
  /\ \E target \in MIN_IV - 1 .. MAX_IV + 1 : vol' = clamp(target)
  /\ iteration' = iteration + 1
  /\ UNCHANGED <<market, error, phase, result, greeks>>

\* What is returned after the loop.
settled(b, v, e) == IF e < Close THEN {b} ELSE {}

Settle(b, v, e) ==
  /\ result' = settled(b, v, e)
  /\ phase' = IF settled(b, v, e) = {} THEN "done" ELSE "found"

\* Where the price hardly depends on the volatility the loop is left.
Flat ==
  /\ more /\ Try
  /\ error[vol] >= IV_EPSILON
  /\ Settle(best_vol', vol, best_error')
  /\ UNCHANGED <<market, error, iteration, vol, greeks>>

Exhausted ==
  /\ phase = "search" /\ ~more
  /\ Settle(best_vol, vol, best_error)
  /\ UNCHANGED <<market, error, solver, greeks>>

-----------------------------------------------------------------------------
(* bsm_greeks, for an option that has not expired.  Theta, rho and the price are *)
(* left out: nothing in them is divided by the volatility but d1.               *)

\* x / y, for a y that is zero or positive.
quotient(x, y) ==
  CASE y = "number" -> x
    [] y = "zero" /\ x \in {"zero", "nan"} -> "nan"
    [] OTHER -> "infinite"

\* d1 for a volatility and a kind of its numerator.
d1(v, numerator) == quotient(numerator, IF v = 0 THEN "zero" ELSE "number")

\* The density is cut to zero beyond six deviations, where a number may be too.
norm_pdf(x) ==
  CASE x = "nan" -> {"nan"} [] x = "infinite" -> {"zero"} [] x = "zero" -> {"number"}
    [] OTHER -> {"zero", "number"}
norm_cdf(x) == IF x = "nan" THEN "nan" ELSE "number"

bsm_greeks(v, numerator, density) ==
  [delta |-> norm_cdf(d1(v, numerator)),
   gamma |-> quotient(density, IF v = 0 THEN "zero" ELSE "number"),
   vega  |-> density]

\* The numerator is zero when the rate just makes up for the moneyness.
Greeks ==
  /\ phase = "found"
  /\ \E v \in result, numerator \in {"zero", "number"} :
       \E density \in norm_pdf(d1(v, numerator)) :
          greeks' = {bsm_greeks(v, numerator, density)}
  /\ phase' = "done"
  /\ UNCHANGED <<market, error, solver, result>>

Search == Hit \/ NewtonStep \/ Flat \/ Exhausted \/ Greeks

-----------------------------------------------------------------------------
\* A volatility that is returned is the best of those that were tried and close
\* enough, or the zero at the intrinsic value; and none is returned only when
\* nothing that was tried is close: stepping on loses nothing.
ResultIsBest ==
  /\ \A v \in result :
       \/ v = 0 /\ market = "at"
       \/ /\ market = "above" /\ v \in tried
          /\ error[v] < Close \/ error[v] < IV_EPSILON
          /\ \A w \in tried : error[v] =< error[w]
  /\ phase = "done" /\ result = {} =>
       \A v \in tried : error[v] >= Close /\ error[v] >= IV_EPSILON

\* The Greeks of an option above its intrinsic value are numbers.
GreeksDefined ==
  market = "above" =>
    \A g \in greeks : \A f \in DOMAIN g : g[f] \notin {"nan", "infinite"}
=============================================================================
