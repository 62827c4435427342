------------------------ MODULE OptionPricingProofs -------------------------
(***************************************************************************)
(* What the search for the implied volatility guarantees, for every range  *)
(* of volatilities, every price function, every path of Newton's method,   *)
(* and every contract and day; and that the calendar and the expiries      *)
(* agree, for every number of days.                                        *)
(*                                                                         *)
(* The properties of the result are not inductive alone: that the best     *)
(* volatility is returned needs that it was kept through the search, that  *)
(* it was tried at all needs that the search makes at least one iteration, *)
(* and that a hit is the best needs that nothing before was as good.       *)
(*                                                                         *)
(* The formula of date_to_unix_secs counts years from March.  That it      *)
(* follows the calendar is an induction over the days, with a case for     *)
(* every end of a month; that an expired contract is not priced needs that *)
(* the formula also keeps the order of the dates.                          *)
(***************************************************************************)
EXTENDS OptionPricing, TLAPS

Kinds == {"zero", "number", "infinite", "nan"}

TypeInv ==
  /\ error \in [Vols -> 0 .. MaxError]
  /\ iteration \in 0 .. MAX_IV_ITERATIONS
  /\ vol \in Vols /\ best_vol \in Vols /\ best_error \in 0 .. Infinity
  /\ tried \subseteq Vols
  /\ result \subseteq {0} \cup Vols

\* The best volatility is the best of all that were tried.
BestOfTried ==
  /\ \A v \in tried : best_error =< error[v]
  /\ IF tried = {} THEN best_error = Infinity
                   ELSE best_vol \in tried /\ best_error = error[best_vol]

\* What holds before, during and after the search.
PhaseInv ==
  /\ phase = "idle" => tried = {} /\ result = {} /\ iteration = 0
  /\ phase = "search" => /\ market = "above" /\ result = {}
                         /\ \A v \in tried : error[v] >= IV_EPSILON
                         /\ iteration > 0 => tried # {}
  /\ phase # "done" => greeks = {}
  /\ phase = "found" => result # {}

IInv == TypeInv /\ BestOfTried /\ PhaseInv /\ ResultIsBest /\ GreeksDefined

-----------------------------------------------------------------------------
(* The operators of the search. *)

\* Whatever Newton's formula gives, the search stays within the range.
LEMMA ClampInRange ==
  ASSUME NEW x \in Int
  PROVE  clamp(x) \in Vols
  BY SolverAssumption DEF clamp, Vols

\* The error of a volatility is a number.
LEMMA ErrorType ==
  ASSUME TypeInv
  PROVE  \A v \in Vols : error[v] \in 0 .. MaxError
  BY DEF TypeInv

\* Trying a volatility keeps the best one.
LEMMA TryKeepsBest ==
  ASSUME TypeInv, BestOfTried, Try, error' = error
  PROVE  /\ tried' = tried \cup {vol} /\ tried' \subseteq Vols
         /\ best_vol' \in Vols /\ best_error' \in 0 .. Infinity
         /\ BestOfTried'
  <1>1. error[vol] \in 0 .. MaxError /\ vol \in Vols
    BY ErrorType DEF TypeInv
  <1>2. tried' = tried \cup {vol} /\ tried' # {} /\ tried' \subseteq Vols
    BY <1>1 DEF Try, TypeInv
  <1>3. CASE error[vol] < best_error
    <2>1. best_error' = error[vol] /\ best_vol' = vol
      BY <1>3 DEF Try, better
    <2>2. best_error' \in 0 .. Infinity
      BY <1>1, <2>1, SolverAssumption DEF Infinity
    <2>3. \A v \in tried' : best_error' =< error[v]
      <3>1. SUFFICES ASSUME NEW v \in tried PROVE error[vol] =< error[v]
        BY <1>1, <1>2, <2>1
      <3>2. best_error =< error[v] /\ error[v] \in Int
        BY ErrorType DEF TypeInv, BestOfTried
      <3> QED
        BY <1>1, <1>3, <3>2 DEF TypeInv
    <2> QED
      BY <1>1, <1>2, <2>1, <2>2, <2>3 DEF BestOfTried
  <1>4. CASE ~(error[vol] < best_error)
    <2>1. best_error' = best_error /\ best_vol' = best_vol
      BY <1>4 DEF Try, better
    <2>2. best_error =< error[vol]
      BY <1>1, <1>4 DEF TypeInv
    <2>3. tried # {}
      BY <1>1, <2>2, SolverAssumption DEF BestOfTried, Infinity
    <2> QED
      BY <1>1, <1>2, <2>1, <2>2, <2>3 DEF TypeInv, BestOfTried
  <1> QED
    BY <1>3, <1>4

\* The Greeks of a volatility that is not zero are numbers.
LEMMA GreeksOfVol ==
  ASSUME NEW v, v # 0, NEW numerator \in {"zero", "number"},
         NEW density \in norm_pdf(d1(v, numerator)),
         NEW f \in DOMAIN bsm_greeks(v, numerator, density)
  PROVE  bsm_greeks(v, numerator, density)[f] \notin {"nan", "infinite"}
  <1>1. d1(v, numerator) \in {"zero", "number"}
    BY DEF d1, quotient
  <1>2. density \in {"zero", "number"}
    BY <1>1 DEF norm_pdf
  <1>3. norm_cdf(d1(v, numerator)) = "number"
    BY <1>1 DEF norm_cdf
  <1>4. quotient(density, IF v = 0 THEN "zero" ELSE "number") = density
    BY DEF quotient
  <1> QED
    BY <1>2, <1>3, <1>4 DEF bsm_greeks

-----------------------------------------------------------------------------
(* The steps. *)

\* What is returned after the loop is the best volatility, if it is close.
LEMMA SettleIsBest ==
  ASSUME TypeInv, BestOfTried', tried' # {}, tried' \subseteq Vols,
         best_vol' \in Vols, best_error' \in 0 .. Infinity,
         \A v \in tried' : error[v] >= IV_EPSILON,
         error' = error, market' = market, market = "above",
         Settle(best_vol', vol, best_error')
  PROVE  /\ result' \subseteq {0} \cup Vols
         /\ ResultIsBest'
         /\ phase' \in {"found", "done"} /\ (phase' = "found" => result' # {})
  <1>1. \A v \in Vols : error[v] \in 0 .. MaxError
    BY ErrorType
  <1>2. best_vol' \in tried' /\ best_error' = error[best_vol']
    BY DEF BestOfTried
  <1>3. \A v \in tried' : best_error' =< error[v]
    BY DEF BestOfTried
  <1>4. CASE best_error' < Close
    <2>1. result' = {best_vol'} /\ phase' = "found"
      BY <1>4 DEF Settle, settled
    <2> QED
      BY <1>2, <1>3, <1>4, <2>1 DEF ResultIsBest
  <1>5. CASE ~(best_error' < Close)
    <2>1. result' = {} /\ phase' = "done"
      BY <1>5 DEF Settle, settled
    <2>2. \A v \in tried' : error[v] >= Close
      BY <1>1, <1>3, <1>5, SolverAssumption DEF Infinity
    <2> QED
      BY <2>1, <2>2 DEF ResultIsBest
  <1> QED
    BY <1>4, <1>5

\* One lemma for each step of the search, and one for its start.
LEMMA StartInv ==
  ASSUME IInv, NEW expired \in BOOLEAN, Start(expired)
  PROVE  IInv'
  <1>1. /\ error' \in [Vols -> 0 .. MaxError]
        /\ tried = {} /\ tried' = {} /\ iteration = 0 /\ iteration' = 0 /\ vol' = vol
        /\ best_vol' = best_vol /\ best_error' = best_error
        /\ result = {} /\ greeks = {} /\ greeks' = {}
    BY DEF IInv, PhaseInv, Start, solver
  <1>2. \/ phase' = "done" /\ result' = {}
        \/ market' = "at" /\ phase' = "found" /\ result' = {0}
        \/ market' = "above" /\ phase' = "search" /\ result' = {}
    BY <1>1 DEF Start
  <1>3. TypeInv'
    BY <1>1, <1>2 DEF IInv, TypeInv
  <1>4. BestOfTried' /\ GreeksDefined'
    BY <1>1 DEF IInv, BestOfTried, GreeksDefined
  <1>5. PhaseInv'
    BY <1>1, <1>2 DEF IInv, PhaseInv
  <1>6. ResultIsBest'
    BY <1>1, <1>2 DEF ResultIsBest
  <1> QED
    BY <1>3, <1>4, <1>5, <1>6 DEF IInv

LEMMA HitInv ==
  ASSUME IInv, Hit
  PROVE  IInv'
  <1>1. /\ Try /\ error' = error /\ market' = market /\ market = "above"
        /\ iteration' = iteration /\ vol' = vol /\ greeks' = greeks /\ greeks = {}
        /\ phase' = "found" /\ result' = {vol} /\ error[vol] < IV_EPSILON
        /\ \A v \in tried : error[v] >= IV_EPSILON
    BY DEF IInv, PhaseInv, Hit, more
  <1>2. /\ tried' = tried \cup {vol} /\ tried' \subseteq Vols
        /\ best_vol' \in Vols /\ best_error' \in 0 .. Infinity /\ BestOfTried'
    BY <1>1, TryKeepsBest DEF IInv
  <1>3. TypeInv'
    BY <1>1, <1>2 DEF IInv, TypeInv
  <1>4. PhaseInv' /\ GreeksDefined'
    BY <1>1 DEF PhaseInv, GreeksDefined
  <1>5. ResultIsBest'
    <2>1. \A v \in Vols : error[v] \in 0 .. MaxError
      BY ErrorType DEF IInv
    <2>2. \A w \in tried' : error[vol] =< error[w]
      BY <1>1, <1>2, <2>1, SolverAssumption DEF IInv, TypeInv
    <2> QED
      BY <1>1, <1>2, <2>2 DEF ResultIsBest
  <1> QED
    BY <1>2, <1>3, <1>4, <1>5 DEF IInv

LEMMA NewtonStepInv ==
  ASSUME IInv, NewtonStep
  PROVE  IInv'
  <1>1. /\ Try /\ error' = error /\ market' = market /\ market = "above"
        /\ greeks' = greeks /\ greeks = {} /\ phase' = "search" /\ result' = {}
        /\ \A v \in tried : error[v] >= IV_EPSILON
        /\ error[vol] >= IV_EPSILON
        /\ iteration' = iteration + 1 /\ iteration < MAX_IV_ITERATIONS
    BY DEF IInv, PhaseInv, NewtonStep, more
  <1>2. /\ tried' = tried \cup {vol} /\ tried' \subseteq Vols
        /\ best_vol' \in Vols /\ best_error' \in 0 .. Infinity /\ BestOfTried'
    BY <1>1, TryKeepsBest DEF IInv
  <1>3. vol' \in Vols
    BY ClampInRange, SolverAssumption DEF NewtonStep
  <1>4. TypeInv'
    BY <1>1, <1>2, <1>3, SolverAssumption DEF IInv, TypeInv
  <1>5. PhaseInv' /\ GreeksDefined' /\ ResultIsBest'
    BY <1>1, <1>2 DEF PhaseInv, GreeksDefined, ResultIsBest
  <1> QED
    BY <1>2, <1>4, <1>5 DEF IInv

LEMMA FlatInv ==
  ASSUME IInv, Flat
  PROVE  IInv'
  <1>1. /\ Try /\ error' = error /\ market' = market /\ market = "above"
        /\ iteration' = iteration /\ vol' = vol /\ greeks' = greeks /\ greeks = {}
        /\ \A v \in tried : error[v] >= IV_EPSILON
        /\ error[vol] >= IV_EPSILON
        /\ Settle(best_vol', vol, best_error')
    BY DEF IInv, PhaseInv, Flat, more
  <1>2. /\ tried' = tried \cup {vol} /\ tried' \subseteq Vols
        /\ best_vol' \in Vols /\ best_error' \in 0 .. Infinity /\ BestOfTried'
    BY <1>1, TryKeepsBest DEF IInv
  <1>3. /\ result' \subseteq {0} \cup Vols /\ ResultIsBest'
        /\ phase' \in {"found", "done"} /\ (phase' = "found" => result' # {})
    BY <1>1, <1>2, SettleIsBest DEF IInv
  <1>4. TypeInv'
    BY <1>1, <1>2, <1>3 DEF IInv, TypeInv
  <1>5. PhaseInv' /\ GreeksDefined'
    BY <1>1, <1>3 DEF PhaseInv, GreeksDefined
  <1> QED
    BY <1>2, <1>3, <1>4, <1>5 DEF IInv

LEMMA ExhaustedInv ==
  ASSUME IInv, Exhausted
  PROVE  IInv'
  <1>1. /\ error' = error /\ market' = market /\ market = "above"
        /\ iteration' = iteration /\ vol' = vol /\ greeks' = greeks /\ greeks = {}
        /\ tried' = tried /\ best_vol' = best_vol /\ best_error' = best_error
        /\ \A v \in tried : error[v] >= IV_EPSILON
        /\ iteration >= MAX_IV_ITERATIONS /\ (iteration > 0 => tried # {})
        /\ Settle(best_vol, vol, best_error)
    BY SolverAssumption DEF IInv, TypeInv, PhaseInv, Exhausted, more, solver
  <1>2. BestOfTried' /\ tried # {}
    BY <1>1, SolverAssumption DEF IInv, TypeInv, BestOfTried
  <1>3. /\ result' \subseteq {0} \cup Vols /\ ResultIsBest'
        /\ phase' \in {"found", "done"} /\ (phase' = "found" => result' # {})
    <2>1. Settle(best_vol', vol, best_error')
      BY <1>1
    <2> QED
      BY <1>1, <1>2, <2>1, SettleIsBest DEF IInv, TypeInv
  <1>4. TypeInv'
    BY <1>1, <1>3 DEF IInv, TypeInv
  <1>5. PhaseInv' /\ GreeksDefined'
    BY <1>1, <1>3 DEF PhaseInv, GreeksDefined
  <1> QED
    BY <1>2, <1>3, <1>4, <1>5 DEF IInv

LEMMA GreeksInv ==
  ASSUME IInv, Greeks
  PROVE  IInv'
  <1>1. /\ error' = error /\ market' = market /\ iteration' = iteration /\ vol' = vol
        /\ tried' = tried /\ best_vol' = best_vol /\ best_error' = best_error
        /\ result' = result /\ result # {} /\ phase' = "done"
    BY DEF IInv, PhaseInv, Greeks, solver
  <1>2. TypeInv' /\ BestOfTried' /\ PhaseInv'
    BY <1>1 DEF IInv, TypeInv, BestOfTried, PhaseInv
  <1>3. ResultIsBest'
    BY <1>1 DEF IInv, ResultIsBest
  <1>4. GreeksDefined'
    <2>1. PICK v \in result, numerator \in {"zero", "number"} :
            \E density \in norm_pdf(d1(v, numerator)) :
               greeks' = {bsm_greeks(v, numerator, density)}
      BY DEF Greeks
    <2>2. PICK density \in norm_pdf(d1(v, numerator)) :
            greeks' = {bsm_greeks(v, numerator, density)}
      BY <2>1
    <2>3. SUFFICES ASSUME market = "above",
                          NEW f \in DOMAIN bsm_greeks(v, numerator, density)
                   PROVE  bsm_greeks(v, numerator, density)[f] \notin {"nan", "infinite"}
      BY <1>1, <2>2 DEF GreeksDefined
    <2>4. v # 0
      BY <2>3, SolverAssumption DEF IInv, ResultIsBest, TypeInv, Vols
    <2> QED
      BY <2>3, <2>4, GreeksOfVol
  <1> QED
    BY <1>2, <1>3, <1>4 DEF IInv

-----------------------------------------------------------------------------
\* The invariant holds at the beginning, and every step preserves it: the days that
\* go by do not touch the search.
LEMMA InitInv == PricingInit => IInv
  <1> SUFFICES ASSUME Init PROVE IInv
    BY DEF PricingInit
  <1>1. TypeInv
    BY SolverAssumption DEF Init, TypeInv, Vols, Infinity
  <1> QED
    BY <1>1 DEF Init, IInv, BestOfTried, PhaseInv, ResultIsBest, GreeksDefined

LEMMA StepInv == IInv /\ [PricingNext]_pricing_vars => IInv'
  <1> SUFFICES ASSUME IInv, [PricingNext]_pricing_vars PROVE IInv'
    OBVIOUS
  <1>1. CASE UNCHANGED vars
    BY <1>1 DEF vars, solver, IInv, TypeInv, BestOfTried, PhaseInv, ResultIsBest, GreeksDefined
  <1>2. ASSUME NEW date \in ExpiryDates, compute_pricing(date) PROVE IInv'
    BY <1>2, StartInv DEF compute_pricing
  <1>3. CASE Search
    BY <1>3, HitInv, NewtonStepInv, FlatInv, ExhaustedInv, GreeksInv DEF Search
  <1> QED
    BY <1>1, <1>2, <1>3 DEF PricingNext, Day, Solve, pricing_vars

\* The invariant from which the properties follow.
THEOREM PricingInvariant == PricingSpec => []IInv
  BY InitInv, StepInv, PTL DEF PricingSpec

\* The volatility that the search returns is the best of all it has tried, and
\* close; and it returns none only when nothing was close (solve_implied_volatility).
THEOREM BestIsReturned == PricingSpec => []ResultIsBest
  <1>1. IInv => ResultIsBest
    BY DEF IInv
  <1> QED
    BY PricingInvariant, <1>1, PTL

\* Above the intrinsic value no Greek is infinite or not a number (bsm_greeks).
THEOREM GreeksAreNumbers == PricingSpec => []GreeksDefined
  <1>1. IInv => GreeksDefined
    BY DEF IInv
  <1> QED
    BY PricingInvariant, <1>1, PTL

-----------------------------------------------------------------------------
(* The days before a year and a month, as date_to_unix_secs counts them. *)

\* The number that stands for a date.
DateOf(y, m, d) == 10000 * y + 100 * m + d

\* The days of z years.
Years(z) == 365 * z + z \div 4 - z \div 100 + z \div 400

\* A year has 366 days if it is a leap year, and 365 otherwise: 4800 is a multiple
\* of 400.
LEMMA YearsStep ==
  ASSUME NEW y \in Nat
  PROVE  /\ Years(y + 4800) \in Nat /\ Years(y + 4799) \in Nat
         /\ Leap(y) => Years(y + 4800) = Years(y + 4799) + 366
         /\ ~Leap(y) => Years(y + 4800) = Years(y + 4799) + 365
BY DEF Years, Leap

\* The days of a year, which begins with March, before the month m.
Months(m) == (153 * m + 2) \div 5

\* The days from 1970 to a date.
DayOf(y, m, d) ==
  (IF m =< 2 THEN Years(y + 4799) + Months(m + 9)
             ELSE Years(y + 4800) + Months(m - 3)) + d - 2472633

\* date_to_unix_secs takes the number apart into the date.
LEMMA DaysOf ==
  ASSUME NEW y \in Nat, NEW m \in 1 .. 12, NEW d \in 1 .. 31, NEW date,
         date = DateOf(y, m, d)
  PROVE  date_to_unix_days(date) = DayOf(y, m, d)
<1>1. /\ date \in Nat /\ date \div 10000 = y
      /\ (date % 10000) \div 100 = m /\ date % 100 = d
  <2>1. date = 10000 * y + 100 * m + d
    BY DEF DateOf
  <2>2. date \in Nat /\ date \div 10000 = y /\ date % 10000 = 100 * m + d
    BY <2>1
  <2>3. (100 * m + d) \div 100 = m
    OBVIOUS
  <2>4. date % 100 = d
    BY <2>1
  <2>5. QED
    BY <2>2, <2>3, <2>4
<1>2. quot(14 - m, 12) = IF m =< 2 THEN 1 ELSE 0
  BY DEF quot
<1>3. /\ y_adj(date) = IF m =< 2 THEN y + 4799 ELSE y + 4800
      /\ m_adj(date) = IF m =< 2 THEN m + 9 ELSE m - 3
  BY <1>1, <1>2 DEF y_adj, m_adj
<1>4. PICK z \in Nat : z = y_adj(date) /\ z = IF m =< 2 THEN y + 4799 ELSE y + 4800
  BY <1>3
<1>5. PICK n \in Nat : n = m_adj(date) /\ n = IF m =< 2 THEN m + 9 ELSE m - 3
  BY <1>3
<1>6. /\ quot(153 * n + 2, 5) = Months(n)
      /\ 365 * z + quot(z, 4) - quot(z, 100) + quot(z, 400) = Years(z)
  BY DEF quot, Months, Years
<1>7. Months(n) \in Int /\ Years(z) \in Int
  BY DEF Months, Years
<1>8. PICK a \in Int, b \in Int, c \in Int, e \in Int :
        a = 365 * z /\ b = quot(z, 4) /\ c = quot(z, 100) /\ e = quot(z, 400)
  BY DEF quot
<1>9. date_to_unix_days(date) = (d + Months(n) + a + b - c + e - 32045) - 2440588
  <2>1. date_to_unix_days(date) =
          ((date % 100) + quot(153 * m_adj(date) + 2, 5) + 365 * y_adj(date)
             + quot(y_adj(date), 4) - quot(y_adj(date), 100) + quot(y_adj(date), 400) - 32045)
          - 2440588
    BY SMT DEF date_to_unix_days
  <2>2. date % 100 = d /\ y_adj(date) = z /\ m_adj(date) = n
    BY <1>1, <1>4, <1>5
  <2>3. date_to_unix_days(date) =
          (d + quot(153 * n + 2, 5) + 365 * z + quot(z, 4) - quot(z, 100) + quot(z, 400) - 32045)
          - 2440588
    BY <2>1, <2>2, SMT
  <2>4. QED
    BY <1>6, <1>8, <2>2, <2>3, SMT
<1>10. a + b - c + e = Years(z)
  BY <1>6, <1>8, SMT
<1>11. date_to_unix_days(date) = Years(z) + Months(n) + d - 2472633
  BY <1>7, <1>9, <1>10, SMT
<1>12. QED
  BY <1>4, <1>5, <1>11, SMT DEF DayOf

LEMMA MonthLengths ==
  ASSUME NEW y \in Nat, NEW m \in 1 .. 12
  PROVE  /\ LastOf(m, y) \in 28 .. 31
         /\ m = 2 /\ Leap(y) => LastOf(m, y) = 29
         /\ m = 2 /\ ~Leap(y) => LastOf(m, y) = 28
         /\ m # 2 => LastOf(m, y) = IF m \in {4, 6, 9, 11} THEN 30 ELSE 31
<1>1. Leap(y) \in BOOLEAN
  BY DEF Leap
<1>2. CASE m \in {4, 6, 9, 11}
  BY <1>2 DEF LastOf
<1>3. CASE m = 2
  BY <1>1, <1>3 DEF LastOf
<1>4. CASE m \notin {2, 4, 6, 9, 11}
  BY <1>4 DEF LastOf
<1>5. QED
  BY <1>2, <1>3, <1>4

\* The months from March on begin when the one before has ended.
LEMMA MonthsFollow ==
  ASSUME NEW y \in Nat
  PROVE  /\ \A m \in 3 .. 11 : Months((m + 1) - 3) = Months(m - 3) + LastOf(m, y)
         /\ Months(0) = 0 /\ Months(9) = 275 /\ Months(10) = 306 /\ Months(11) = 337
         /\ \A m \in 0 .. 11 : Months(m) \in Nat
<1>1. /\ Months(0) = 0 /\ Months(1) = 31 /\ Months(2) = 61 /\ Months(3) = 92
      /\ Months(4) = 122 /\ Months(5) = 153 /\ Months(6) = 184 /\ Months(7) = 214
      /\ Months(8) = 245 /\ Months(9) = 275 /\ Months(10) = 306 /\ Months(11) = 337
  BY DEF Months
<1>2. ASSUME NEW m \in 3 .. 11
      PROVE  Months((m + 1) - 3) = Months(m - 3) + LastOf(m, y)
  <2>1. LastOf(m, y) = IF m \in {4, 6, 9, 11} THEN 30 ELSE 31
    BY MonthLengths
  <2>2. m \in {3, 4, 5, 6, 7, 8, 9, 10, 11}
    OBVIOUS
  <2>3. QED
    BY <1>1, <2>1, <2>2
<1>3. \A m \in 0 .. 11 : Months(m) \in Nat
  BY DEF Months
<1>4. QED
  BY <1>1, <1>2, <1>3

\* After the last day of a month comes the first day of the next one.
LEMMA NextMonth ==
  ASSUME NEW y \in Nat, NEW m \in 1 .. 11
  PROVE  DayOf(y, m + 1, 1) = DayOf(y, m, LastOf(m, y)) + 1
<1>1. /\ Years(y + 4800) \in Nat /\ Years(y + 4799) \in Nat
      /\ Leap(y) => Years(y + 4800) = Years(y + 4799) + 366
      /\ ~Leap(y) => Years(y + 4800) = Years(y + 4799) + 365
  BY YearsStep, SMT
<1>2. CASE m = 1
  BY <1>1, <1>2, MonthLengths, MonthsFollow, SMT DEF DayOf
<1>3. CASE m = 2
  BY <1>1, <1>3, MonthLengths, MonthsFollow, SMT DEF DayOf
<1>4. CASE m \in 3 .. 11
  BY <1>1, <1>4, MonthLengths, MonthsFollow, SMT DEF DayOf
<1>5. QED
  BY <1>2, <1>3, <1>4, SMT

LEMMA NextYear ==
  ASSUME NEW y \in Nat
  PROVE  DayOf(y + 1, 1, 1) = DayOf(y, 12, 31) + 1
<1>1. Years(y + 4800) \in Nat /\ (y + 1) + 4799 = y + 4800
  <2>1. Years(y + 4800) \in Nat
    BY SMT DEF Years
  <2>2. QED
    BY <2>1, SMT
<1>2. Months(10) = 306 /\ Months(9) = 275
  BY MonthsFollow
<1>3. DayOf(y + 1, 1, 1) = Years(y + 4800) + 306 + 1 - 2472633
  BY <1>1, <1>2, SMT DEF DayOf
<1>4. DayOf(y, 12, 31) = Years(y + 4800) + 275 + 31 - 2472633
  BY <1>1, <1>2, SMT DEF DayOf
<1>5. QED
  BY <1>1, <1>3, <1>4, SMT

\* A later year begins after the end of an earlier one.
LEMMA YearsGrow ==
  ASSUME NEW x \in Nat, NEW y \in Nat, x < y
  PROVE  Years(x + 4800) =< Years(y + 4799)
<1>1. x + 4800 =< y + 4799
  OBVIOUS
<1>2. ASSUME NEW a \in Nat, NEW b \in Nat, a =< b
      PROVE  Years(a) =< Years(b)
  <2>1. PICK i \in Nat, j \in Nat : i = a \div 4 /\ j = b \div 4
    OBVIOUS
  <2>2. i =< j /\ a \div 400 =< b \div 400 /\ 365 * a =< 365 * b
    BY <1>2, <2>1
  <2>3. a \div 100 = i \div 25 /\ b \div 100 = j \div 25
    BY <2>1
  <2>4. i - i \div 25 =< j - j \div 25
    BY <2>2
  <2>5. QED
    BY <2>1, <2>2, <2>3, <2>4 DEF Years
<1>3. QED
  BY <1>1, <1>2, SMT

\* A date that is not earlier is not on an earlier day.
LEMMA DaysInOrder ==
  ASSUME NEW y \in Nat, NEW m \in 1 .. 12, NEW d \in 1 .. 31, d =< LastOf(m, y),
         NEW y2 \in Nat, NEW m2 \in 1 .. 12, NEW d2 \in 1 .. 31, d2 =< LastOf(m2, y2),
         DateOf(y, m, d) >= DateOf(y2, m2, d2)
  PROVE  DayOf(y, m, d) >= DayOf(y2, m2, d2)
<1>1. /\ Years(y + 4800) \in Nat /\ Years(y + 4799) \in Nat
      /\ Leap(y) => Years(y + 4800) = Years(y + 4799) + 366
      /\ ~Leap(y) => Years(y + 4800) = Years(y + 4799) + 365
  BY YearsStep, SMT
<1>2. /\ Years(y2 + 4800) \in Nat /\ Years(y2 + 4799) \in Nat
      /\ Leap(y2) => Years(y2 + 4800) = Years(y2 + 4799) + 366
      /\ ~Leap(y2) => Years(y2 + 4800) = Years(y2 + 4799) + 365
  BY YearsStep, SMT
<1>3. /\ Months(0) = 0 /\ Months(1) = 31 /\ Months(2) = 61 /\ Months(3) = 92
      /\ Months(4) = 122 /\ Months(5) = 153 /\ Months(6) = 184 /\ Months(7) = 214
      /\ Months(8) = 245 /\ Months(9) = 275 /\ Months(10) = 306 /\ Months(11) = 337
  BY DEF Months
<1>4. \/ y > y2
      \/ y = y2 /\ m > m2
      \/ y = y2 /\ m = m2 /\ d >= d2
  BY SMT DEF DateOf
<1>5. CASE y > y2
  BY <1>1, <1>2, <1>3, <1>5, YearsGrow, SMT DEF DayOf
<1>6. CASE y = y2 /\ m > m2
  BY <1>1, <1>3, <1>6, MonthLengths, SMT DEF DayOf
<1>7. CASE y = y2 /\ m = m2 /\ d >= d2
  BY <1>1, <1>3, <1>7, SMT DEF DayOf
<1>8. QED
  BY <1>4, <1>5, <1>6, <1>7

CalendarInv ==
  /\ year \in Nat /\ year >= 1970 /\ month \in 1 .. 12
  /\ day \in 1 .. LastOf(month, year)
  /\ today \in 0 .. LastDay
  /\ DayOf(year, month, day) = today

LEMMA FirstDay == DayOf(1970, 1, 1) = 0
BY SMT DEF DayOf, Years, Months

LEMMA CalendarInvInit == CalendarInit => CalendarInv
<1> SUFFICES ASSUME CalendarInit PROVE CalendarInv
  OBVIOUS
<1>1. year = 1970 /\ month = 1 /\ day = 1 /\ today = 0
  BY DEF CalendarInit
<1>2. LastOf(month, year) \in 28 .. 31
  BY <1>1, MonthLengths, SMT
<1>3. DayOf(year, month, day) = today
  BY <1>1, FirstDay, SMT
<1>4. QED
  BY <1>1, <1>2, <1>3, ExpiryAssumption, SMT DEF CalendarInv

LEMMA CalendarInvNext == CalendarInv /\ [NextDay]_calendar_vars => CalendarInv'
<1> SUFFICES ASSUME CalendarInv, [NextDay]_calendar_vars PROVE CalendarInv'
  OBVIOUS
<1>1. /\ year \in Nat /\ year >= 1970 /\ month \in 1 .. 12
      /\ day \in 1 .. LastOf(month, year) /\ LastOf(month, year) \in 28 .. 31
      /\ today \in 0 .. LastDay /\ DayOf(year, month, day) = today /\ LastDay \in Nat
  BY MonthLengths, ExpiryAssumption, SMT DEF CalendarInv
<1>2. CASE UNCHANGED calendar_vars
  <2>1. year' = year /\ month' = month /\ day' = day /\ today' = today
    BY <1>2 DEF calendar_vars
  <2>2. QED
    BY <1>1, <2>1, SMT DEF CalendarInv
<1>3. CASE NextDay
  <2>1. today' = today + 1 /\ today < LastDay
    BY <1>3 DEF NextDay
  <2>2. CASE day < LastOf(month, year) /\ day' = day + 1 /\ UNCHANGED <<month, year>>
    <3>1. DayOf(year, month, day + 1) = DayOf(year, month, day) + 1
      <4>1. Years(year + 4800) \in Int /\ Years(year + 4799) \in Int
        BY <1>1, SMT DEF Years
      <4>2. Months(month + 9) \in Int /\ Months(month - 3) \in Int
        BY <1>1, SMT DEF Months
      <4>3. QED
        BY <1>1, <4>1, <4>2, SMT DEF DayOf
    <3>2. DayOf(year', month', day') = today'
      BY <1>1, <2>1, <2>2, <3>1, SMT
    <3>3. day' \in 1 .. LastOf(month', year')
      BY <1>1, <2>2, SMT
    <3>4. QED
      BY <1>1, <2>1, <2>2, <3>2, <3>3, SMT DEF CalendarInv
  <2>3. CASE /\ day = LastOf(month, year) /\ month < 12
             /\ day' = 1 /\ month' = month + 1 /\ UNCHANGED year
    <3>1. DayOf(year, month + 1, 1) = today + 1
      BY <1>1, <2>3, NextMonth, SMT
    <3>2. LastOf(month', year') \in 28 .. 31 /\ month' \in 1 .. 12
      BY <1>1, <2>3, MonthLengths, SMT
    <3>3. DayOf(year', month', day') = today'
      BY <2>1, <2>3, <3>1, SMT
    <3>4. QED
      BY <1>1, <2>1, <2>3, <3>2, <3>3, SMT DEF CalendarInv
  <2>4. CASE /\ day = LastOf(month, year) /\ month = 12
             /\ day' = 1 /\ month' = 1 /\ year' = year + 1
    <3>1. LastOf(month, year) = 31
      BY <1>1, <2>4, MonthLengths, SMT
    <3>2. DayOf(year + 1, 1, 1) = today + 1
      BY <1>1, <2>4, <3>1, NextYear, SMT
    <3>3. LastOf(month', year') \in 28 .. 31 /\ year' \in Nat /\ year' >= 1970
      BY <1>1, <2>4, MonthLengths, SMT
    <3>4. DayOf(year', month', day') = today'
      BY <2>1, <2>4, <3>2, SMT
    <3>5. QED
      BY <1>1, <2>1, <2>4, <3>3, <3>4, SMT DEF CalendarInv
  <2>5. QED
    BY <1>3, <2>2, <2>3, <2>4 DEF NextDay
<1>4. QED
  BY <1>2, <1>3

LEMMA TodayIsDate ==
  ASSUME CalendarInv
  PROVE  date_to_unix_days(Date) = today
<1>1. /\ year \in Nat /\ month \in 1 .. 12 /\ day \in 1 .. LastOf(month, year)
      /\ LastOf(month, year) \in 28 .. 31 /\ DayOf(year, month, day) = today
  BY MonthLengths, SMT DEF CalendarInv
<1>2. day \in 1 .. 31
  BY <1>1
<1>3. QED
  <2>1. PICK y \in Nat, m \in 1 .. 12, d \in 1 .. 31 : y = year /\ m = month /\ d = day
    BY <1>1, <1>2
  <2>2. date_to_unix_days(DateOf(y, m, d)) = DayOf(y, m, d)
    BY DaysOf, SMT
  <2>3. Date = DateOf(y, m, d)
    BY <2>1, SMT DEF Date, DateOf
  <2>4. QED
    BY <1>1, <2>1, <2>2, <2>3, SMT

\* Month and day are the two last pairs of digits of a date.
LEMMA Pairs ==
  ASSUME NEW r \in Nat, r < 10000
  PROVE  r \div 100 \in 0 .. 99
BY SMT

\* What is read as a date of the year 1900 or before comes before 1970, months and
\* days that there are none of included.
LEMMA NoDate ==
  ASSUME NEW date \in Nat, date < 19000200
  PROVE  date_to_unix_days(date) < 0
<1>1. PICK y \in Nat : y = date \div 10000 /\ y =< 1900
  BY SMT
<1>2. PICK r \in Nat : r = date % 10000 /\ r < 10000
  BY SMT
<1>3. PICK mm \in 0 .. 99 : mm = r \div 100
  BY <1>2, Pairs, SMT
<1>4. PICK d \in 0 .. 99 : d = date % 100
  BY SMT
<1>5. PICK q \in Int : q = quot(14 - mm, 12) /\ q \in -8 .. 1
                       /\ mm + 12 * q =< 25 /\ mm + 12 * q >= 3
  BY <1>3, SMT DEF quot
<1>6. PICK z \in Nat : z = y + 4800 - q /\ z =< 6708
  BY <1>1, <1>5, SMT
<1>7. PICK n \in 0 .. 22 : n = mm + 12 * q - 3
  BY <1>5, SMT
<1>8. y_adj(date) = z /\ m_adj(date) = n
  BY <1>1, <1>2, <1>3, <1>5, <1>6, <1>7, SMT DEF y_adj, m_adj
<1>9. date_to_unix_days(date) =
        ((date % 100) + quot(153 * m_adj(date) + 2, 5) + 365 * y_adj(date)
           + quot(y_adj(date), 4) - quot(y_adj(date), 100) + quot(y_adj(date), 400) - 32045)
        - 2440588
  BY SMT DEF date_to_unix_days
<1>10. date_to_unix_days(date) =
         (d + quot(153 * n + 2, 5) + 365 * z + quot(z, 4) - quot(z, 100) + quot(z, 400) - 32045)
         - 2440588
  BY <1>4, <1>8, <1>9, SMT
<1>11. QED
  BY <1>6, <1>10, SMT DEF quot

-----------------------------------------------------------------------------
(* The calendar and the contracts. *)

LEMMA CalendarInvHolds == PricingSpec => []CalendarInv
  <1>1. PricingInit => CalendarInv
    BY CalendarInvInit DEF PricingInit
  <1>2. CalendarInv /\ [PricingNext]_pricing_vars => CalendarInv'
    <2>1. [PricingNext]_pricing_vars => [NextDay]_calendar_vars
      BY DEF PricingNext, pricing_vars, Day, compute_pricing, Solve
    <2>2. QED
      BY <2>1, CalendarInvNext
  <1>3. QED
    BY <1>1, <1>2, PTL DEF PricingSpec

\* date_to_unix_secs turns every date from 1970 on into its day, whatever the
\* years, the leap years and those that are none included.
THEOREM DatesAreDays == PricingSpec => []DateIsDay
  <1>1. CalendarInv => DateIsDay
    BY TodayIsDate DEF DateIsDay
  <1>2. QED
    BY <1>1, CalendarInvHolds, PTL

\* A contract of the test generator never expires, for as long as the number of
\* days since 1970 does not look like a date: some fifty thousand years.
THEOREM GeneratedLiveForever ==
  ASSUME LastDay < 19000000
  PROVE  PricingSpec => []GeneratedNeverExpire
  <1>1. CalendarInv => GeneratedNeverExpire
    <2>1. SUFFICES ASSUME CalendarInv, NEW date \in generated(today)
                   PROVE  expiry_day(date) = Forever
      BY DEF GeneratedNeverExpire
    <2>2. LastDay \in Nat /\ today \in 0 .. LastDay
      BY <2>1, ExpiryAssumption, SMT DEF CalendarInv
    <2>3. date \in Nat /\ date < 19000200
      BY <2>2, SMT DEF generated
    <2>4. date_to_unix_days(date) < 0
      BY <2>3, NoDate, SMT
    <2>5. QED
      BY <2>4, SMT DEF expiry_day
  <1>2. QED
    BY <1>1, CalendarInvHolds, PTL

\* The contracts have dates of the calendar.
RealDates ==
  \A date \in ExpiryDates :
     \E y \in Nat, m \in 1 .. 12 :
        y >= 1970 /\ \E d \in 1 .. LastOf(m, y) : date = DateOf(y, m, d)

\* A contract that is priced, or being priced, has days left.
Priced ==
  phase \in {"search", "found"} \/ result # {} =>
     \A date \in contract : date \in ExpiryDates /\ days_to_maturity(date, today) # 0

LEMMA PricedHolds == PricingSpec => []Priced
  <1>1. PricingInit => Priced
    BY DEF PricingInit, Priced
  <1>2. IInv /\ Priced /\ [PricingNext]_pricing_vars => Priced'
    <2>1. SUFFICES ASSUME IInv, Priced, [PricingNext]_pricing_vars PROVE Priced'
      OBVIOUS
    <2>2. phase = "idle" => result = {}
      BY <2>1 DEF IInv, PhaseInv
    <2>3. CASE Day
      BY <2>2, <2>3 DEF Day, vars, Priced
    <2>4. ASSUME NEW date \in ExpiryDates, compute_pricing(date) PROVE Priced'
      <3>1. /\ phase = "idle" /\ contract' = {date} /\ today' = today
            /\ phase' \in {"search", "found"} \/ result' # {} => days_to_maturity(date, today) # 0
        BY <2>2, <2>4 DEF compute_pricing, Start, calendar_vars
      <3>2. QED
        BY <3>1 DEF Priced
    <2>5. CASE Solve
      <3>1. phase \in {"search", "found"} /\ contract' = contract /\ today' = today
        BY <2>5 DEF Solve, Search, Hit, NewtonStep, Flat, Exhausted, Greeks, more, calendar_vars
      <3>2. QED
        BY <2>1, <3>1 DEF Priced
    <2>6. CASE UNCHANGED pricing_vars
      BY <2>1, <2>6 DEF pricing_vars, calendar_vars, vars, Priced
    <2>7. QED
      BY <2>1, <2>3, <2>4, <2>5, <2>6 DEF PricingNext
  <1>3. QED
    BY <1>1, <1>2, PricingInvariant, PTL DEF PricingSpec

\* A contract is only priced before its date: the order of the dates is that of
\* their days.
THEOREM ExpiredAreUnpriced ==
  ASSUME RealDates
  PROVE  PricingSpec => []ExpiredUnpriced
  <1>1. CalendarInv /\ Priced => ExpiredUnpriced
    <2>1. SUFFICES ASSUME CalendarInv, Priced, result # {}, NEW date \in contract
                   PROVE  Date < date
      BY DEF ExpiredUnpriced
    <2>2. date \in ExpiryDates /\ days_to_maturity(date, today) # 0
      BY <2>1 DEF Priced
    <2>3. PICK y \in Nat, m \in 1 .. 12 :
                y >= 1970 /\ \E d \in 1 .. LastOf(m, y) : date = DateOf(y, m, d)
      BY <2>2 DEF RealDates
    <2>4. PICK d \in 1 .. LastOf(m, y) : date = DateOf(y, m, d)
      BY <2>3
    <2>5. d \in 1 .. 31 /\ d =< LastOf(m, y)
      BY MonthLengths, SMT
    <2>6. date_to_unix_days(date) = DayOf(y, m, d)
      BY <2>4, <2>5, DaysOf, SMT
    <2>7. DayOf(y, m, d) >= 0 /\ DayOf(y, m, d) \in Int
      <3>1. PICK y0 \in Nat, m0 \in 1 .. 12, d0 \in 1 .. 31 : y0 = 1970 /\ m0 = 1 /\ d0 = 1
        OBVIOUS
      <3>2. DateOf(y, m, d) >= DateOf(y0, m0, d0)
        BY <2>3, <2>5, <3>1, SMT DEF DateOf
      <3>3. d0 =< LastOf(m0, y0)
        BY <3>1, MonthLengths, SMT
      <3>4. DayOf(y, m, d) >= DayOf(y0, m0, d0)
        BY <2>5, <3>2, <3>3, DaysInOrder, Zenon
      <3>5. DayOf(y, m, d) \in Int
        BY <2>5, SMT DEF DayOf, Years, Months
      <3>6. QED
        BY <3>1, <3>4, <3>5, FirstDay, SMT
    <2>8. DayOf(y, m, d) > today
      <3>1. expiry_day(date) = DayOf(y, m, d)
        BY <2>6, <2>7, SMT DEF expiry_day
      <3>2. ~(expiry_day(date) =< today)
        BY <2>2 DEF days_to_maturity
      <3>3. today \in Int
        BY <2>1, ExpiryAssumption, SMT DEF CalendarInv
      <3>4. QED
        BY <2>7, <3>1, <3>2, <3>3, SMT
    <2>9. PICK yy \in Nat, mm \in 1 .. 12, dd \in 1 .. 31 :
             /\ yy = year /\ mm = month /\ dd = day /\ dd =< LastOf(mm, yy)
             /\ DayOf(yy, mm, dd) = today
      <3>1. day \in 1 .. 31 /\ day =< LastOf(month, year)
        BY <2>1, MonthLengths, SMT DEF CalendarInv
      <3>2. QED
        BY <2>1, <3>1, SMT DEF CalendarInv
    <2>10. ~(DateOf(yy, mm, dd) >= DateOf(y, m, d))
      <3>1. SUFFICES ASSUME DateOf(yy, mm, dd) >= DateOf(y, m, d) PROVE FALSE
        OBVIOUS
      <3>2. DayOf(yy, mm, dd) >= DayOf(y, m, d)
        BY <2>5, <2>9, <3>1, DaysInOrder, Zenon
      <3>3. today \in Int
        BY <2>1, ExpiryAssumption, SMT DEF CalendarInv
      <3>4. QED
        BY <2>7, <2>8, <2>9, <3>2, <3>3, SMT
    <2>11. DateOf(yy, mm, dd) \in Nat /\ DateOf(y, m, d) \in Nat /\ Date = DateOf(yy, mm, dd)
      BY <2>5, <2>9, SMT DEF DateOf, Date
    <2>12. QED
      BY <2>4, <2>10, <2>11, SMT
  <1>2. QED
    BY <1>1, CalendarInvHolds, PricedHolds, PTL
=============================================================================
