--------------------------- MODULE OptionPricing ----------------------------
(***************************************************************************)
(* compute_pricing of an option book (options/mod.rs) on a day of the      *)
(* calendar: the time to maturity of the contract (Expiry) goes into the   *)
(* search for its volatility (ImpliedVol).  The days go by until a         *)
(* contract is priced; the search takes no time.                           *)
(***************************************************************************)
EXTENDS Expiry, ImpliedVol

CONSTANT PricingDays   \* the days on which contracts are priced

ASSUME PricingAssumption == PricingDays \subseteq 0 .. LastDay

VARIABLE contract      \* the expiry date of the contract that is priced: {} or {date}

pricing_vars == <<calendar_vars, vars, contract>>

PricingInit == CalendarInit /\ Init /\ contract = {}

Day == phase = "idle" /\ NextDay /\ UNCHANGED <<vars, contract>>

compute_pricing(date) ==
  /\ today \in PricingDays
  /\ Start(days_to_maturity(date, today) = 0)
  /\ contract' = {date}
  /\ UNCHANGED calendar_vars

Solve == Search /\ UNCHANGED <<calendar_vars, contract>>

PricingNext == Day \/ (\E date \in ExpiryDates : compute_pricing(date)) \/ Solve

PricingSpec == PricingInit /\ [][PricingNext]_pricing_vars

-----------------------------------------------------------------------------
\* Only a contract whose date the calendar has not reached gets a volatility, and so
\* a place with Greeks in a snapshot.
ExpiredUnpriced == result # {} => \A date \in contract : Date < date
=============================================================================
