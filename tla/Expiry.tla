------------------------------- MODULE Expiry -------------------------------
(***************************************************************************)
(* The expiry of option contracts (options/mod.rs): dates are numbers      *)
(* yyyymmdd, date_to_unix_secs turns one into seconds since 1970, and      *)
(* time_to_maturity compares them with the clock.  The clock here is a     *)
(* calendar that counts its days the plain way, one at a time, with the    *)
(* lengths of the months; time is counted in days, which loses nothing:    *)
(* an expiry is the beginning of a day.                                    *)
(*                                                                         *)
(* The test generator (main.rs) lists contracts too.  Its expiries are     *)
(* numbers of days since 1970, which are then read as dates.               *)
(***************************************************************************)
EXTENDS Integers

CONSTANTS
  LastDay,      \* bound on the days the clock counts
  ExpiryDates   \* dates of contracts, as yyyymmdd

ASSUME ExpiryAssumption == LastDay \in Nat /\ ExpiryDates \subseteq Nat

VARIABLES year, month, day,   \* the calendar
          today               \* the clock, in days since 1970

calendar_vars == <<year, month, day, today>>

\* Division as in the code, towards zero.
quot(a, b) == IF a < 0 THEN -((-a) \div b) ELSE a \div b

-----------------------------------------------------------------------------
\* The year and the month counted from March, as the formula takes them.
y_adj(date) == date \div 10000 + 4800 - quot(14 - (date % 10000) \div 100, 12)
m_adj(date) == (date % 10000) \div 100 + 12 * quot(14 - (date % 10000) \div 100, 12) - 3

\* Mutated form: the days that the centuries leave out are those of 1970.
Mut_date_to_unix_days(date) ==
  LET y == y_adj(date)
  IN  (date % 100) + quot(153 * m_adj(date) + 2, 5) + 365 * y + quot(y, 4) - 32096 - 2440588

\* date_to_unix_secs, before the cast to u64, in days: the Julian day number less
\* that of 1970.
date_to_unix_days(date) ==
  LET y   == y_adj(date)
      jdn == (date % 100) + quot(153 * m_adj(date) + 2, 5) + 365 * y
               + quot(y, 4) - quot(y, 100) + quot(y, 400) - 32045
  IN  jdn - 2440588

\* Mutated form: a time before 1970 becomes 1970.
Mut_expiry_day(date) ==
  IF date_to_unix_days(date) < 0 THEN 0 ELSE date_to_unix_days(date)

\* As a u64 a time before 1970 is later than any clock: Forever.
Forever == 2000000000
expiry_day(date) ==
  IF date_to_unix_days(date) < 0 THEN Forever ELSE date_to_unix_days(date)

\* Mutated form: a contract lives through its day of expiry.
Mut_days_to_maturity(date, now) ==
  IF expiry_day(date) < now THEN 0 ELSE expiry_day(date) + 1 - now

\* time_to_maturity: the days left to a contract.
days_to_maturity(date, now) ==
  IF expiry_day(date) =< now THEN 0 ELSE expiry_day(date) - now

\* The expiries of the contracts that the generator lists on a day.
generated(now) == {now + 30, now + 30 + 90}

-----------------------------------------------------------------------------
Leap(y) == y % 4 = 0 /\ (y % 100 # 0 \/ y % 400 = 0)
LastOf(m, y) ==
  CASE m \in {4, 6, 9, 11} -> 30
    [] m = 2               -> IF Leap(y) THEN 29 ELSE 28
    [] OTHER               -> 31

CalendarInit == year = 1970 /\ month = 1 /\ day = 1 /\ today = 0

NextDay ==
  /\ today < LastDay
  /\ today' = today + 1
  /\ \/ /\ day < LastOf(month, year)
        /\ day' = day + 1 /\ UNCHANGED <<month, year>>
     \/ /\ day = LastOf(month, year) /\ month < 12
        /\ day' = 1 /\ month' = month + 1 /\ UNCHANGED year
     \/ /\ day = LastOf(month, year) /\ month = 12
        /\ day' = 1 /\ month' = 1 /\ year' = year + 1

Date == 10000 * year + 100 * month + day

-----------------------------------------------------------------------------
\* A date becomes the day on which the calendar shows it: the formula knows the
\* lengths of all months and years, 2000 and 2100 included.
DateIsDay == date_to_unix_days(Date) = today

\* The contracts of the test generator do not expire, on no day on which they may
\* be listed.
GeneratedNeverExpire ==
  \A date \in generated(today) : expiry_day(date) = Forever
=============================================================================
