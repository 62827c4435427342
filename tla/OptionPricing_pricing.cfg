SPECIFICATION PricingSpec
CONSTANTS
  LastDay = 47600
  ExpiryDates = {19700101, 20000229, 20260320, 20261217, 20270101, 21000301}
  PricingDays = {20818, 20819}
  MIN_IV = 1
  MAX_IV = 4
  StartVol = 2
  MAX_IV_ITERATIONS = 3
  MaxError = 3
  IV_EPSILON = 1
  Close = 2
CHECK_DEADLOCK FALSE
INVARIANTS DateIsDay GeneratedNeverExpire
INVARIANTS ResultIsBest GreeksDefined ExpiredUnpriced
