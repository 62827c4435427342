SPECIFICATION GeneratorSpec
CONSTANTS
  aapl = aapl
  AAPL = aapl
  Stocks = {aapl}
  Refs <- TheRefs
  Prices <- ThePrices
  Shares <- TheShares
  SeqSpace = 1000
  MaxVolume = 1000000
  MaxCount = 1000
  MaxTicks = 20
  MaxBacklog = 14
  WordSize = 2097152
INVARIANTS FreshRefs PricesNearBase
