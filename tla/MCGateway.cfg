\* Two requests of one caller against two buckets; two requests that share reads.
SPECIFICATION GatewaySpec
CONSTANTS
  Requests = {r1, r2}
  Buckets = {"endpoint", "caller"}
  Uses <- OneCaller
  Capacity <- Narrower
  Minute = 2
  Sizes = {1, 2}
  MaxUnits = 3
  Slots = 1
  MaxTime = 2
  MaxFaults = 1
  Readers = {r1, r2}
  TTL = 2
  LoadTimeout = 1
  TouchPeriod = 2
  Expiry = 3
  LastTick = 3
INVARIANTS UsageIsPaid AnswersAreRecent
PROPERTIES LimitsAreKept GatewayAnswers
CHECK_DEADLOCK FALSE
