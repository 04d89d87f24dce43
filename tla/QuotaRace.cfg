SPECIFICATION MCFairSpec
CHECK_DEADLOCK FALSE
CONSTANTS
  Parts = {"quota", "fetch", "costs"}
  None = None
  Overflow = Overflow
  Urls = {"u1", "u2"}
  Pages <- MCPages
  ErrorSize = 1
  BatchSize = 2
  Budget = 11
  MaxAgain = 1
  MaxUrls = 5
  Digits = {0, 4, 5}
  MaxDigits = 1
  MaxExponent = 2
  DecimalPlaces = 1
  Limit = 48
  LimitDigits = 2
  Counts = {0, 1}
  MaxRows = 2
  alpha = alpha
  beta = beta
  a1 = a1
  a2 = a2
  b1 = b1
  Requests = {a1, a2, b1}
  Actors = {alpha, beta}
  ActorOf <- MCActorOf
  UnitsOf <- MCUnitsOf
  ProviderCount = 1
  MaxUnits = 2
  QueueCapacity = 3
  MaxRetries <- MCMaxRetries
INVARIANTS
  WindowLimit
  PermitsCharged
  RoundRobin
  BillsAddUp
PROPERTIES
  EventuallyServed
