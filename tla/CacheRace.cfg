SPECIFICATION MCFairSpec
CHECK_DEADLOCK FALSE
CONSTANTS
  Parts = {"cache", "calls", "limits"}
  t1 = t1
  t2 = t2
  even = even
  odd = odd
  ada = ada
  bob = bob
  cyd = cyd
  h1 = h1
  h2 = h2
  Bearers = {"bearer", "stranger", "garbled"}
  Exchanges = {"exchange", "spoilt"}
  Shares = {"share"}
  Accounts = {ada, bob, cyd}
  Handles = {h1, h2}
  Owner = ada
  Asked <- MCAsked
  Credentials = {"ours", "new", "other", "junk"}
  Malformed = {"junk"}
  AccountOf <- MCAccountOf
  AppOf <- MCAppOf
  KindOf <- MCKindOf
  TokenOf <- MCTokenOf
  MaxListed = 3
  MaxMoves = 2
  MaxCalls = 1
  Tokens = {t1, t2}
  Requests = {r1, r2}
  Handlers = {w1}
  Stripes = {even, odd}
  StripeOf <- MCStripeOf
  MaxEntries = 1
  MaxChanges = 1
  MaxGeneration = 2
  None = None
  Callers = {x1, x2, x3}
  SuccessTtl = 3
  FailureTtl = 1
  CheckTimeout = 2
  MaxAsks = 2
INVARIANTS
  UsableIsCurrent
  AccountsBelieved
  ToldRecent
PROPERTIES
  WaitersProceed
