SPECIFICATION MCSpec
CHECK_DEADLOCK FALSE
CONSTANTS
  Parts = {"cli", "website"}
  alice = alice
  bob = bob
  k1 = k1
  k2 = k2
  Procs = {c1, c2}
  Slts = {k1}
  Accounts = {alice, bob}
  AccountOf <- MCAccountOf
  Legacy = Legacy
  Retired = Retired
  Foreign = Foreign
  None = None
  MaxCredentials = 3
  Tabs = {tab1, tab2}
  Members = {account1, account2}
  Calls = {call1, call2}
  MaxTokens = 4
  MaxGenerations = 2
SYMMETRY MCSymmetry
INVARIANTS
  StoredRefreshUnsent
  SubmittedOnce
  IdentityBound
  TabsAgree
PROPERTIES
  SignOutFinal
  LoginSurvives
