SPECIFICATION Spec
CHECK_DEADLOCK FALSE
CONSTANTS
  Tabs = {t1, t2}
  Accounts = {a1, a2}
  Calls = {c1, c2}
  MaxTokens = 3
  MaxGenerations = 3
  None = None
PROPERTIES
  SwitchKeepsFamilies
