SPECIFICATION MCSpec
CHECK_DEADLOCK FALSE
CONSTANTS
  People = {alice, bob}
  Owner = alice
  Sessions = {s1, s2}
  OnProfile = {s1}
  Slots = {q1, q2}
  MaxRequests = 4
  MaxUsage = 1
  Attempts = {a1, a2}
  Codes = {c1}
  MaxAttempts = 1
  None = None
  Parts = {"sharing", "listing", "filter", "database"}
  Names = {"name"}
  Days = {1}
  Filters <- MCFilters
  MaxStages = 2
  MaxListed = 1
  MaxChanges = 2
  Lower = {"a", "b"}
  Upper <- MCUpper
  Star = "*"
  MaxPattern = 3
  MaxText = 3
SYMMETRY SharingSymmetry
INVARIANTS
  AccessAsGranted
  PresentedOnce
  ListedRightly
  FileHasOneOwner
PROPERTIES
  UsageNeverShrinks
  RightsSurvive
