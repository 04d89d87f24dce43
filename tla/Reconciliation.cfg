SPECIFICATION MCFairSpec
CHECK_DEADLOCK FALSE
CONSTANTS
  Parts = {"recording", "profile", "search"}
  Profiles = {p1, p2}
  Loops = {work}
  Ours = {r1, r2}
  Others = {x1, x2, x3}
  PageSize = 2
  MaxPages = 2
  MaxChanges = 2
  None = None
  Enders = {end1, end2}
  Creators = {create1}
  Procs = {work1, work2}
  MaxAttempts = 2
  AttemptCap = 3
  LeaseCoversLookup = FALSE
INVARIANTS
  PendingIsTraceable
  OneLookupPerAttempt
  ActiveHasRemote
  AbsentWasAbsent
PROPERTIES
  OutcomeFinal
  EventuallyDecided
  ExistingIsAdopted
