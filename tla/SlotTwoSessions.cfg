SPECIFICATION MCSpec
CONSTANTS
  Parts = {"slot", "stalled", "calls"}
  TwoProcs = {work1, work2}
  Own = {b1}
  Foreign = {f1}
  NoId = NoId
  MaxCalls = 4
  Sessions = {s1, s2}
  Profiles = {p1}
  Incognito = Incognito
  ProfileOf <- MCSameProfile
  Procs = {work1}
  NoLease = NoLease
  StopConcurrency = 1
  LeaseCoversAttempt = TRUE
  Answers = {FALSE}
SYMMETRY MCSymmetry
INVARIANTS
  KnownBrowserHoldsSlot
  LiveProfileNotRetired
  FinalBillKept
  RecordingKept
  NothingLeftRunning
PROPERTIES
  SlotSpec
