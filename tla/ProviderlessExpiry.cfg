SPECIFICATION MCSpec
CONSTANTS
  Parts = {"slot"}
  TwoProcs = {work1, work2}
  Own = {b1}
  Foreign = {f1}
  NoId = NoId
  MaxCalls = 4
  Sessions = {s1}
  Profiles = {p1}
  Incognito = Incognito
  ProfileOf <- MCSameProfile
  Procs = {work1}
  NoLease = NoLease
  StopConcurrency = 1
  LeaseCoversAttempt = TRUE
  Answers = {FALSE}
INVARIANTS
  ProviderlessExpirySafe
