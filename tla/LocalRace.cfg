SPECIFICATION MCSpec
CHECK_DEADLOCK FALSE
CONSTANTS
  Parts = {"commands", "transfer", "output", "arguments", "setup"}
  Uploads = {u1}
  Downloads = {d1}
  FileParts = 2
  MaxWrites = 2
  Page = Page
  Streams = {"stdout"}
  Ascii = {"s", "t", "[", "]"}
  Lead = "l"
  Cont = "c"
  Wide = "w"
  Unknown = "?"
  Secret <- MCSecret
  Marker <- MCMarker
  Buffer = 2
  Channel = 1
  CaptureSize = 3
  Alphabet = {"s", "t", "l", "c"}
  MaxOutput = 5
  Tokens = {"upload", "download", "wait", "close", "file", "true", "--headers", "--headers=", "--download", "--download-path", "--cdp=", "--session", "--full"}
  MaxArgs = 4
  old = old
  Setups = {old, new, packaged}
  Versions = {1, 2}
  WantedBy <- MCWantedBy
  Packaged = {packaged}
  MaxLosses = 1
  MaxChanges = 1
  Commands = {c1, c2}
  Ends = {e1}
  SignIns = {s1, s2}
  MaxAge = 2
  Timeout = 1
  Expiry = 4
  MaxClock = 4
  None = None
SYMMETRY LocalSymmetry
INVARIANTS
  SerializedUnlessKilled
  StaleForBoundedTime
  TransferWhole
  CommandFaithful
  SetupSettles
