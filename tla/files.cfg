\* Two processes on each of the four files, crashes and failing calls.
CONSTANTS
  e1 = e1  e2 = e2  j1 = j1  j2 = j2
  Engine = {e1, e2}
  Job = {j1, j2}
  CronThreshold = 2
  CronInterval = 1
  MaxCronClock = 2
  MaxResults = 3
  MaxCronFaults = 1
  w1 = w1  w2 = w2  n1 = n1  n2 = n2  n3 = n3
  Writer = {w1, w2}
  Name = {n1, n2, n3}
  NoName = NoName
  Text <- MCText
  MaxFiles = 1
  MaxBytes = 3
  MaxFileBytes = 2
  TTL = 1
  MaxChars = 10
  BannerLength = 5
  HintLength = 3
  MaxSpoolClock = 2
  MaxSpoolCalls = 4
  MaxSpoolFaults = 1
  c1 = c1  c2 = c2  k1 = k1  k2 = k2  raw = raw
  Caller = {c1, c2}
  Resource = {k1, k2, raw}
  Stored <- MCStored
  NegativeTTL = 2
  MaxNegClock = 4
  MaxNegCalls = 4
  MaxNegFaults = 1
  p1 = p1  p2 = p2  a = a  b = b  blank = blank  bad = bad
  Patcher = {p1, p2}
  Word = {a, b, blank, bad}
  Blank = {blank}
  Faulty = {bad}
  FirstText <- MCFirstText
  Patch <- MCPatch
  MaxPatches = 2
  MaxPatchFaults = 1
SPECIFICATION FilesSpec
INVARIANTS
  EntriesCoherent
  OutageToldOnce
  SpoolBounded
  AnswerIsFaithful
  BlocksAreEarned
  PatchesAccumulate
PROPERTIES
  FreshFilesStay
CHECK_DEADLOCK FALSE
