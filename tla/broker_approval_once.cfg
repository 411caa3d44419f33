\* One approval sent again by a client that retries; no crash.
CONSTANTS
  a1 = a1  a2 = a2  blank = blank  t1 = t1  t2 = t2  h1 = h1  h2 = h2
  agent = agent  stranger = stranger
  Handler = {h1, h2}
  Peer = {agent}
  AllowedPeer = {agent}
  Task = {t1}
  Primitive <- MCPrimitive
  HighRisk <- MCHighRisk
  Hash = {"s1", "s2"}
  Resource = {"workspace", "logs"}
  Approval = {a1}
  Blank = {}
  Stripped <- OneStripped
  Token <- OneToken
  NoApproval = NoApproval
  Manifests <- OneManifest
  NoManifest = NoManifest
  InitialStore <- OneTaskStore
  Requests <- OneApprovalRequests
  HasProvenanceVerifier = TRUE
  HasApprovalVerifier = TRUE
  GrantTTL = 1
  MaxGrantTTL = 2
  MaxApprovalTTL = 4
  ClockSkew = 1
  MaxLedger = 2
  MaxClock = 3
  MaxRequests = 3
  MaxCrashes = 0
SPECIFICATION Spec
INVARIANT
  ApprovalUsedOnce
