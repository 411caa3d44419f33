\* One thread, every kind of request, a manifest replaced under it.
CONSTANTS
  a1 = a1  a2 = a2  blank = blank  t1 = t1  t2 = t2  h1 = h1  h2 = h2
  agent = agent  stranger = stranger
  Handler = {h1}
  Peer = {agent, stranger}
  AllowedPeer = {agent}
  Task = {t1, t2}
  Primitive <- MCPrimitive
  HighRisk <- MCHighRisk
  Hash = {"s1", "s2"}
  Resource = {"workspace", "logs"}
  Approval = {a1, a2, blank}
  Blank = {blank}
  Stripped <- PolicyStripped
  Token <- PolicyToken
  NoApproval = NoApproval
  Manifests <- MCManifests
  NoManifest = NoManifest
  InitialStore <- MCStore
  Requests <- PolicyRequests
  HasProvenanceVerifier = TRUE
  HasApprovalVerifier = TRUE
  GrantTTL = 1
  MaxGrantTTL = 2
  MaxApprovalTTL = 4
  ClockSkew = 1
  MaxLedger = 2
  MaxClock = 3
  MaxRequests = 2
  MaxCrashes = 1
SPECIFICATION FairSpec
INVARIANTS
  GrantFollowsOneManifest
  ApprovalBacksGrant
PROPERTIES
  EveryRequestAnswered
