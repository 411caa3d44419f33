\* One caller, every kind of operation, a manifest that is replaced and
\* time that passes before the gate.
CONSTANTS
  a1 = a1  a1sp = a1sp  t1 = t1  h1 = h1  h2 = h2  c1 = c1  c2 = c2
  Handler = {h1}
  Caller = {c1}
  Peer = {agent}
  AllowedPeer = {agent}
  Agent = agent
  Task = {t1}
  Primitive <- MCPrimitive
  HighRisk <- MCHighRisk
  Hash = {"s1", "s2"}
  Resource = {"workspace", "host"}
  Target = {"file", "url", "constitution"}
  Covers <- MCCovers
  ProtectedTarget = {"constitution"}
  Approval = {a1, a1sp}
  Blank = {}
  Stripped <- MCStripped
  Token <- MCToken
  NoApproval = NoApproval
  NoConnection = NoConnection
  Manifests <- GateManifests
  NoManifest = NoManifest
  InitialStore <- GateStore
  Operations <- GateOperations
  Requests <- MCGateRequests
  HasProvenanceVerifier = TRUE
  HasApprovalVerifier = TRUE
  GrantTTL = 1
  MaxGrantTTL = 2
  MaxApprovalTTL = 4
  ClockSkew = 1
  MaxLedger = 4
  MaxClock = 2
  MaxRequests = 2
  MaxCrashes = 0
SPECIFICATION ChainSpec
INVARIANTS
  FreshJudgement
  EffectIsAuthorized
PROPERTIES
  BrokerUnchanged
