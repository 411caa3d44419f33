\* Edits, tokens, damage, a crash and a failed write at any point.
CONSTANTS
  f1 = f1  f2 = f2
  File = {f1, f2}
  FileOrder <- MCOrder
  Content = {"v0", "v1", "v2", "v3"}
  Cut <- MCCut
  InitialSnap <- MCSnap
  Baselines <- MCBaselines
  NoManifest = NoManifest
  NoHash = NoHash
  Approvals <- MCApprovals
  Unlocks <- MCUnlocks
  Edits <- MCEdits
  Damages <- MCDamages
  MaxClock = 1
  MaxCrashes = 1
  MaxErrors = 1
  MaxFailures = 1
  MaxDamage = 1
SPECIFICATION FairSpec
INVARIANTS
  BaselineIsApproved
  TokenUsedOnce
  LockHasCause
PROPERTIES
  TrustedIsConsistent
  EditIsSettled
