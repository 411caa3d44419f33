\* A crash between the replacements of an update.
CONSTANTS
  f1 = f1  f2 = f2
  File = {f1, f2}
  FileOrder <- MCOrder
  Content = {"v0", "v1"}
  Cut <- PlainCut
  InitialSnap <- MCSnap
  Baselines <- PlainBaselines
  NoManifest = NoManifest
  NoHash = NoHash
  Approvals <- PlainApprovals
  Unlocks = {}
  Edits <- PlainEdits
  Damages = {}
  MaxClock = 1
  MaxCrashes = 1
  MaxErrors = 0
  MaxFailures = 1
  MaxDamage = 0
SPECIFICATION Spec
INVARIANTS
  UpdateIsAtomic
