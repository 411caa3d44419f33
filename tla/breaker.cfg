\* Two runners and two tasks, overlapping calls, a fault or a failed load, time for a probe.
CONSTANTS
  r1 = r1  r2 = r2  t1 = t1  t2 = t2
  Runner = {r1, r2}
  Task = {t1, t2}
  NoTask = NoTask
  NoFile = NoFile
  Threshold = 2
  ProbeInterval = 2
  MaxClock = 4
  MaxRuns = 5
  MaxFaults = 1
SPECIFICATION Spec
INVARIANTS
  DenialIsRecent
  DenialIsEarned
  RetriesAreSpaced
SYMMETRY MCSymmetry
CHECK_DEADLOCK FALSE
