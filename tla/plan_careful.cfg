\* A caller that keeps every rule, and works on.
CONSTANTS
  DefaultId = DefaultId
  DefaultDeps = DefaultDeps
  AltId <- MCAltId
  Addable <- ThreeTasks
  Replacements <- OwnName
  Discipline = {"fails_running", "fresh_ids", "known_deps", "adds_once", "distinct_ids"}
SPECIFICATION FairSpec
INVARIANTS
  ReadyTasksAreDue
  ReplansBounded
  WaitingHasReason
  SomethingToDo
PROPERTIES
  CompletedStaysCompleted
  WorkIsUsedUp
  PlanSettles
