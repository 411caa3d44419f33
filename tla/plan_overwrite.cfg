\* A replacement takes the id of a completed task.
CONSTANTS
  DefaultId = DefaultId
  DefaultDeps = DefaultDeps
  AltId <- MCAltId
  Addable <- TwoTasks
  Replacements <- TakenName
  Discipline = {"fails_running", "known_deps", "adds_once", "distinct_ids"}
SPECIFICATION Spec
PROPERTIES
  CompletedStaysCompleted
