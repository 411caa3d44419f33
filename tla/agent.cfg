\* Six inspected calls in a turn; two directories, one edit, one token.
CONSTANTS
  search = search  view = view  edit = edit  a = a  wide = wide
  Message <- MCMessage
  ToolName = {search, view, edit}
  ReadOnlyTool = {search, view}
  SearchTool = search
  Args = {a, wide}
  BroadArgs = {wide}
  HistoryWindow = 3
  MaxHistory = 4
  MaxSearches = 3
  Budget <- MCBudget
  MaxInactivity = 2
  MaxInspections = 6
  MaxTurnSteps = 2
  MaxTurnClock = 3
  d1 = d1  d2 = d2  t1 = t1  t2 = t2  k1 = k1
  good = good  sick = sick  broken = broken  other = other
  DirOrder <- MCDirOrder
  Tool = {t1, t2}
  Key = {k1}
  KeyOf <- MCKeyOf
  Content = {good, sick, broken, other}
  NoContent = NoContent
  Unhealthy = {sick}
  Unloadable = {broken}
  Layout <- MCLayout
  Ask <- MCAsk
  MaxDepth = 2
  TokenTTL = 1
  Second = 2
  HasSecret = TRUE
  MaxBridgeClock = 3
  MaxTokens = 1
  MaxEdits = 1
SPECIFICATION AgentSpec
INVARIANTS
  ChangesAreRouted
  LoopIsCut
  ToolsAreTrusted
  RunsAreApproved
PROPERTIES
  SpentStaysSpent
CHECK_DEADLOCK FALSE
