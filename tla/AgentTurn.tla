----------------------------- MODULE AgentTurn -----------------------------
(***************************************************************************)
(* One turn of the agent: a message is classified (agent/fast_path.py),    *)
(* then the model calls tools, each inspected by the ToolLoopDetector, and *)
(* a RuntimeBudgetTracker counts (both agent/runtime_control.py).          *)
(*                                                                         *)
(* The loop that drives them is not part of the repository.  It is taken   *)
(* to run a tool exactly if the detector lets it, to count what it runs    *)
(* and to be free in everything else: it need not heed the budget.         *)
(***************************************************************************)
EXTENDS FastPath, Integers, FiniteSets, Sequences

CONSTANTS
  Message,        \* messages
  ToolName,       \* tools there are
  ReadOnlyTool,   \* READONLY_TOOL_NAMES
  SearchTool,     \* session_search
  Args,           \* arguments of calls, by their hash
  BroadArgs,      \* those that scan too much
  HistoryWindow,  \* history_window
  MaxHistory,     \* calls remembered, 50 in the code
  MaxSearches,    \* searches in a turn, 3 in the code
  Budget,         \* TIER_BUDGET_DEFAULTS
  MaxInactivity,  \* max_inactivity_seconds
  MaxInspections, \* bound of the model: how many calls are inspected
  MaxTurnSteps,   \* bound of the model: how many iterations are recorded
  MaxTurnClock    \* bound of the model: the last second of the turn

BudgetType == [seconds : Nat \ {0}, calls : Nat, iterations : Nat \ {0}]

ASSUME AgentConstants ==
  /\ Message \subseteq MessageType /\ Message # {}
  /\ ReadOnlyTool \subseteq ToolName
  /\ SearchTool \in ToolName
  /\ BroadArgs \subseteq Args /\ Args # {}
  /\ HistoryWindow \in Nat \ {0, 1} /\ MaxHistory \in Nat
  /\ HistoryWindow <= MaxHistory
  /\ MaxSearches \in Nat
  /\ Budget \in [Tier -> BudgetType]
  /\ MaxInactivity \in Nat \ {0}
  /\ {MaxInspections, MaxTurnSteps, MaxTurnClock} \subseteq Nat

Signature == ToolName \X Args

VARIABLES
  stage,        \* "idle", "classified", "turn"
  message,      \* what was classified, until the turn starts
  tier,
  call_history, blocked_counts, suppressed_tools, hard_tripped,
  tool_call_counts,   \* the detector
  turnClock, start_time, last_activity_time,
  tool_call_count, iteration_count,   \* the tracker
  inspections,  \* counter for the bound
  ran,          \* history: tools that have run
  insisted      \* history: the latest call, and how often in a row it was made

detector == <<call_history, blocked_counts, suppressed_tools, hard_tripped,
              tool_call_counts>>
tracker == <<turnClock, start_time, last_activity_time, tool_call_count,
             iteration_count>>
turnVars == <<stage, message, tier, detector, tracker, inspections, ran,
              insisted>>

\* Types of the variables; the history has its limit.
TurnTypeOK ==
  /\ stage \in {"idle", "classified", "turn"}
  /\ message \in MessageType
  /\ tier \in Tier
  /\ call_history \in Seq(Signature) /\ Len(call_history) <= MaxHistory
  /\ blocked_counts \in [Signature -> Nat]
  /\ suppressed_tools \subseteq ToolName
  /\ hard_tripped \in BOOLEAN
  /\ tool_call_counts \in [ToolName -> Nat]
  /\ {turnClock, start_time, last_activity_time} \subseteq Nat
  /\ {tool_call_count, iteration_count, inspections} \subseteq Nat
  /\ ran \subseteq ToolName
  /\ insisted \in [call : Signature, times : Nat]

AnyMessage == CHOOSE m \in Message : TRUE

TurnInit ==
  /\ stage = "idle"
  /\ message = AnyMessage
  /\ tier = "L2"
  /\ call_history = <<>>
  /\ blocked_counts = [s \in Signature |-> 0]
  /\ suppressed_tools = {}
  /\ hard_tripped = FALSE
  /\ tool_call_counts = [t \in ToolName |-> 0]
  /\ turnClock = 0
  /\ start_time = 0
  /\ last_activity_time = 0
  /\ tool_call_count = 0
  /\ iteration_count = 0
  /\ inspections = 0
  /\ ran = {}
  /\ insisted = [call |-> CHOOSE s \in Signature : TRUE, times |-> 0]
-----------------------------------------------------------------------------
\* A message comes and is classified.
Receive ==
  /\ stage = "idle"
  /\ stage' = "classified"
  /\ message' \in Message
  /\ tier' = Classify(message')
  /\ UNCHANGED <<detector, tracker, inspections, ran, insisted>>

\* The turn gets a detector and a tracker of its own.
StartTurn ==
  /\ stage = "classified"
  /\ stage' = "turn"
  /\ message' = AnyMessage
  /\ UNCHANGED <<tier, detector, tracker, inspections, ran, insisted>>
-----------------------------------------------------------------------------
(***************************************************************************)
(* ToolLoopDetector.inspect_tool_call.                                     *)
(***************************************************************************)

Last(history, n) ==
  SubSeq(history, IF Len(history) > n THEN Len(history) - n + 1 ELSE 1,
         Len(history))

Count(calls, s) == Cardinality({i \in DOMAIN calls : calls[i] = s})

RecentMatches(s) == Count(Last(call_history, HistoryWindow), s)

Suppress(t) ==
  /\ suppressed_tools' = suppressed_tools \cup {t}
  /\ hard_tripped' = TRUE

\* A tool that is suppressed: nothing is even counted.
BlockSuppressed(s) ==
  /\ s[1] \in suppressed_tools
  /\ UNCHANGED detector

Counted(s) ==
  /\ s[1] \notin suppressed_tools
  /\ tool_call_counts' = [tool_call_counts EXCEPT ![s[1]] = @ + 1]

TooManySearches(s) ==
  s[1] = SearchTool /\ tool_call_counts[s[1]] + 1 > MaxSearches

StopSearching(s) ==
  /\ Counted(s)
  /\ TooManySearches(s)
  /\ Suppress(s[1])
  /\ UNCHANGED <<call_history, blocked_counts>>

BlockBroadScan(s) ==
  /\ Counted(s)
  /\ ~TooManySearches(s)
  /\ s[2] \in BroadArgs
  /\ UNCHANGED <<call_history, blocked_counts, suppressed_tools, hard_tripped>>

Repeated(s) == RecentMatches(s) >= 2

\* Mutant: the second block warns once more.
InsistedLate(s) == blocked_counts[s] + 1 >= 3

Insisted(s) == blocked_counts[s] + 1 >= 2

\* The call was made twice lately: it is blocked, and the second time its tool
\* is suppressed.
BlockRepeated(s) ==
  /\ Counted(s)
  /\ ~TooManySearches(s) /\ s[2] \notin BroadArgs
  /\ Repeated(s)
  /\ blocked_counts' = [blocked_counts EXCEPT ![s] = @ + 1]
  /\ \/ Insisted(s) /\ Suppress(s[1])
     \/ ~Insisted(s) /\ UNCHANGED <<suppressed_tools, hard_tripped>>
  /\ UNCHANGED call_history

Remembered(s) == Last(Append(call_history, s), MaxHistory)

Allow(s) ==
  /\ Counted(s)
  /\ ~TooManySearches(s) /\ s[2] \notin BroadArgs
  /\ ~Repeated(s)
  /\ call_history' = Remembered(s)
  /\ UNCHANGED <<blocked_counts, suppressed_tools, hard_tripped>>
-----------------------------------------------------------------------------
(***************************************************************************)
(* RuntimeBudgetTracker.                                                   *)
(***************************************************************************)

Elapsed == turnClock - start_time

Stalled == turnClock - last_activity_time >= MaxInactivity

\* Mutant: activity starts the burst anew.
TouchRestarting ==
  /\ last_activity_time' = turnClock
  /\ start_time' = turnClock

\* touch_activity.
Touch ==
  /\ last_activity_time' = turnClock
  /\ UNCHANGED start_time

Spent ==
  \/ Elapsed >= Budget[tier].seconds
  \/ IF tier = "L0" THEN tool_call_count > 0
                    ELSE tool_call_count >= Budget[tier].calls
  \/ iteration_count >= Budget[tier].iterations

\* get_exhaustion_reason, as far as its callers tell reasons apart.
Exhaustion ==
  IF Stalled THEN "stalled" ELSE IF Spent THEN "spent" ELSE "none"

-----------------------------------------------------------------------------
Offers == Offered(ToolName, ReadOnlyTool, tier)

\* The model calls a tool it was offered.
Inspect(s) ==
  /\ stage = "turn"
  /\ inspections < MaxInspections
  /\ inspections' = inspections + 1
  /\ s[1] \in Offers
  /\ insisted' = [call |-> s, times |-> IF insisted.call = s
                                          THEN insisted.times + 1 ELSE 1]

\* It is blocked and does not run.
CallBlocked(s) ==
  /\ Inspect(s)
  /\ \/ BlockSuppressed(s) \/ StopSearching(s) \/ BlockBroadScan(s)
     \/ BlockRepeated(s)
  /\ UNCHANGED <<stage, message, tier, tracker, ran>>

\* It runs and is counted (record_tool_call).
CallTool(s) ==
  /\ Inspect(s)
  /\ Allow(s)
  /\ tool_call_count' = tool_call_count + 1
  /\ Touch
  /\ ran' = ran \cup {s[1]}
  /\ UNCHANGED <<stage, message, tier, turnClock, iteration_count>>

\* record_iteration.
Iterate ==
  /\ stage = "turn"
  /\ iteration_count < MaxTurnSteps
  /\ iteration_count' = iteration_count + 1
  /\ Touch
  /\ UNCHANGED <<stage, message, tier, detector, turnClock, tool_call_count,
                 inspections, ran, insisted>>

TurnTick ==
  /\ stage = "turn"
  /\ turnClock < MaxTurnClock
  /\ turnClock' = turnClock + 1
  /\ UNCHANGED <<stage, message, tier, detector, start_time,
                 last_activity_time, tool_call_count, iteration_count,
                 inspections, ran, insisted>>

TurnNext ==
  \/ Receive \/ StartTurn \/ Iterate \/ TurnTick
  \/ \E s \in Signature : CallBlocked(s) \/ CallTool(s)

TurnSpec == TurnInit /\ [][TurnNext]_turnVars
-----------------------------------------------------------------------------
ChangesAnything(m) ==
  \E s \in m.segments : s \cap {"write", "delete", "move", "permission"} # {}

\* Wherever in a chain of commands a change hides, a message with one gets a
\* tier whose result is verified, unless it carries the marker of a finished
\* search; a change next to a protected path, in whichever segments the two
\* are, and a system command anywhere get the highest (analyze_full_query,
\* is_critical_escalation, classify).
ChangesAreRouted ==
  stage = "classified" /\ ~message.blank =>
    /\ ChangesAnything(message) /\ "injected" \notin message.marks =>
         Verifies(tier)
    /\ ChangesAnything(message) /\ "core" \in message.marks => tier = "L3"
    /\ (\E s \in message.segments : "critical" \in s) => tier = "L3"

\* No call runs a third time in a row or a third time within the window, and
\* a model that insists on one loses the tool at the fourth try in a row, also
\* when warnings about other calls came between.  A tool is taken away for a
\* cause only: a call that ran twice was tried twice again, or there were too
\* many searches; and the turn is stopped exactly when a tool was taken away
\* (inspect_tool_call).
LoopIsCut ==
  /\ \A i, j, k \in DOMAIN call_history :
       i < j /\ j < k /\ k - i <= HistoryWindow =>
         {call_history[i], call_history[j], call_history[k]}
           # {call_history[i]}
  /\ insisted.times >= 4 /\ insisted.call[2] \notin BroadArgs =>
       insisted.call[1] \in suppressed_tools
  /\ \A t \in suppressed_tools :
       \/ t = SearchTool /\ tool_call_counts[t] > MaxSearches
       \/ \E a \in Args : blocked_counts[<<t, a>>] >= 2 /\ t \in ran
  /\ hard_tripped <=> suppressed_tools # {}

\* Once the budget of calls, iterations or time is spent, no later activity in
\* the turn makes the tracker say that there is some left.
SpentStaysSpent ==
  [][stage = "turn" /\ Exhaustion = "spent" => Exhaustion' # "none"]_turnVars
=============================================================================
