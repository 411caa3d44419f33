-------------------------- MODULE AgentTurnProofs --------------------------
(***************************************************************************)
(* For any messages, tools, windows, limits and budgets: the turn keeps    *)
(* its types, a budget that is spent stays spent, and loops of calls are   *)
(* cut.                                                                    *)
(***************************************************************************)
EXTENDS AgentTurn, FiniteSetTheorems, TLAPS

LEMMA SomeSignature == Signature # {}
<1>1. PICK a : a \in Args
  BY AgentConstants
<1>2. <<SearchTool, a>> \in Signature
  BY <1>1, AgentConstants DEF Signature
<1>3. QED
  BY <1>2

LEMMA ClassifyTier == ASSUME NEW m PROVE Classify(m) \in Tier
BY DEF Classify, Tier

\* How many entries of a sequence are among its last n.
Kept(q, n) == IF Len(q) > n THEN n ELSE Len(q)

\* The last n entries of a sequence, entry by entry.
LEMMA LastEntries ==
  ASSUME NEW q \in Seq(Signature), NEW n \in Nat
  PROVE  /\ Last(q, n) \in Seq(Signature)
         /\ Len(Last(q, n)) = Kept(q, n)
         /\ \A i \in 1 .. Kept(q, n) :
              Last(q, n)[i] = q[i + (Len(q) - Kept(q, n))]
<1> DEFINE first == IF Len(q) > n THEN Len(q) - n + 1 ELSE 1
<1>1. Last(q, n) = SubSeq(q, first, Len(q))
  BY DEF Last
<1>2. /\ first \in Nat /\ first >= 1 /\ Len(q) \in Nat
      /\ Kept(q, n) \in Nat /\ Kept(q, n) = Len(q) - first + 1
  BY DEF Kept
<1>3. \A i \in first .. Len(q) : q[i] \in Signature
  BY <1>2
<1> HIDE DEF first
<1>4. Last(q, n) =
        [i \in 1 .. Kept(q, n) |-> q[i + (Len(q) - Kept(q, n))]]
  <2>1. Last(q, n) = [i \in 1 .. (Len(q) - first + 1) |-> q[first + i - 1]]
    BY <1>1, <1>2
  <2>2. \A i \in 1 .. Kept(q, n) : first + i - 1 = i + (Len(q) - Kept(q, n))
    BY <1>2
  <2>3. QED
    BY <1>2, <2>1, <2>2
<1>5. \A i \in 1 .. Kept(q, n) : q[i + (Len(q) - Kept(q, n))] \in Signature
  BY <1>2, <1>3
<1>6. Last(q, n) \in Seq(Signature)
  BY <1>2, <1>4, <1>5
<1>7. Len(Last(q, n)) = Kept(q, n)
  BY <1>2, <1>4
<1>8. \A i \in 1 .. Kept(q, n) :
        Last(q, n)[i] = q[i + (Len(q) - Kept(q, n))]
  BY <1>4
<1>9. QED
  BY <1>6, <1>7, <1>8

\* A call is counted twice exactly if it is in two places; once, if in one.
LEMMA CountedTwice ==
  ASSUME NEW q \in Seq(Signature), NEW s,
         NEW i \in DOMAIN q, NEW j \in DOMAIN q, i # j, q[i] = s, q[j] = s
  PROVE  Count(q, s) >= 2
<1> DEFINE places == {k \in DOMAIN q : q[k] = s}
<1>1. IsFiniteSet(DOMAIN q)
  BY FS_Interval
<1>2. IsFiniteSet(places) /\ Cardinality(places) \in Nat
  BY <1>1, FS_Subset, FS_CardinalityType
<1>3. {i, j} \in SUBSET places
  OBVIOUS
<1> DEFINE one == {i}
           two == {i} \cup {j}
<1>4. IsFiniteSet(one) /\ Cardinality(one) = 1 /\ j \notin one
  BY FS_Singleton
<1>5. Cardinality(two) = Cardinality(one) + 1
  BY <1>4, FS_AddElement, Zenon
<1>6. Cardinality(two) <= Cardinality(places)
  <2>1. two \in SUBSET places
    BY <1>3
  <2>2. QED
    BY <1>2, <2>1, FS_Subset, Zenon
<1>7. Count(q, s) = Cardinality(places)
  BY DEF Count
<1> HIDE DEF one, two, places
<1>8. QED
  BY <1>2, <1>4, <1>5, <1>6, <1>7

LEMMA CountedOnce ==
  ASSUME NEW q \in Seq(Signature), NEW s, Count(q, s) >= 2
  PROVE  \E i \in DOMAIN q : q[i] = s
<1>1. SUFFICES ASSUME ~\E i \in DOMAIN q : q[i] = s PROVE FALSE
  OBVIOUS
<1>2. {i \in DOMAIN q : q[i] = s} = {}
  BY <1>1
<1>3. Count(q, s) = 0
  BY <1>2, FS_EmptySet, Zenon DEF Count
<1>4. QED
  BY <1>3
-----------------------------------------------------------------------------
\* How many calls are dropped when a call is remembered.
Dropped(s) == Len(call_history) + 1 - Len(Remembered(s))

\* What is remembered is a sequence of calls within its limit: the history and
\* the new call, without what is dropped at the beginning.
LEMMA RememberedEntries ==
  ASSUME TurnTypeOK, NEW s \in Signature
  PROVE  /\ Remembered(s) \in Seq(Signature)
         /\ Len(Remembered(s)) \in 1 .. MaxHistory
         /\ Dropped(s) \in Nat
         /\ Len(Remembered(s)) >= 2 \/ Dropped(s) = 0
         /\ \A i \in 1 .. Len(Remembered(s)) :
              Remembered(s)[i] = IF i + Dropped(s) = Len(call_history) + 1
                                   THEN s ELSE call_history[i + Dropped(s)]
<1> DEFINE q == Append(call_history, s)
<1>1. /\ call_history \in Seq(Signature) /\ Len(call_history) \in Nat
      /\ MaxHistory \in Nat /\ MaxHistory >= 2
  BY AgentConstants DEF TurnTypeOK
<1>2. /\ q \in Seq(Signature) /\ Len(q) = Len(call_history) + 1
      /\ \A i \in 1 .. Len(q) :
           q[i] = IF i = Len(call_history) + 1 THEN s ELSE call_history[i]
  BY <1>1
<1>3. Remembered(s) = Last(q, MaxHistory)
  BY DEF Remembered
<1> HIDE DEF q
<1>4. /\ Remembered(s) \in Seq(Signature)
      /\ Len(Remembered(s)) = Kept(q, MaxHistory)
      /\ \A i \in 1 .. Kept(q, MaxHistory) :
           Remembered(s)[i] = q[i + (Len(q) - Kept(q, MaxHistory))]
  <2>1. /\ Last(q, MaxHistory) \in Seq(Signature)
        /\ Len(Last(q, MaxHistory)) = Kept(q, MaxHistory)
        /\ \A i \in 1 .. Kept(q, MaxHistory) :
             Last(q, MaxHistory)[i] = q[i + (Len(q) - Kept(q, MaxHistory))]
    BY <1>1, <1>2, LastEntries
  <2>2. QED
    BY <1>3, <2>1, Zenon
<1>5. /\ Kept(q, MaxHistory) \in 1 .. MaxHistory
      /\ Kept(q, MaxHistory) <= Len(q)
      /\ Kept(q, MaxHistory) >= 2 \/ Kept(q, MaxHistory) = Len(q)
  BY <1>1, <1>2 DEF Kept
<1>6. Dropped(s) = Len(q) - Kept(q, MaxHistory)
  BY <1>2, <1>4 DEF Dropped
<1>7. ASSUME NEW i \in 1 .. Kept(q, MaxHistory)
      PROVE  i + Dropped(s) \in 1 .. Len(q)
  BY <1>1, <1>2, <1>5, <1>6
<1>8. \A i \in 1 .. Len(Remembered(s)) :
        Remembered(s)[i] = IF i + Dropped(s) = Len(call_history) + 1
                             THEN s ELSE call_history[i + Dropped(s)]
  BY <1>2, <1>4, <1>6, <1>7
<1>9. Dropped(s) \in Nat
  BY <1>1, <1>2, <1>5, <1>6
<1>10. Len(Remembered(s)) >= 2 \/ Dropped(s) = 0
  BY <1>1, <1>2, <1>4, <1>5, <1>6
<1>11. QED
  BY <1>4, <1>5, <1>8, <1>9, <1>10

\* The steps of the detector keep its types.
LEMMA DetectorKeepsTypes ==
  ASSUME TurnTypeOK, NEW s \in Signature,
         \/ BlockSuppressed(s) \/ StopSearching(s) \/ BlockBroadScan(s)
         \/ BlockRepeated(s) \/ Allow(s)
  PROVE  /\ call_history' \in Seq(Signature)
         /\ Len(call_history') <= MaxHistory
         /\ blocked_counts' \in [Signature -> Nat]
         /\ suppressed_tools' \subseteq ToolName
         /\ hard_tripped' \in BOOLEAN
         /\ tool_call_counts' \in [ToolName -> Nat]
<1> USE DEF TurnTypeOK
<1>1. s[1] \in ToolName
  BY DEF Signature
<1>2. CASE BlockSuppressed(s)
  BY <1>2 DEF BlockSuppressed, detector
<1>3. CASE StopSearching(s)
  BY <1>1, <1>3 DEF StopSearching, Counted, Suppress
<1>4. CASE BlockBroadScan(s)
  <2>1. /\ tool_call_counts' = [tool_call_counts EXCEPT ![s[1]] = @ + 1]
        /\ UNCHANGED <<call_history, blocked_counts, suppressed_tools,
                       hard_tripped>>
    BY <1>4, Zenon DEF BlockBroadScan, Counted
  <2>2. tool_call_counts' \in [ToolName -> Nat]
    BY <1>1, <2>1
  <2>3. QED
    BY <2>1, <2>2
<1>5. CASE BlockRepeated(s)
  <2>1. /\ tool_call_counts' = [tool_call_counts EXCEPT ![s[1]] = @ + 1]
        /\ blocked_counts' = [blocked_counts EXCEPT ![s] = @ + 1]
        /\ UNCHANGED call_history
    BY <1>5 DEF BlockRepeated, Counted
  <2>2. /\ suppressed_tools' \subseteq ToolName
        /\ hard_tripped' \in BOOLEAN
    BY <1>1, <1>5 DEF BlockRepeated, Suppress
  <2>3. tool_call_counts' \in [ToolName -> Nat]
    BY <1>1, <2>1
  <2>4. blocked_counts' \in [Signature -> Nat]
    BY <2>1
  <2>5. QED
    BY <2>1, <2>2, <2>3, <2>4
<1>6. CASE Allow(s)
  <2>1. /\ Remembered(s) \in Seq(Signature)
        /\ Len(Remembered(s)) <= MaxHistory
    <3>1. TurnTypeOK /\ s \in Signature
      OBVIOUS
    <3> HIDE DEF TurnTypeOK
    <3>2. /\ Remembered(s) \in Seq(Signature)
          /\ Len(Remembered(s)) \in 1 .. MaxHistory
      BY <3>1, RememberedEntries, Zenon
    <3>3. QED
      BY <3>2, AgentConstants
  <2>2. /\ call_history' = Remembered(s)
        /\ tool_call_counts' = [tool_call_counts EXCEPT ![s[1]] = @ + 1]
        /\ UNCHANGED <<blocked_counts, suppressed_tools, hard_tripped>>
    BY <1>6, Zenon DEF Allow, Counted
  <2>3. tool_call_counts' \in [ToolName -> Nat]
    BY <1>1, <2>2
  <2>4. QED
    BY <2>1, <2>2, <2>3
<1>7. QED
  BY <1>2, <1>3, <1>4, <1>5, <1>6

LEMMA TurnTypeStep == TurnTypeOK /\ [TurnNext]_turnVars => TurnTypeOK'
<1> SUFFICES ASSUME TurnTypeOK, [TurnNext]_turnVars PROVE TurnTypeOK'
  OBVIOUS
<1>1. CASE Receive
  <2>1. message' \in MessageType /\ tier' \in Tier
    BY <1>1, ClassifyTier, AgentConstants DEF Receive
  <2>2. QED
    BY <1>1, <2>1 DEF Receive, detector, tracker, TurnTypeOK
<1>2. CASE StartTurn
  <2>1. AnyMessage \in MessageType
    BY AgentConstants DEF AnyMessage
  <2>2. QED
    BY <1>2, <2>1 DEF StartTurn, detector, tracker, TurnTypeOK
<1>3. CASE Iterate
  BY <1>3 DEF Iterate, Touch, detector, TurnTypeOK
<1>4. CASE TurnTick
  BY <1>4 DEF TurnTick, detector, TurnTypeOK
<1>5. ASSUME NEW s \in Signature, CallBlocked(s) \/ CallTool(s)
      PROVE  TurnTypeOK'
  <2>1. /\ call_history' \in Seq(Signature)
        /\ Len(call_history') <= MaxHistory
        /\ blocked_counts' \in [Signature -> Nat]
        /\ suppressed_tools' \subseteq ToolName
        /\ hard_tripped' \in BOOLEAN
        /\ tool_call_counts' \in [ToolName -> Nat]
    BY <1>5, DetectorKeepsTypes DEF CallBlocked, CallTool
  <2>2. insisted' \in [call : Signature, times : Nat]
    BY <1>5 DEF CallBlocked, CallTool, Inspect, TurnTypeOK
  <2>3. /\ inspections' \in Nat
        /\ UNCHANGED <<stage, message, tier>>
    BY <1>5 DEF CallBlocked, CallTool, Inspect, TurnTypeOK
  <2>4. ran' \subseteq ToolName
    BY <1>5 DEF CallBlocked, CallTool, TurnTypeOK, Signature
  <2>5. /\ {turnClock', start_time', last_activity_time'} \subseteq Nat
        /\ {tool_call_count', iteration_count'} \subseteq Nat
    BY <1>5 DEF CallBlocked, CallTool, Touch, tracker, TurnTypeOK
  <2>6. QED
    BY <2>1, <2>2, <2>3, <2>4, <2>5 DEF TurnTypeOK
<1>6. CASE UNCHANGED turnVars
  BY <1>6 DEF turnVars, detector, tracker, TurnTypeOK
<1>7. QED
  BY <1>1, <1>2, <1>3, <1>4, <1>5, <1>6 DEF TurnNext

\* The turn keeps its types (every call of detector and tracker).
THEOREM TurnTypeCorrect == TurnSpec => []TurnTypeOK
<1>1. TurnInit => TurnTypeOK
  <2> SUFFICES ASSUME TurnInit PROVE TurnTypeOK
    OBVIOUS
  <2>1. AnyMessage \in MessageType
    BY AgentConstants DEF AnyMessage
  <2>2. (CHOOSE s \in Signature : TRUE) \in Signature
    BY SomeSignature
  <2>3. call_history \in Seq(Signature) /\ Len(call_history) <= MaxHistory
    BY AgentConstants DEF TurnInit
  <2>4. QED
    <3>1. insisted \in [call : Signature, times : Nat]
      BY <2>2 DEF TurnInit
    <3>2. /\ blocked_counts \in [Signature -> Nat]
          /\ tool_call_counts \in [ToolName -> Nat]
      BY DEF TurnInit
    <3>3. QED
      BY <2>1, <2>3, <3>1, <3>2 DEF TurnInit, TurnTypeOK, Tier
<1>2. QED
  BY <1>1, TurnTypeStep, PTL DEF TurnSpec
-----------------------------------------------------------------------------
\* In a turn nothing that is spent comes back.
LEMMA CountersGrow ==
  ASSUME TurnTypeOK, stage = "turn", [TurnNext]_turnVars
  PROVE  /\ tier' = tier /\ start_time' = start_time
         /\ turnClock' >= turnClock
         /\ tool_call_count' >= tool_call_count
         /\ iteration_count' >= iteration_count
<1> USE DEF TurnTypeOK
<1>1. CASE Iterate \/ TurnTick
  BY <1>1 DEF Iterate, TurnTick, Touch
<1>2. ASSUME NEW s \in Signature, CallBlocked(s) \/ CallTool(s)
      PROVE  /\ tier' = tier /\ start_time' = start_time
             /\ turnClock' >= turnClock
             /\ tool_call_count' >= tool_call_count
             /\ iteration_count' >= iteration_count
  BY <1>2 DEF CallBlocked, CallTool, Touch, tracker
<1>3. CASE UNCHANGED turnVars
  BY <1>3 DEF turnVars, tracker
<1>4. QED
  BY <1>1, <1>2, <1>3 DEF TurnNext, Receive, StartTurn

\* Whatever the budget is, no activity in the turn gives any of it back
\* (RuntimeBudgetTracker.get_exhaustion_reason and all that records).
THEOREM SpentBudgetStaysSpent == TurnSpec => SpentStaysSpent
<1>1. TurnTypeOK /\ [TurnNext]_turnVars =>
        (stage = "turn" /\ Exhaustion = "spent" => Exhaustion' # "none")
  <2> SUFFICES ASSUME TurnTypeOK, [TurnNext]_turnVars, stage = "turn",
                      Exhaustion = "spent"
               PROVE  Exhaustion' # "none"
    OBVIOUS
  <2>1. Spent
    BY DEF Exhaustion
  <2>2. /\ tier' = tier /\ start_time' = start_time
        /\ turnClock' >= turnClock
        /\ tool_call_count' >= tool_call_count
        /\ iteration_count' >= iteration_count
    BY CountersGrow
  <2>3. TurnTypeOK'
    BY TurnTypeStep
  <2>4. Budget[tier] \in BudgetType
    BY AgentConstants DEF TurnTypeOK
  <2>5. Spent'
    <3>1. CASE Elapsed >= Budget[tier].seconds
      <4>1. /\ turnClock \in Nat /\ turnClock' \in Nat
            /\ start_time \in Nat
        BY <2>3 DEF TurnTypeOK
      <4>2. turnClock - start_time >= Budget[tier].seconds
        BY <3>1 DEF Elapsed
      <4>3. turnClock' - start_time' >= Budget[tier].seconds
        BY <2>2, <2>4, <4>1, <4>2 DEF BudgetType
      <4>4. QED
        BY <2>2, <4>3 DEF Spent, Elapsed
    <3>2. CASE IF tier = "L0" THEN tool_call_count > 0
                              ELSE tool_call_count >= Budget[tier].calls
      <4>1. tool_call_count \in Nat /\ tool_call_count' \in Nat
        BY <2>3 DEF TurnTypeOK
      <4>2. IF tier = "L0" THEN tool_call_count' > 0
                           ELSE tool_call_count' >= Budget[tier].calls
        BY <2>2, <2>4, <3>2, <4>1 DEF BudgetType
      <4>3. QED
        BY <2>2, <4>2 DEF Spent
    <3>3. CASE iteration_count >= Budget[tier].iterations
      <4>1. iteration_count \in Nat /\ iteration_count' \in Nat
        BY <2>3 DEF TurnTypeOK
      <4>2. iteration_count' >= Budget[tier].iterations
        BY <2>2, <2>4, <3>3, <4>1 DEF BudgetType
      <4>3. QED
        BY <2>2, <4>2 DEF Spent
    <3>4. QED
      BY <2>1, <3>1, <3>2, <3>3 DEF Spent
  <2>6. QED
    BY <2>5 DEF Exhaustion
<1>2. QED
  BY <1>1, TurnTypeCorrect, PTL DEF TurnSpec, SpentStaysSpent
-----------------------------------------------------------------------------
\* No three equal calls within a window of the history.
NoThird(q) ==
  \A i, j, k \in DOMAIN q :
    i < j /\ j < k /\ k - i <= HistoryWindow => {q[i], q[j], q[k]} # {q[i]}

\* The last n calls of the history are s.
EndsWith(q, s, n) ==
  n <= Len(q) /\ \A i \in DOMAIN q : i > Len(q) - n => q[i] = s

\* The latest call has not been made more often in a row than it was allowed
\* at the end of the history, twice at most, and warned about, unless its tool
\* is suppressed or it scans too much.
Patience ==
  \/ insisted.call[2] \in BroadArgs
  \/ insisted.call[1] \in suppressed_tools
  \/ \E n \in 0 .. 2 :
       /\ EndsWith(call_history, insisted.call, n)
       /\ insisted.times <= n + blocked_counts[insisted.call]

\* A tool is suppressed for a cause.
Earned ==
  \A t \in suppressed_tools :
    \/ t = SearchTool /\ tool_call_counts[t] > MaxSearches
    \/ \E a \in Args : blocked_counts[<<t, a>>] >= 2 /\ t \in ran

\* LoopIsCut with what an induction needs: what the history holds has run, a
\* second warning suppresses, and the detector's patience is counted.
LoopInv ==
  /\ NoThird(call_history)
  /\ \A i \in DOMAIN call_history : call_history[i][1] \in ran
  /\ \A s \in Signature : blocked_counts[s] >= 2 => s[1] \in suppressed_tools
  /\ Patience
  /\ Earned
  /\ hard_tripped <=> suppressed_tools # {}

LEMMA LoopInvCuts == TurnTypeOK /\ LoopInv => LoopIsCut
<1> SUFFICES ASSUME TurnTypeOK, LoopInv PROVE LoopIsCut
  OBVIOUS
<1>1. ASSUME insisted.times >= 4, insisted.call[2] \notin BroadArgs
      PROVE  insisted.call[1] \in suppressed_tools
  <2> SUFFICES ASSUME insisted.call[1] \notin suppressed_tools PROVE FALSE
    OBVIOUS
  <2>1. insisted.call \in Signature /\ insisted.times \in Nat
    BY DEF TurnTypeOK
  <2>2. /\ blocked_counts[insisted.call] \in Nat
        /\ ~(blocked_counts[insisted.call] >= 2)
    BY <2>1 DEF TurnTypeOK, LoopInv
  <2>3. PICK n \in 0 .. 2 :
          insisted.times <= n + blocked_counts[insisted.call]
    BY <1>1 DEF LoopInv, Patience
  <2>4. QED
    BY <1>1, <2>1, <2>2, <2>3
<1>2. QED
  BY <1>1, Zenon DEF LoopInv, LoopIsCut, NoThird, Earned

\* A call found in two places of the window is repeated.
LEMMA RepeatedInWindow ==
  ASSUME TurnTypeOK, NEW s, NEW i \in DOMAIN call_history,
         NEW j \in DOMAIN call_history, i < j,
         i > Len(call_history) - HistoryWindow,
         call_history[i] = s, call_history[j] = s
  PROVE  Repeated(s)
<1> DEFINE H == call_history
           kept == Kept(H, HistoryWindow)
           off == Len(H) - kept
           window == Last(H, HistoryWindow)
<1>1. /\ H \in Seq(Signature) /\ Len(H) \in Nat /\ HistoryWindow \in Nat
      /\ i \in 1 .. Len(H) /\ j \in 1 .. Len(H)
  <2>1. H \in Seq(Signature) /\ HistoryWindow \in Nat
    BY AgentConstants DEF TurnTypeOK
  <2>2. QED
    BY <2>1
<1>2. /\ window \in Seq(Signature) /\ Len(window) = kept
      /\ \A x \in 1 .. kept : window[x] = H[x + off]
  BY <1>1, LastEntries
<1>3. i - off \in 1 .. kept /\ j - off \in 1 .. kept
  BY <1>1 DEF Kept
<1>4. DOMAIN window = 1 .. kept
  BY <1>2
<1>5. (i - off) + off = i /\ (j - off) + off = j /\ i - off # j - off
  BY <1>1 DEF Kept
<1>6. window[i - off] = s /\ window[j - off] = s
  BY <1>2, <1>3, <1>5
<1> HIDE DEF window, off, kept
<1>7. Count(window, s) >= 2
  BY <1>2, <1>3, <1>4, <1>5, <1>6, CountedTwice
<1>8. QED
  BY <1>7 DEF Repeated, RecentMatches, window

\* A repeated call is one of the history.
LEMMA RepeatedHasRun ==
  ASSUME TurnTypeOK, NEW s, Repeated(s)
  PROVE  \E i \in DOMAIN call_history : call_history[i] = s
<1> DEFINE H == call_history
           kept == Kept(H, HistoryWindow)
           window == Last(H, HistoryWindow)
<1>1. H \in Seq(Signature) /\ Len(H) \in Nat /\ HistoryWindow \in Nat
  BY AgentConstants DEF TurnTypeOK
<1>2. /\ window \in Seq(Signature) /\ Len(window) = kept
      /\ \A x \in 1 .. kept : window[x] = H[x + (Len(H) - kept)]
  BY <1>1, LastEntries
<1>3. kept \in 0 .. Len(H)
  BY <1>1 DEF Kept
<1>4. DOMAIN window = 1 .. kept
  BY <1>2
<1> HIDE DEF window, kept
<1>5. Count(window, s) >= 2
  BY DEF Repeated, RecentMatches, window
<1>6. PICK x \in 1 .. kept : window[x] = s
  BY <1>2, <1>4, <1>5, CountedOnce
<1>7. x + (Len(H) - kept) \in DOMAIN H
  BY <1>1, <1>3
<1>8. QED
  BY <1>2, <1>6, <1>7
-----------------------------------------------------------------------------
\* A call that is let through keeps the history free of thirds: it was not
\* found twice in the window.
LEMMA AllowKeepsNoThird ==
  ASSUME TurnTypeOK, NEW s \in Signature, NoThird(call_history),
         ~Repeated(s)
  PROVE  NoThird(Remembered(s))
<1> DEFINE H == call_history
           R == Remembered(s)
           d == Dropped(s)
<1>1. H \in Seq(Signature) /\ HistoryWindow \in Nat
  BY AgentConstants DEF TurnTypeOK
<1>2. /\ R \in Seq(Signature) /\ d \in Nat
      /\ \A i \in 1 .. Len(R) :
           R[i] = IF i + d = Len(H) + 1 THEN s ELSE H[i + d]
  BY RememberedEntries
<1>3. /\ d = Len(H) + 1 - Len(R)
      /\ d \in Nat /\ Len(R) \in Nat /\ Len(H) \in Nat
      /\ HistoryWindow \in Nat
  BY <1>1, <1>2 DEF Dropped
<1>4. SUFFICES ASSUME NEW i \in DOMAIN R, NEW j \in DOMAIN R,
                      NEW k \in DOMAIN R,
                      i < j, j < k, k - i <= HistoryWindow,
                      {R[i], R[j], R[k]} = {R[i]}
               PROVE  FALSE
  BY DEF NoThird
<1>5. R[j] = R[i] /\ R[k] = R[i]
  BY <1>4
<1>6. /\ i \in 1 .. Len(R) /\ j \in 1 .. Len(R) /\ k \in 1 .. Len(R)
      /\ i \in Nat /\ j \in Nat /\ k \in Nat /\ i >= 1 /\ k <= Len(R)
      /\ i < j /\ j < k /\ k - i <= HistoryWindow
  BY <1>2, <1>4
<1> HIDE DEF R, d, H
<1>7. i + d \in 1 .. Len(H) /\ j + d \in 1 .. Len(H)
  <2>1. /\ i + d \in Nat /\ j + d \in Nat /\ i + d >= 1 /\ j + d >= 1
        /\ i + d <= Len(H) /\ j + d <= Len(H)
    BY <1>3, <1>6
  <2>2. QED
    BY <1>3, <2>1
<1>8. R[i] = H[i + d] /\ R[j] = H[j + d]
  <2>1. i + d # Len(H) + 1 /\ j + d # Len(H) + 1
    BY <1>3, <1>7
  <2>2. QED
    BY <1>2, <1>6, <2>1
<1>9. CASE k + d = Len(H) + 1
  <2>1. R[k] = s
    BY <1>2, <1>6, <1>9
  <2>2. i + d > Len(H) - HistoryWindow /\ i + d < j + d
    <3>1. i + HistoryWindow >= k /\ i < j
      BY <1>3, <1>6
    <3>2. i \in Nat /\ j \in Nat /\ k \in Nat
      BY <1>6
    <3>3. QED
      BY <1>3, <1>9, <3>1, <3>2
  <2>3. H[i + d] = s /\ H[j + d] = s
    BY <1>5, <1>8, <2>1
  <2>4. i + d \in DOMAIN H /\ j + d \in DOMAIN H
    BY <1>1, <1>7
  <2>5. Repeated(s)
    BY <2>2, <2>3, <2>4, RepeatedInWindow DEF H
  <2>6. QED
    BY <2>5
<1>10. CASE k + d # Len(H) + 1
  <2>1. k + d \in 1 .. Len(H) /\ R[k] = H[k + d]
    <3>1. k + d \in 1 .. Len(H)
      <4>1. k + d \in Nat /\ k + d >= 1 /\ k + d <= Len(H) + 1
        BY <1>3, <1>6
      <4>2. QED
        BY <1>3, <1>10, <4>1
    <3>2. QED
      BY <1>2, <1>6, <1>10, <3>1
  <2>2. /\ i + d < j + d /\ j + d < k + d
        /\ (k + d) - (i + d) <= HistoryWindow
    BY <1>3, <1>6
  <2>3. {H[i + d], H[j + d], H[k + d]} # {H[i + d]}
    <3>1. DOMAIN H = 1 .. Len(H) /\ NoThird(H)
      BY <1>1 DEF H
    <3>2. QED
      BY <1>7, <2>1, <2>2, <3>1 DEF NoThird
  <2>4. QED
    BY <1>5, <1>8, <2>1, <2>3
<1>11. QED
  BY <1>9, <1>10

\* If the history ended with n of that call, fewer than two, it now ends with
\* one more.
LEMMA AllowExtendsEnd ==
  ASSUME TurnTypeOK, NEW s \in Signature, NEW n \in 0 .. 1,
         EndsWith(call_history, s, n)
  PROVE  EndsWith(Remembered(s), s, n + 1)
<1> DEFINE H == call_history
           R == Remembered(s)
           d == Dropped(s)
<1>1. H \in Seq(Signature) /\ Len(H) \in Nat
  BY DEF TurnTypeOK
<1>2. /\ R \in Seq(Signature) /\ d \in Nat /\ Len(R) >= 1
      /\ Len(R) >= 2 \/ d = 0
      /\ \A i \in 1 .. Len(R) :
           R[i] = IF i + d = Len(H) + 1 THEN s ELSE H[i + d]
  BY RememberedEntries
<1>3. /\ d = Len(H) + 1 - Len(R)
      /\ d \in Nat /\ Len(R) \in Nat /\ Len(H) \in Nat
  BY <1>1, <1>2 DEF Dropped
<1>4. n <= Len(H) /\ \A i \in 1 .. Len(H) : i > Len(H) - n => H[i] = s
  BY <1>1 DEF EndsWith
<1> HIDE DEF R, d, H
<1>5. n + 1 <= Len(R)
  BY <1>1, <1>2, <1>3, <1>4
<1>6. ASSUME NEW i \in 1 .. Len(R), i > Len(R) - (n + 1)
      PROVE  R[i] = s
  <2>1. CASE i + d = Len(H) + 1
    BY <1>2, <2>1
  <2>2. CASE i + d # Len(H) + 1
    <3>1. i + d \in 1 .. Len(H) /\ i + d > Len(H) - n
      BY <1>3, <1>6, <2>2
    <3>2. QED
      BY <1>2, <1>4, <2>2, <3>1
  <2>3. QED
    BY <2>1, <2>2
<1>7. DOMAIN R = 1 .. Len(R)
  BY <1>2
<1>8. EndsWith(R, s, n + 1)
  BY <1>5, <1>6, <1>7 DEF EndsWith
<1>9. QED
  BY <1>8 DEF R

\* A history that ends with two of a call repeats it.
LEMMA EndRepeats ==
  ASSUME TurnTypeOK, NEW s, EndsWith(call_history, s, 2)
  PROVE  Repeated(s)
<1> DEFINE H == call_history
<1>1. H \in Seq(Signature) /\ HistoryWindow \in Nat /\ HistoryWindow >= 2
  BY AgentConstants DEF TurnTypeOK
<1>2. Len(H) >= 2 /\ DOMAIN H = 1 .. Len(H) /\ Len(H) \in Nat
  BY <1>1 DEF EndsWith
<1>3. /\ Len(H) - 1 \in DOMAIN H /\ Len(H) \in DOMAIN H
      /\ Len(H) - 1 > Len(H) - 2 /\ Len(H) > Len(H) - 2
  BY <1>2
<1>4. H[Len(H) - 1] = s /\ H[Len(H)] = s
  BY <1>3 DEF EndsWith
<1>5. Len(H) - 1 < Len(H) /\ Len(H) - 1 > Len(H) - HistoryWindow
  BY <1>1, <1>2
<1>6. QED
  BY <1>3, <1>4, <1>5, RepeatedInWindow
-----------------------------------------------------------------------------
\* The ways a call can be inspected.
Inspected(s) ==
  \/ BlockSuppressed(s) \/ StopSearching(s) \/ BlockBroadScan(s)
  \/ BlockRepeated(s) \/ Allow(s)

\* What every way has in common: counts only grow, tools stay suppressed.
LEMMA DetectorGrows ==
  ASSUME TurnTypeOK, NEW s \in Signature, Inspected(s)
  PROVE  /\ \A t \in ToolName : tool_call_counts'[t] >= tool_call_counts[t]
         /\ \A x \in Signature : blocked_counts'[x] >= blocked_counts[x]
         /\ suppressed_tools \subseteq suppressed_tools'
<1> USE DEF TurnTypeOK
<1>1. s[1] \in ToolName
  BY DEF Signature
<1>2. tool_call_counts' = tool_call_counts
        \/ tool_call_counts' = [tool_call_counts EXCEPT ![s[1]] = @ + 1]
  BY DEF Inspected, BlockSuppressed, StopSearching, BlockBroadScan,
         BlockRepeated, Allow, Counted, detector
<1>3. blocked_counts' = blocked_counts
        \/ blocked_counts' = [blocked_counts EXCEPT ![s] = @ + 1]
  BY DEF Inspected, BlockSuppressed, StopSearching, BlockBroadScan,
         BlockRepeated, Allow, detector
<1>4. suppressed_tools \subseteq suppressed_tools'
  BY DEF Inspected, BlockSuppressed, StopSearching, BlockBroadScan,
         BlockRepeated, Allow, Suppress, detector
<1>5. ASSUME NEW t \in ToolName
      PROVE  tool_call_counts'[t] >= tool_call_counts[t]
  <2>1. tool_call_counts[t] \in Nat
    OBVIOUS
  <2>2. CASE tool_call_counts' = tool_call_counts
    BY <2>1, <2>2
  <2>3. CASE tool_call_counts' = [tool_call_counts EXCEPT ![s[1]] = @ + 1]
    <3>1. tool_call_counts'[t] = tool_call_counts[t] + 1
            \/ tool_call_counts'[t] = tool_call_counts[t]
      BY <2>3
    <3>2. QED
      BY <2>1, <3>1
  <2>4. QED
    BY <1>2, <2>2, <2>3
<1>6. ASSUME NEW x \in Signature
      PROVE  blocked_counts'[x] >= blocked_counts[x]
  <2>1. blocked_counts[x] \in Nat
    OBVIOUS
  <2>2. CASE blocked_counts' = blocked_counts
    BY <2>1, <2>2
  <2>3. CASE blocked_counts' = [blocked_counts EXCEPT ![s] = @ + 1]
    <3>1. blocked_counts'[x] = blocked_counts[x] + 1
            \/ blocked_counts'[x] = blocked_counts[x]
      BY <2>3
    <3>2. QED
      BY <2>1, <3>1
  <2>4. QED
    BY <1>3, <2>2, <2>3
<1>7. QED
  BY <1>4, <1>5, <1>6

\* A tool is suppressed only by the call that gave the cause.
LEMMA StepKeepsEarned ==
  ASSUME TurnTypeOK, TurnTypeOK', LoopInv, NEW s \in Signature, Inspected(s),
         ran \subseteq ran'
  PROVE  Earned'
<1> SUFFICES ASSUME NEW t \in suppressed_tools'
             PROVE  \/ t = SearchTool /\ tool_call_counts'[t] > MaxSearches
                    \/ \E a \in Args : blocked_counts'[<<t, a>>] >= 2 /\ t \in ran'
  BY DEF Earned
<1>1. CASE t \in suppressed_tools
  <2>1. CASE t = SearchTool /\ tool_call_counts[t] > MaxSearches
    <3>1. /\ tool_call_counts'[t] >= tool_call_counts[t]
          /\ tool_call_counts'[t] \in Nat /\ tool_call_counts[t] \in Nat
          /\ MaxSearches \in Nat
      BY <2>1, DetectorGrows, AgentConstants DEF TurnTypeOK
    <3>2. QED
      BY <2>1, <3>1
  <2>2. CASE \E a \in Args : blocked_counts[<<t, a>>] >= 2 /\ t \in ran
    <3>1. PICK a \in Args : blocked_counts[<<t, a>>] >= 2 /\ t \in ran
      BY <2>2
    <3>2. <<t, a>> \in Signature
      BY <1>1 DEF TurnTypeOK, Signature
    <3>3. /\ blocked_counts'[<<t, a>>] >= blocked_counts[<<t, a>>]
          /\ blocked_counts'[<<t, a>>] \in Nat /\ blocked_counts[<<t, a>>] \in Nat
      BY <3>2, DetectorGrows DEF TurnTypeOK
    <3>4. QED
      BY <3>1, <3>3
  <2>3. QED
    BY <1>1, <2>1, <2>2 DEF LoopInv, Earned
<1>2. CASE t \notin suppressed_tools
  <2>1. CASE StopSearching(s)
    <3>1. t = s[1] /\ s[1] \in ToolName
      BY <1>2, <2>1 DEF StopSearching, Suppress, Signature
    <3>2. tool_call_counts' = [tool_call_counts EXCEPT ![s[1]] = @ + 1]
      BY <2>1 DEF StopSearching, Counted
    <3>3. s[1] = SearchTool /\ tool_call_counts[s[1]] + 1 > MaxSearches
      BY <2>1 DEF StopSearching, TooManySearches
    <3>4. tool_call_counts'[s[1]] = tool_call_counts[s[1]] + 1
      BY <3>1, <3>2 DEF TurnTypeOK
    <3>5. QED
      BY <3>1, <3>3, <3>4
  <2>2. CASE BlockRepeated(s)
    <3>1. t = s[1] /\ Insisted(s) /\ Repeated(s)
      BY <1>2, <2>2 DEF BlockRepeated, Suppress
    <3>2. s = <<s[1], s[2]>> /\ s[2] \in Args
      BY DEF Signature
    <3>3. blocked_counts'[s] = blocked_counts[s] + 1
      BY <2>2 DEF BlockRepeated, TurnTypeOK
    <3>4. blocked_counts'[s] >= 2
      BY <3>1, <3>3 DEF Insisted
    <3>5. PICK i \in DOMAIN call_history : call_history[i] = s
      BY <3>1, RepeatedHasRun
    <3>6. s[1] \in ran'
      BY <3>5 DEF LoopInv
    <3>7. QED
      BY <3>1, <3>2, <3>4, <3>6
  <2>3. QED
    BY <1>2, <2>1, <2>2 DEF Inspected, BlockSuppressed, BlockBroadScan, Allow,
                            detector
<1>3. QED
  BY <1>1, <1>2

\* Every try uses up patience: a call that is let through is one more at the
\* end of the history, one that is blocked is one more warning.
LEMMA StepKeepsPatience ==
  ASSUME TurnTypeOK, TurnTypeOK', LoopInv, NEW s \in Signature, Inspected(s),
         insisted' = [call |-> s, times |-> IF insisted.call = s
                                              THEN insisted.times + 1 ELSE 1]
  PROVE  Patience'
<1>1. /\ insisted'.call = s
      /\ insisted'.times = IF insisted.call = s THEN insisted.times + 1 ELSE 1
  OBVIOUS
<1>2. SUFFICES ASSUME s[2] \notin BroadArgs, s[1] \notin suppressed_tools'
               PROVE  \E n \in 0 .. 2 :
                        /\ EndsWith(call_history', s, n)
                        /\ insisted'.times <= n + blocked_counts'[s]
  BY <1>1 DEF Patience
<1>3. s[1] \notin suppressed_tools
  BY <1>2, DetectorGrows
<1>4. BlockRepeated(s) \/ Allow(s)
  BY <1>2, <1>3 DEF Inspected, BlockSuppressed, StopSearching, BlockBroadScan,
                    Suppress
<1>5. PICK n \in 0 .. 2 :
        /\ EndsWith(call_history, s, n)
        /\ insisted'.times <= n + blocked_counts[s] + 1
  <2>1. CASE insisted.call = s
    <3>1. PICK n \in 0 .. 2 : /\ EndsWith(call_history, s, n)
                              /\ insisted.times <= n + blocked_counts[s]
      BY <1>2, <1>3, <2>1 DEF LoopInv, Patience
    <3>2. insisted.times \in Nat /\ blocked_counts[s] \in Nat
      BY DEF TurnTypeOK
    <3>3. insisted'.times = insisted.times + 1
      BY <1>1, <2>1
    <3>4. insisted'.times <= n + blocked_counts[s] + 1
      BY <3>1, <3>2, <3>3
    <3>5. QED
      BY <3>1, <3>4
  <2>2. CASE insisted.call # s
    <3>1. EndsWith(call_history, s, 0)
      <4>1. call_history \in Seq(Signature)
        BY DEF TurnTypeOK
      <4>2. QED
        BY <4>1 DEF EndsWith
    <3>2. blocked_counts[s] \in Nat
      BY DEF TurnTypeOK
    <3>3. insisted'.times <= 0 + blocked_counts[s] + 1
      BY <1>1, <2>2, <3>2
    <3>4. QED
      BY <3>1, <3>3
  <2>3. QED
    BY <2>1, <2>2
<1>6. insisted'.times \in Nat /\ blocked_counts[s] \in Nat
  BY DEF TurnTypeOK
<1>7. CASE BlockRepeated(s)
  <2>1. /\ call_history' = call_history
        /\ blocked_counts'[s] = blocked_counts[s] + 1
    BY <1>7 DEF BlockRepeated, TurnTypeOK
  <2>2. insisted'.times <= n + blocked_counts'[s]
    BY <1>5, <1>6, <2>1
  <2>3. QED
    BY <1>5, <2>1, <2>2
<1>8. CASE Allow(s)
  <2>1. /\ call_history' = Remembered(s) /\ ~Repeated(s)
        /\ blocked_counts' = blocked_counts
    BY <1>8 DEF Allow
  <2>2. n \in 0 .. 1
    <3>1. n # 2
      BY <1>5, <2>1, EndRepeats
    <3>2. QED
      BY <3>1
  <2>3. EndsWith(call_history', s, n + 1)
    BY <1>5, <2>1, <2>2, AllowExtendsEnd
  <2>4. n + 1 \in 0 .. 2 /\ insisted'.times <= (n + 1) + blocked_counts'[s]
    BY <1>5, <1>6, <2>1, <2>2
  <2>5. QED
    BY <2>3, <2>4
<1>9. QED
  BY <1>4, <1>7, <1>8

\* What is let through is counted among what ran.
LEMMA StepKeepsHistory ==
  ASSUME TurnTypeOK, LoopInv, NEW s \in Signature, Inspected(s),
         ran \subseteq ran', Allow(s) => s[1] \in ran'
  PROVE  /\ NoThird(call_history')
         /\ \A i \in DOMAIN call_history' : call_history'[i][1] \in ran'
<1>1. CASE Allow(s)
  <2>1. call_history' = Remembered(s) /\ ~Repeated(s)
    BY <1>1 DEF Allow
  <2>2. NoThird(Remembered(s))
    BY <2>1, AllowKeepsNoThird DEF LoopInv
  <2>3. ASSUME NEW i \in DOMAIN Remembered(s)
        PROVE  Remembered(s)[i][1] \in ran'
    <3>1. /\ Remembered(s) \in Seq(Signature) /\ call_history \in Seq(Signature)
          /\ Dropped(s) \in Nat
          /\ Len(Remembered(s)) \in Nat /\ Len(call_history) \in Nat
          /\ Dropped(s) = Len(call_history) + 1 - Len(Remembered(s))
      <4>1. call_history \in Seq(Signature)
        BY DEF TurnTypeOK
      <4>2. Remembered(s) \in Seq(Signature) /\ Dropped(s) \in Nat
        BY RememberedEntries
      <4>3. QED
        BY <4>1, <4>2 DEF Dropped
    <3>2. i \in 1 .. Len(Remembered(s))
      BY <3>1
    <3>3. CASE i + Dropped(s) = Len(call_history) + 1
      <4>1. Remembered(s)[i] = s
        BY <3>2, <3>3, RememberedEntries
      <4>2. QED
        BY <1>1, <4>1
    <3>4. CASE i + Dropped(s) # Len(call_history) + 1
      <4>1. i + Dropped(s) \in 1 .. Len(call_history)
        BY <3>1, <3>2, <3>4
      <4>2. Remembered(s)[i] = call_history[i + Dropped(s)]
        BY <3>2, <3>4, RememberedEntries
      <4>3. i + Dropped(s) \in DOMAIN call_history
        BY <3>1, <4>1
      <4>4. QED
        BY <4>2, <4>3 DEF LoopInv
    <3>5. QED
      BY <3>3, <3>4
  <2>4. QED
    BY <2>1, <2>2, <2>3
<1>2. CASE ~Allow(s)
  <2>1. call_history' = call_history
    BY <1>2 DEF Inspected, BlockSuppressed, StopSearching, BlockBroadScan,
                BlockRepeated, detector
  <2>2. QED
    BY <2>1 DEF LoopInv
<1>3. QED
  BY <1>1, <1>2

\* A second warning suppresses the tool, and only a suppression trips.
LEMMA StepKeepsWarnings ==
  ASSUME TurnTypeOK, LoopInv, NEW s \in Signature, Inspected(s)
  PROVE  /\ \A x \in Signature :
              blocked_counts'[x] >= 2 => x[1] \in suppressed_tools'
         /\ hard_tripped' <=> suppressed_tools' # {}
<1>1. CASE BlockRepeated(s)
  <2>1. ASSUME NEW x \in Signature, blocked_counts'[x] >= 2
        PROVE  x[1] \in suppressed_tools'
    <3>1. CASE x = s
      <4>1. blocked_counts'[s] = blocked_counts[s] + 1
        BY <1>1 DEF BlockRepeated, TurnTypeOK
      <4>2. Insisted(s)
        BY <2>1, <3>1, <4>1 DEF Insisted
      <4>3. QED
        BY <1>1, <3>1, <4>2 DEF BlockRepeated, Suppress
    <3>2. CASE x # s
      <4>1. blocked_counts'[x] = blocked_counts[x]
        BY <1>1, <3>2 DEF BlockRepeated, TurnTypeOK
      <4>2. x[1] \in suppressed_tools
        BY <2>1, <4>1 DEF LoopInv
      <4>3. QED
        BY <4>2, DetectorGrows
    <3>3. QED
      BY <3>1, <3>2
  <2>2. hard_tripped' <=> suppressed_tools' # {}
    <3>1. CASE Suppress(s[1])
      <4>1. hard_tripped' = TRUE /\ s[1] \in suppressed_tools'
        BY <3>1 DEF Suppress
      <4>2. QED
        BY <4>1
    <3>2. CASE UNCHANGED <<suppressed_tools, hard_tripped>>
      <4>1. suppressed_tools' = suppressed_tools /\ hard_tripped' = hard_tripped
        BY <3>2
      <4>2. hard_tripped <=> suppressed_tools # {}
        BY DEF LoopInv
      <4>3. QED
        BY <4>1, <4>2, Zenon
    <3>3. QED
      BY <1>1, <3>1, <3>2 DEF BlockRepeated
  <2>3. QED
    BY <2>1, <2>2
<1>2. CASE ~BlockRepeated(s)
  <2>1. blocked_counts' = blocked_counts
    BY <1>2 DEF Inspected, BlockSuppressed, StopSearching, BlockBroadScan,
                Allow, detector
  <2>2. hard_tripped' <=> suppressed_tools' # {}
    <3>1. CASE StopSearching(s)
      BY <3>1 DEF StopSearching, Suppress
    <3>2. CASE UNCHANGED <<hard_tripped, suppressed_tools>>
      BY <3>2 DEF LoopInv
    <3>3. QED
      BY <1>2, <3>1, <3>2 DEF Inspected, BlockSuppressed, BlockBroadScan,
                              Allow, detector
  <2>3. QED
    BY <2>1, <2>2, DetectorGrows DEF LoopInv
<1>3. QED
  BY <1>1, <1>2

\* For every window, limit and number of searches: no call runs a third time
\* in a row or in the window, the fourth try in a row loses the tool, and a
\* tool is lost for a cause only (inspect_tool_call).
THEOREM LoopStaysCut == TurnSpec => []LoopIsCut
<1>1. TurnInit => LoopInv
  <2> SUFFICES ASSUME TurnInit PROVE LoopInv
    OBVIOUS
  <2>1. call_history = <<>> /\ suppressed_tools = {} /\ hard_tripped = FALSE
    BY DEF TurnInit
  <2>2. NoThird(call_history)
    BY <2>1 DEF NoThird
  <2>3. \A s \in Signature : ~(blocked_counts[s] >= 2)
    BY DEF TurnInit
  <2>4. Patience
    <3>1. (CHOOSE s \in Signature : TRUE) \in Signature
      BY SomeSignature
    <3>2. /\ insisted.call \in Signature /\ insisted.times = 0
          /\ blocked_counts[insisted.call] = 0
      BY <3>1 DEF TurnInit
    <3>3. EndsWith(call_history, insisted.call, 0)
      BY <2>1 DEF EndsWith
    <3>4. insisted.times <= 0 + blocked_counts[insisted.call]
      BY <3>2
    <3>5. QED
      BY <3>3, <3>4 DEF Patience
  <2>5. \A i \in DOMAIN call_history : call_history[i][1] \in ran
    BY <2>1
  <2>6. hard_tripped <=> suppressed_tools # {}
    BY <2>1
  <2>7. Earned
    BY <2>1 DEF Earned
  <2>8. QED
    BY <2>2, <2>3, <2>4, <2>5, <2>6, <2>7 DEF LoopInv
<1>2. TurnTypeOK /\ LoopInv /\ [TurnNext]_turnVars => LoopInv'
  <2> SUFFICES ASSUME TurnTypeOK, LoopInv, [TurnNext]_turnVars PROVE LoopInv'
    OBVIOUS
  <2>1. TurnTypeOK'
    BY TurnTypeStep
  <2>2. CASE UNCHANGED <<detector, ran, insisted>>
    <3>1. /\ call_history' = call_history /\ blocked_counts' = blocked_counts
          /\ suppressed_tools' = suppressed_tools
          /\ hard_tripped' = hard_tripped
          /\ tool_call_counts' = tool_call_counts
          /\ ran' = ran /\ insisted' = insisted
      BY <2>2, Zenon DEF detector
    <3>2. NoThird(call_history)' /\ Patience' /\ Earned'
      <4>1. NoThird(call_history) /\ Patience /\ Earned
        BY DEF LoopInv
      <4>2. NoThird(call_history)'
        BY <3>1, <4>1 DEF NoThird
      <4>3. Patience'
        BY <3>1, <4>1 DEF Patience, EndsWith
      <4>4. Earned'
        BY <3>1, <4>1 DEF Earned
      <4>5. QED
        BY <4>2, <4>3, <4>4
    <3>3. /\ \A i \in DOMAIN call_history' : call_history'[i][1] \in ran'
          /\ \A s \in Signature :
               blocked_counts'[s] >= 2 => s[1] \in suppressed_tools'
      BY <3>1 DEF LoopInv
    <3>4. hard_tripped' <=> suppressed_tools' # {}
      <4>1. hard_tripped <=> suppressed_tools # {}
        BY DEF LoopInv
      <4>2. QED
        BY <3>1, <4>1, Zenon
    <3>5. QED
      BY <3>2, <3>3, <3>4 DEF LoopInv
  <2>3. ASSUME NEW s \in Signature, CallBlocked(s) \/ CallTool(s)
        PROVE  LoopInv'
    <3>1. Inspected(s)
      BY <2>3 DEF CallBlocked, CallTool, Inspected
    <3>2. insisted' = [call |-> s, times |-> IF insisted.call = s
                                               THEN insisted.times + 1 ELSE 1]
      BY <2>3 DEF CallBlocked, CallTool, Inspect
    <3>3. ran \subseteq ran'
      BY <2>3 DEF CallBlocked, CallTool
    <3>4. Allow(s) => s[1] \in ran'
      BY <2>3 DEF CallBlocked, CallTool, Allow, Counted, BlockSuppressed,
                  StopSearching, BlockBroadScan, BlockRepeated
    <3>5. Earned'
      BY <2>1, <3>1, <3>3, StepKeepsEarned
    <3>6. Patience'
      BY <2>1, <3>1, <3>2, StepKeepsPatience
    <3>7. /\ NoThird(call_history')
          /\ \A i \in DOMAIN call_history' : call_history'[i][1] \in ran'
      BY <3>1, <3>3, <3>4, StepKeepsHistory
    <3>8. /\ \A x \in Signature :
               blocked_counts'[x] >= 2 => x[1] \in suppressed_tools'
          /\ hard_tripped' <=> suppressed_tools' # {}
      BY <3>1, StepKeepsWarnings
    <3>9. NoThird(call_history)'
      BY <3>7 DEF NoThird
    <3>10. QED
      BY <3>5, <3>6, <3>7, <3>8, <3>9 DEF LoopInv
  <2>4. QED
    BY <2>2, <2>3 DEF TurnNext, Receive, StartTurn, Iterate, TurnTick, turnVars
<1>3. QED
  BY <1>1, <1>2, LoopInvCuts, TurnTypeCorrect, PTL DEF TurnSpec
-----------------------------------------------------------------------------
(***************************************************************************)
(* Routing.                                                                *)
(***************************************************************************)

\* A change in a segment is among the actions of its text.
LEMMA MarkIsActedOn ==
  ASSUME NEW m \in MessageType, NEW s \in m.segments, NEW mark,
         mark \in s, mark # "read"
  PROVE  KindOf[mark] \in Actions(m)
<1> DEFINE changes == {KindOf[k] : k \in s \ {"read"}}
<1>1. KindOf[mark] \in changes
  OBVIOUS
<1>2. SegmentActions(s) = changes
  BY <1>1 DEF SegmentActions
<1>3. SegmentActions(s) \in {SegmentActions(r) : r \in m.segments}
  OBVIOUS
<1>4. QED
  BY <1>1, <1>2, <1>3 DEF Actions

\* A change makes the text one that mutates; a system command, a critical one.
LEMMA ChangesMutate ==
  ASSUME NEW m \in MessageType
  PROVE  /\ ChangesAnything(m) => Mutates(m)
         /\ (\E s \in m.segments : "critical" \in s) => Critical(m)
<1>1. ASSUME ChangesAnything(m) PROVE Mutates(m)
  <2>0. PICK s \in m.segments :
          s \cap {"write", "delete", "move", "permission"} # {}
    BY <1>1 DEF ChangesAnything
  <2>1. PICK mark \in s : mark \in {"write", "delete", "move", "permission"}
    BY <2>0
  <2>2. KindOf[mark] \in Actions(m)
    BY <2>1, MarkIsActedOn
  <2>3. KindOf[mark] \in MutationKinds
    BY <2>1 DEF KindOf, MutationKinds
  <2>4. QED
    BY <2>2, <2>3 DEF Mutates
<1>2. ASSUME NEW s \in m.segments, "critical" \in s PROVE Critical(m)
  <2>1. KindOf["critical"] \in Actions(m)
    BY <1>2, MarkIsActedOn
  <2>2. QED
    BY <2>1 DEF KindOf, Critical
<1>3. QED
  BY <1>1, <1>2

\* What is classified keeps its tier until the turn starts.
Routed == stage = "classified" => tier = Classify(message)

\* For any messages: a change anywhere in a chain of commands gets a tier whose
\* result is verified, next to a protected path the highest, and so does a
\* system command (classify).
THEOREM ChangesStayRouted == TurnSpec => []ChangesAreRouted
<1>1. TurnInit => Routed
  BY DEF TurnInit, Routed
<1>2. Routed /\ [TurnNext]_turnVars => Routed'
  <2> SUFFICES ASSUME Routed, [TurnNext]_turnVars PROVE Routed'
    OBVIOUS
  <2>1. CASE Receive
    BY <2>1 DEF Receive, Routed
  <2>2. CASE StartTurn
    BY <2>2 DEF StartTurn, Routed
  <2>3. CASE UNCHANGED <<stage, message, tier>>
    BY <2>3 DEF Routed
  <2>4. QED
    BY <2>1, <2>2, <2>3 DEF TurnNext, Iterate, TurnTick, CallBlocked, CallTool,
                            turnVars
<1>3. TurnTypeOK /\ Routed => ChangesAreRouted
  <2> SUFFICES ASSUME TurnTypeOK, tier = Classify(message), ~message.blank
               PROVE  /\ ChangesAnything(message)
                           /\ "injected" \notin message.marks => Verifies(tier)
                      /\ ChangesAnything(message) /\ "core" \in message.marks =>
                           tier = "L3"
                      /\ (\E s \in message.segments : "critical" \in s) =>
                           tier = "L3"
    BY DEF Routed, ChangesAreRouted
  <2>1. message \in MessageType
    BY DEF TurnTypeOK
  <2>2. Critical(message) => tier = "L3"
    BY DEF Classify
  <2>3. ASSUME Mutates(message), "injected" \notin message.marks
        PROVE  Verifies(tier)
    <3>1. ~Reads(message) /\ ~Converses(message)
      BY <2>3 DEF Reads, Converses
    <3>2. Actions(message) # {"READ"}
      BY <2>3 DEF Mutates, MutationKinds
    <3>3. tier \in {"L2", "L3"}
      BY <2>3, <3>1, <3>2 DEF Classify
    <3>4. QED
      BY <3>3 DEF Verifies
  <2>4. Mutates(message) /\ "core" \in message.marks => Critical(message)
    BY DEF Critical, TouchesCore
  <2>5. QED
    BY <2>1, <2>2, <2>3, <2>4, ChangesMutate
<1>4. QED
  BY <1>1, <1>2, <1>3, TurnTypeCorrect, PTL DEF TurnSpec
=============================================================================
