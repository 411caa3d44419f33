----------------------- MODULE PlanStateMachineProofs -----------------------
(***************************************************************************)
(* Proofs about the planner's task graph, for every plan, every            *)
(* replacement and every way of naming replacements.                       *)
(***************************************************************************)
EXTENDS PlanStateMachine, WellFoundedInduction, TLAPS

\* Refresh keeps the tasks and turns pending ones into ready ones at most.
LEMMA RefreshType ==
  ASSUME NEW st, NEW dp, st \in [DOMAIN st -> Status]
  PROVE  /\ Refresh(st, dp) \in [DOMAIN st -> Status]
         /\ \A t \in DOMAIN st :
              \/ Refresh(st, dp)[t] = st[t]
              \/ st[t] = "PENDING" /\ Refresh(st, dp)[t] = "READY"
BY DEF Refresh, Status

\* A task that waits for a replan has one left.
ReplanLeft ==
  \A t \in Tasks :
    /\ replan_count[t] <= max_replans[t]
    /\ status[t] = "NEEDS_REPLAN" => replan_count[t] < max_replans[t]

IInv == TypeOK /\ ReplanLeft

LEMMA InitInv == Init => IInv
BY DEF Init, IInv, TypeOK, ReplanLeft, Tasks

LEMMA AddTaskInv ==
  ASSUME IInv, NEW a \in Addable, AddTask(a)
  PROVE  IInv'
<1> DEFINE ids == Tasks \cup {a.id}
           st == [t \in ids |-> IF t = a.id THEN "PENDING" ELSE status[t]]
<1>1. st \in [ids -> Status] /\ DOMAIN st = ids
  BY DEF IInv, TypeOK, Status
<1>2. /\ deps' = [t \in ids |-> IF t = a.id THEN a.deps ELSE deps[t]]
      /\ status' = Refresh(st, deps')
      /\ replan_count' = [t \in ids |-> IF t = a.id THEN 0 ELSE replan_count[t]]
      /\ max_replans' = [t \in ids |-> IF t = a.id THEN a.max_replans ELSE max_replans[t]]
  BY DEF AddTask
<1>3. \A t \in ids : st[t] = IF t = a.id THEN "PENDING" ELSE status[t]
  OBVIOUS
<1> HIDE DEF st
<1>4. /\ status' \in [ids -> Status]
      /\ \A t \in ids : status'[t] = st[t] \/ status'[t] = "READY"
  BY <1>1, <1>2, RefreshType
<1>5. Tasks' = ids
  BY <1>4 DEF Tasks
<1>6. /\ DOMAIN deps' = ids
      /\ \A t \in ids : replan_count'[t] = IF t = a.id THEN 0 ELSE replan_count[t]
      /\ \A t \in ids :
           max_replans'[t] = IF t = a.id THEN a.max_replans ELSE max_replans[t]
      /\ replan_count' = [t \in ids |-> replan_count'[t]]
      /\ max_replans' = [t \in ids |-> max_replans'[t]]
  BY <1>2
<1>7. /\ \A t \in ids : t # a.id => t \in Tasks
      /\ a.max_replans \in Nat
  BY PlanConstants
<1> HIDE DEF ids
<1>8. TypeOK'
  BY <1>4, <1>5, <1>6, <1>7 DEF IInv, TypeOK
<1>9. ReplanLeft'
  BY <1>3, <1>4, <1>5, <1>6, <1>7 DEF IInv, TypeOK, ReplanLeft
<1>10. QED
  BY <1>8, <1>9 DEF IInv

LEMMA RefreshInv ==
  ASSUME IInv, NEW st \in [Tasks -> Status], status' = Refresh(st, deps),
         \A t \in Tasks : st[t] = "NEEDS_REPLAN" => status[t] = "NEEDS_REPLAN",
         UNCHANGED <<deps, replan_count, max_replans>>
  PROVE  IInv'
<1>1. DOMAIN st = Tasks
  OBVIOUS
<1>2. /\ status' \in [Tasks -> Status]
      /\ \A t \in Tasks : status'[t] = st[t] \/ status'[t] = "READY"
  BY <1>1, RefreshType
<1>3. Tasks' = Tasks
  BY <1>2 DEF Tasks
<1>4. QED
  BY <1>2, <1>3 DEF IInv, TypeOK, ReplanLeft

LEMMA MarkFailedInv ==
  ASSUME IInv, NEW t \in Tasks, MarkFailed(t)
  PROVE  IInv'
<1>1. Tasks' = Tasks
  BY DEF MarkFailed, Tasks
<1>2. QED
  BY <1>1 DEF MarkFailed, IInv, TypeOK, ReplanLeft, Status

LEMMA PartialReplanInv ==
  ASSUME IInv, NEW failed \in Tasks, NEW items \in Replacements,
         PartialReplan(failed, items)
  PROVE  IInv'
<1> DEFINE new == NewIds(failed, items)
           ids == (Tasks \ {failed}) \cup new
           st == [t \in ids |-> IF t \in new THEN "PENDING" ELSE status[t]]
           left == replan_count[failed] + 1
<1>1. /\ status[failed] = "NEEDS_REPLAN"
      /\ status' = Refresh(st, deps')
      /\ DOMAIN deps' = ids
      /\ replan_count' = [t \in ids |-> IF t \in new THEN left ELSE replan_count[t]]
      /\ max_replans' = [t \in ids |-> IF t \in new THEN max_replans[failed] ELSE max_replans[t]]
  BY DEF PartialReplan, Counted
<1>2. left \in Nat /\ left <= max_replans[failed]
  BY <1>1 DEF IInv, TypeOK, ReplanLeft
<1>3. st \in [ids -> Status] /\ DOMAIN st = ids
  BY DEF IInv, TypeOK, Status
<1>4. \A t \in ids : st[t] = IF t \in new THEN "PENDING" ELSE status[t]
  OBVIOUS
<1> HIDE DEF st, left, new
<1>5. /\ status' \in [ids -> Status]
      /\ \A t \in ids : status'[t] = st[t] \/ status'[t] = "READY"
  BY <1>1, <1>3, RefreshType
<1>6. Tasks' = ids
  BY <1>5 DEF Tasks
<1>7. TypeOK'
  BY <1>1, <1>2, <1>5, <1>6 DEF IInv, TypeOK
<1>8. ReplanLeft'
  <2> SUFFICES ASSUME NEW t \in ids
               PROVE  /\ replan_count'[t] <= max_replans'[t]
                      /\ status'[t] = "NEEDS_REPLAN" => replan_count'[t] < max_replans'[t]
    BY <1>6 DEF ReplanLeft
  <2>1. CASE t \in new
    BY <1>1, <1>2, <1>4, <1>5, <2>1
  <2>2. CASE t \notin new
    BY <1>1, <1>4, <1>5, <2>2 DEF IInv, TypeOK, ReplanLeft
  <2>3. QED
    BY <2>1, <2>2
<1>9. QED
  BY <1>7, <1>8 DEF IInv

LEMMA NextInv == IInv /\ [Next]_vars => IInv'
<1> SUFFICES ASSUME IInv, [Next]_vars
             PROVE  IInv'
  OBVIOUS
<1>1. CASE UNCHANGED vars
  BY <1>1 DEF vars, IInv, TypeOK, ReplanLeft, Tasks
<1>2. ASSUME NEW a \in Addable, AddTask(a)
      PROVE  IInv'
  BY <1>2, AddTaskInv
<1>3. CASE GetReadyTasks
  BY <1>3, RefreshInv DEF GetReadyTasks, IInv, TypeOK
<1>4. ASSUME NEW t \in Tasks, StartTask(t)
      PROVE  IInv'
  <2>1. Tasks' = Tasks
    BY <1>4 DEF StartTask, Tasks
  <2>2. QED
    BY <1>4, <2>1 DEF StartTask, IInv, TypeOK, ReplanLeft, Status
<1>5. ASSUME NEW t \in Tasks, MarkCompleted(t)
      PROVE  IInv'
  <2> DEFINE st == [status EXCEPT ![t] = "COMPLETED"]
  <2>1. /\ st \in [Tasks -> Status]
        /\ \A u \in Tasks : st[u] = "NEEDS_REPLAN" => status[u] = "NEEDS_REPLAN"
    BY DEF IInv, TypeOK, Status
  <2>2. status' = Refresh(st, deps) /\ UNCHANGED <<deps, replan_count, max_replans>>
    BY <1>5 DEF MarkCompleted
  <2> HIDE DEF st
  <2>3. QED
    BY <2>1, <2>2, RefreshInv
<1>6. ASSUME NEW t \in Tasks, Fail(t)
      PROVE  IInv'
  BY <1>6, MarkFailedInv DEF Fail
<1>7. ASSUME NEW t \in Tasks, Replan(t)
      PROVE  IInv'
  BY <1>7, PartialReplanInv DEF Replan
<1>8. QED
  BY <1>1, <1>2, <1>3, <1>4, <1>5, <1>6, <1>7 DEF Next

\* The four functions keep describing the same tasks, for every caller.
THEOREM PlanTypeCorrect == Spec => []TypeOK
<1>1. IInv => TypeOK
  BY DEF IInv
<1>2. QED
  BY <1>1, InitInv, NextInv, PTL DEF Spec

\* No caller, however careless, gets a branch replanned more often than its
\* tasks allow.
THEOREM ReplansStayBounded == Spec => []ReplansBounded
<1>1. IInv => ReplansBounded
  BY DEF IInv, ReplanLeft, ReplansBounded
<1>2. QED
  BY <1>1, InitInv, NextInv, PTL DEF Spec
-----------------------------------------------------------------------------
(***************************************************************************)
(* Readiness.  It needs a caller that reports failures of running tasks    *)
(* only and does not reuse the id of another task.                         *)
(***************************************************************************)

Due == {"READY", "RUNNING", "COMPLETED"}

\* Refresh marks due tasks only, and never takes a completed status away.
LEMMA RefreshKeepsDue ==
  ASSUME NEW st, NEW dp, st \in [DOMAIN st -> Status],
         \A t \in DOMAIN st : st[t] \in Due => Satisfied(t, st, dp)
  PROVE  \A t \in DOMAIN st :
           Refresh(st, dp)[t] \in Due => Satisfied(t, Refresh(st, dp), dp)
<1> DEFINE new == Refresh(st, dp)
<1>1. /\ DOMAIN new = DOMAIN st
      /\ \A t \in DOMAIN st :
           new[t] = IF st[t] = "PENDING" /\ Satisfied(t, st, dp) THEN "READY" ELSE st[t]
  BY DEF Refresh
<1> HIDE DEF new
<1>2. ASSUME NEW t \in DOMAIN st, Satisfied(t, st, dp)
      PROVE  Satisfied(t, new, dp)
  BY <1>1, <1>2 DEF Satisfied
<1>3. \A t \in DOMAIN st : new[t] \in Due => Satisfied(t, st, dp)
  BY <1>1 DEF Due
<1>4. QED
  BY <1>2, <1>3 DEF new

LEMMA AddTaskDue ==
  ASSUME IInv, ReadyTasksAreDue, NEW a \in Addable, AddTask(a)
  PROVE  ReadyTasksAreDue'
<1> DEFINE ids == Tasks \cup {a.id}
           st == [t \in ids |-> IF t = a.id THEN "PENDING" ELSE status[t]]
<1>1. st \in [ids -> Status] /\ DOMAIN st = ids
  BY DEF IInv, TypeOK, Status
<1>2. /\ deps' = [t \in ids |-> IF t = a.id THEN a.deps ELSE deps[t]]
      /\ status' = Refresh(st, deps')
      /\ a.id \notin Tasks
  BY DEF AddTask
<1>3. /\ st[a.id] = "PENDING"
      /\ \A t \in Tasks : st[t] = status[t] /\ deps'[t] = deps[t]
  BY <1>2
<1> HIDE DEF st
<1>4. \A t \in ids : st[t] \in Due => Satisfied(t, st, deps')
  BY <1>1, <1>3 DEF ReadyTasksAreDue, Satisfied, Due, Tasks
<1>5. \A t \in ids : status'[t] \in Due => Satisfied(t, status', deps')
  BY <1>1, <1>2, <1>4, RefreshKeepsDue
<1>6. Tasks' = ids
  BY <1>1, <1>2, RefreshType DEF Tasks
<1>7. QED
  BY <1>5, <1>6 DEF ReadyTasksAreDue, Due

LEMMA PartialReplanDue ==
  ASSUME IInv, ReadyTasksAreDue, NEW failed \in Tasks, NEW items \in Replacements,
         NewIds(failed, items) \cap (Tasks \ {failed}) = {},
         PartialReplan(failed, items)
  PROVE  ReadyTasksAreDue'
<1> DEFINE new == NewIds(failed, items)
           ids == (Tasks \ {failed}) \cup new
           st == [t \in ids |-> IF t \in new THEN "PENDING" ELSE status[t]]
<1>1. /\ status[failed] = "NEEDS_REPLAN"
      /\ status' = Refresh(st, deps')
      /\ \A t \in ids \ new : deps'[t] = RedirectedDeps(failed, items, t)
  BY DEF PartialReplan
<1>2. st \in [ids -> Status] /\ DOMAIN st = ids
  BY DEF IInv, TypeOK, Status
<1>3. \A t \in ids : st[t] = IF t \in new THEN "PENDING" ELSE status[t]
  OBVIOUS
<1>4. \A t \in ids : t \notin new => t \in Tasks \ {failed}
  OBVIOUS
<1>5. \A t \in Tasks \ {failed} : t \in ids /\ t \notin new
  OBVIOUS
<1> HIDE DEF st, new, ids
<1>6. ASSUME NEW t \in ids, st[t] \in Due
      PROVE  Satisfied(t, st, deps')
  <2>1. t \notin new /\ t \in Tasks /\ status[t] = st[t]
    BY <1>3, <1>4, <1>6 DEF Due
  <2>2. Satisfied(t, status, deps)
    BY <1>6, <2>1 DEF ReadyTasksAreDue, Due
  <2>3. failed \notin deps[t]
    BY <1>1, <2>2 DEF Satisfied
  <2>4. deps'[t] = deps[t]
    BY <1>1, <2>1, <2>3 DEF RedirectedDeps
  <2>5. ASSUME NEW d \in deps[t]
        PROVE  d \in ids /\ st[d] = "COMPLETED"
    <3>1. d \in Tasks \ {failed} /\ status[d] = "COMPLETED"
      BY <2>2, <2>3 DEF Satisfied, Tasks
    <3>2. QED
      BY <1>3, <1>5, <3>1
  <2>6. QED
    BY <1>2, <2>4, <2>5 DEF Satisfied
<1>7. \A t \in ids : status'[t] \in Due => Satisfied(t, status', deps')
  BY <1>1, <1>2, <1>6, RefreshKeepsDue
<1>8. Tasks' = ids
  BY <1>1, <1>2, RefreshType DEF Tasks
<1>9. QED
  BY <1>7, <1>8 DEF ReadyTasksAreDue, Due

\* A step that changes statuses only, and refreshes them.
LEMMA RefreshDue ==
  ASSUME IInv, NEW st \in [Tasks -> Status], status' = Refresh(st, deps),
         \A t \in Tasks : st[t] \in Due => Satisfied(t, st, deps),
         UNCHANGED deps
  PROVE  ReadyTasksAreDue'
<1>1. DOMAIN st = Tasks
  OBVIOUS
<1>2. \A t \in Tasks : status'[t] \in Due => Satisfied(t, status', deps')
  BY <1>1, RefreshKeepsDue
<1>3. Tasks' = Tasks
  BY <1>1, RefreshType DEF Tasks
<1>4. QED
  BY <1>2, <1>3 DEF ReadyTasksAreDue, Due

LEMMA ReadyStep ==
  ASSUME {"fails_running", "fresh_ids"} \subseteq Discipline,
         IInv, ReadyTasksAreDue, [Next]_vars
  PROVE  ReadyTasksAreDue'
<1>1. CASE UNCHANGED vars
  BY <1>1 DEF vars, ReadyTasksAreDue, Tasks, Satisfied
<1>2. ASSUME NEW a \in Addable, AddTask(a)
      PROVE  ReadyTasksAreDue'
  BY <1>2, AddTaskDue
<1>3. CASE GetReadyTasks
  BY <1>3, RefreshDue DEF GetReadyTasks, IInv, TypeOK, ReadyTasksAreDue, Due
<1>4. ASSUME NEW t \in Tasks, StartTask(t)
      PROVE  ReadyTasksAreDue'
  <2>1. /\ Tasks' = Tasks
        /\ UNCHANGED deps
        /\ status[t] = "READY"
        /\ \A u \in Tasks : status'[u] = IF u = t THEN "RUNNING" ELSE status[u]
    BY <1>4 DEF StartTask, Tasks
  <2>2. ASSUME NEW u \in Tasks, Satisfied(u, status, deps)
        PROVE  Satisfied(u, status', deps')
    BY <2>1, <2>2 DEF Satisfied, Tasks
  <2>3. QED
    BY <2>1, <2>2 DEF ReadyTasksAreDue
<1>5. ASSUME NEW t \in Tasks, MarkCompleted(t)
      PROVE  ReadyTasksAreDue'
  <2> DEFINE st == [status EXCEPT ![t] = "COMPLETED"]
  <2>1. /\ st \in [Tasks -> Status]
        /\ DOMAIN st = Tasks
        /\ \A u \in Tasks : st[u] = IF u = t THEN "COMPLETED" ELSE status[u]
    BY DEF IInv, TypeOK, Status
  <2>2. /\ status[t] \in Due
        /\ status' = Refresh(st, deps)
        /\ UNCHANGED deps
    BY <1>5 DEF MarkCompleted, Due
  <2> HIDE DEF st
  <2>3. \A u \in Tasks : st[u] \in Due => Satisfied(u, st, deps)
    BY <2>1, <2>2 DEF ReadyTasksAreDue, Satisfied, Due, Tasks
  <2>4. QED
    BY <2>1, <2>2, <2>3, RefreshDue
<1>6. ASSUME NEW t \in Tasks, Fail(t)
      PROVE  ReadyTasksAreDue'
  <2>1. /\ Tasks' = Tasks
        /\ UNCHANGED deps
        /\ status[t] = "RUNNING"
        /\ status'[t] \notin Due
        /\ \A u \in Tasks : u # t => status'[u] = status[u]
    BY <1>6 DEF Fail, MarkFailed, Tasks, Due, IInv, TypeOK
  <2>2. ASSUME NEW u \in Tasks, Satisfied(u, status, deps)
        PROVE  Satisfied(u, status', deps')
    BY <2>1, <2>2 DEF Satisfied, Tasks
  <2>3. QED
    BY <2>1, <2>2 DEF ReadyTasksAreDue, Due
<1>7. ASSUME NEW t \in Tasks, Replan(t)
      PROVE  ReadyTasksAreDue'
  BY <1>7, PartialReplanDue DEF Replan
<1>8. QED
  BY <1>1, <1>2, <1>3, <1>4, <1>5, <1>6, <1>7 DEF Next

\* With such a caller no task is ready, running or completed before all its
\* dependencies are, through every chain of failures and replans.
THEOREM ReadyTasksStayDue ==
  {"fails_running", "fresh_ids"} \subseteq Discipline /\ Spec => []ReadyTasksAreDue
<1>1. Init => ReadyTasksAreDue
  BY DEF Init, ReadyTasksAreDue, Tasks
<1> DEFINE Kept == {"fails_running", "fresh_ids"} \subseteq Discipline
<1>2. Kept /\ IInv /\ ReadyTasksAreDue /\ [Next]_vars => ReadyTasksAreDue'
  BY ReadyStep
<1>3. CASE Kept
  <2>1. IInv /\ ReadyTasksAreDue /\ [Next]_vars => ReadyTasksAreDue'
    BY <1>2, <1>3
  <2>2. QED
    BY <1>1, <2>1, InitInv, NextInv, PTL DEF Spec
<1>4. QED
  BY <1>3
-----------------------------------------------------------------------------
(***************************************************************************)
(* Waiting.  The caller also adds tasks after those they depend on, and    *)
(* replaces a failed task by a chain of at least one.                      *)
(***************************************************************************)

\* Every replacement waits for the one before it, and there is one.
ChainsOnly ==
  \A items \in Replacements :
    /\ Len(items) \in Nat \ {0}
    /\ \A i \in 1 .. Len(items) : items[i].deps = DefaultDeps

\* A task that waits for a replan does not wait for itself.
NoSelfReplan == \A t \in Tasks : status[t] = "NEEDS_REPLAN" => t \notin deps[t]

WaitInv == WaitingHasReason /\ NoSelfReplan

\* What is still pending after a refresh waits for something.
LEMMA RefreshLeavesWaiting ==
  ASSUME NEW st, NEW dp, st \in [DOMAIN st -> Status],
         \A t \in DOMAIN st : dp[t] \subseteq DOMAIN st
  PROVE  \A t \in DOMAIN st :
           Refresh(st, dp)[t] = "PENDING" =>
             \E d \in dp[t] : Refresh(st, dp)[d] # "COMPLETED"
<1> SUFFICES ASSUME NEW t \in DOMAIN st, Refresh(st, dp)[t] = "PENDING"
             PROVE  \E d \in dp[t] : Refresh(st, dp)[d] # "COMPLETED"
  OBVIOUS
<1>1. ~Satisfied(t, st, dp)
  BY DEF Refresh
<1>2. PICK d \in dp[t] : st[d] # "COMPLETED"
  BY <1>1 DEF Satisfied
<1>3. Refresh(st, dp)[d] # "COMPLETED"
  BY <1>2 DEF Refresh
<1>4. QED
  BY <1>2, <1>3

LEMMA AddTaskWaits ==
  ASSUME IInv, WaitInv, NEW a \in Addable, a.deps \subseteq Tasks, AddTask(a)
  PROVE  WaitInv'
<1> DEFINE ids == Tasks \cup {a.id}
           st == [t \in ids |-> IF t = a.id THEN "PENDING" ELSE status[t]]
<1>1. st \in [ids -> Status] /\ DOMAIN st = ids
  BY DEF IInv, TypeOK, Status
<1>2. /\ deps' = [t \in ids |-> IF t = a.id THEN a.deps ELSE deps[t]]
      /\ status' = Refresh(st, deps')
      /\ a.id \notin Tasks
  BY DEF AddTask
<1>3. /\ st[a.id] = "PENDING" /\ deps'[a.id] = a.deps
      /\ \A t \in Tasks : st[t] = status[t] /\ deps'[t] = deps[t]
  BY <1>2
<1> HIDE DEF st
<1>4. \A t \in ids : deps'[t] \subseteq ids
  BY <1>3 DEF WaitInv, WaitingHasReason
<1>5. Tasks' = ids
  BY <1>1, <1>2, RefreshType DEF Tasks
<1> HIDE DEF ids
<1>6. WaitingHasReason'
  BY <1>1, <1>2, <1>4, <1>5, RefreshLeavesWaiting DEF WaitingHasReason
<1>7. ASSUME NEW t \in ids, status'[t] = "NEEDS_REPLAN" PROVE t \notin deps'[t]
  <2>1. st[t] = "NEEDS_REPLAN"
    BY <1>1, <1>2, <1>7, RefreshType
  <2>2. QED
    BY <1>3, <2>1 DEF WaitInv, NoSelfReplan, ids
<1>8. QED
  BY <1>5, <1>6, <1>7 DEF WaitInv, NoSelfReplan

\* A set of positions has a last one.
LEMMA LargestElement ==
  ASSUME NEW n \in Nat, NEW S, S \subseteq 1 .. n, S # {}
  PROVE  \E i \in S : \A j \in S : j <= i
<1> DEFINE T == {n - i : i \in S}
<1>1. T \subseteq Nat /\ T # {}
  <2>1. \A i \in S : n - i \in Nat
    <3> SUFFICES ASSUME NEW i \in S PROVE n - i \in Nat
      OBVIOUS
    <3>1. i \in Int /\ i <= n
      OBVIOUS
    <3>2. QED
      BY <3>1
  <2>2. T # {}
    <3>1. PICK i \in S : TRUE
      OBVIOUS
    <3>2. n - i \in T
      BY <3>1
    <3>3. QED
      BY <3>2, Zenon
  <2>3. T \subseteq Nat
    BY <2>1
  <2>4. QED
    BY <2>2, <2>3
<1>2. PICK m \in T : \A k \in T : ~(<<k, m>> \in OpToRel(<, Nat))
  BY <1>1, NatLessThanWellFounded, WFMin
<1>3. \A k \in T : ~(k < m)
  BY <1>1, <1>2 DEF OpToRel
<1>4. PICK i \in S : m = n - i
  OBVIOUS
<1>5. ASSUME NEW j \in S PROVE j <= i
  <2>1. ~(n - j < n - i)
    BY <1>3, <1>4
  <2>2. QED
    BY <2>1
<1>6. QED
  BY <1>5

LEMMA PartialReplanWaits ==
  ASSUME ChainsOnly, IInv, WaitInv, NEW failed \in Tasks,
         NEW items \in Replacements, PartialReplan(failed, items)
  PROVE  WaitInv'
<1> DEFINE new == NewIds(failed, items)
           ids == (Tasks \ {failed}) \cup new
           st == [t \in ids |-> IF t \in new THEN "PENDING" ELSE status[t]]
<1>1. /\ status[failed] = "NEEDS_REPLAN"
      /\ status' = Refresh(st, deps')
      /\ \A t \in ids \ new : deps'[t] = RedirectedDeps(failed, items, t)
      /\ \A t \in new :
           deps'[t] = NewDeps(failed, items, LastWith(failed, items, t))
  BY DEF PartialReplan
<1>2. st \in [ids -> Status] /\ DOMAIN st = ids
  BY DEF IInv, TypeOK, Status
<1>3. \A t \in ids : st[t] = IF t \in new THEN "PENDING" ELSE status[t]
  OBVIOUS
<1>4. Len(items) \in Nat \ {0}
  BY DEF ChainsOnly
<1>5. \A i \in 1 .. Len(items) : NewId(failed, items, i) \in new
  BY DEF NewIds
<1>6. deps[failed] \subseteq Tasks \ {failed}
  BY <1>1 DEF WaitInv, WaitingHasReason, NoSelfReplan
<1>7. \A t \in new : LastWith(failed, items, t) \in 1 .. Len(items)
  <2> SUFFICES ASSUME NEW t \in new
               PROVE  \E i \in 1 .. Len(items) :
                        /\ NewId(failed, items, i) = t
                        /\ \A j \in i + 1 .. Len(items) :
                             NewId(failed, items, j) # t
    BY DEF LastWith
  <2> DEFINE Places == {i \in 1 .. Len(items) : NewId(failed, items, i) = t}
  <2>1. Places # {} /\ Places \subseteq 1 .. Len(items)
    BY DEF NewIds
  <2>2. PICK i \in Places : \A j \in Places : j <= i
    BY <1>4, <2>1, LargestElement
  <2>3. QED
    BY <1>4, <2>1, <2>2
<1> HIDE DEF st, new
<1>8. ASSUME NEW t \in new PROVE deps'[t] \subseteq ids
  <2> DEFINE i == LastWith(failed, items, t)
  <2>1. i \in 1 .. Len(items) /\ items[i].deps = DefaultDeps
    BY <1>7 DEF ChainsOnly
  <2>2. i # 1 => i - 1 \in 1 .. Len(items)
    BY <1>4, <2>1
  <2>3. deps'[t] = NewDeps(failed, items, i)
    BY <1>1
  <2> HIDE DEF i
  <2>4. QED
    BY <1>5, <1>6, <2>1, <2>2, <2>3 DEF NewDeps
<1>9. ASSUME NEW t \in ids, t \notin new PROVE deps'[t] \subseteq ids
  <2>1. deps[t] \subseteq Tasks
    BY <1>9 DEF WaitInv, WaitingHasReason
  <2>2. NewId(failed, items, Len(items)) \in new
    BY <1>4, <1>5
  <2>3. deps'[t] = RedirectedDeps(failed, items, t)
    BY <1>1, <1>9
  <2>4. QED
    BY <1>4, <2>1, <2>2, <2>3 DEF RedirectedDeps
<1>10. \A t \in ids : deps'[t] \subseteq ids
  BY <1>8, <1>9
<1>11. Tasks' = ids
  BY <1>1, <1>2, RefreshType DEF Tasks
<1>12. WaitingHasReason'
  BY <1>1, <1>2, <1>10, <1>11, RefreshLeavesWaiting DEF WaitingHasReason
<1>13. ASSUME NEW t \in ids, status'[t] = "NEEDS_REPLAN" PROVE t \notin deps'[t]
  <2>1. st[t] = "NEEDS_REPLAN"
    BY <1>1, <1>2, <1>13, RefreshType
  <2>2. t \notin new /\ status[t] = "NEEDS_REPLAN" /\ t \in Tasks
    BY <1>3, <2>1
  <2>3. t \notin deps[t]
    BY <2>2 DEF WaitInv, NoSelfReplan
  <2>4. NewId(failed, items, Len(items)) # t
    BY <1>4, <1>5, <2>2
  <2>5. QED
    BY <1>1, <2>2, <2>3, <2>4 DEF RedirectedDeps
<1>14. QED
  BY <1>11, <1>12, <1>13 DEF WaitInv, NoSelfReplan

\* A step that changes statuses only, and refreshes them.
LEMMA RefreshWaits ==
  ASSUME IInv, WaitInv, NEW st \in [Tasks -> Status], status' = Refresh(st, deps),
         \A t \in Tasks : st[t] = "NEEDS_REPLAN" => status[t] = "NEEDS_REPLAN",
         UNCHANGED deps
  PROVE  WaitInv'
<1>1. DOMAIN st = Tasks
  OBVIOUS
<1>2. Tasks' = Tasks
  BY <1>1, RefreshType DEF Tasks
<1>3. \A t \in Tasks : deps[t] \subseteq Tasks
  BY DEF WaitInv, WaitingHasReason
<1>4. WaitingHasReason'
  BY <1>1, <1>2, <1>3, RefreshLeavesWaiting DEF WaitingHasReason
<1>5. NoSelfReplan'
  BY <1>1, <1>2, RefreshType DEF NoSelfReplan, WaitInv
<1>6. QED
  BY <1>4, <1>5 DEF WaitInv

LEMMA WaitStep ==
  ASSUME {"fails_running", "known_deps"} \subseteq Discipline, ChainsOnly,
         IInv, ReadyTasksAreDue, WaitInv, [Next]_vars
  PROVE  WaitInv'
<1>1. CASE UNCHANGED vars
  BY <1>1 DEF vars, WaitInv, WaitingHasReason, NoSelfReplan, Tasks
<1>2. ASSUME NEW a \in Addable, a.deps \subseteq Tasks, AddTask(a)
      PROVE  WaitInv'
  BY <1>2, AddTaskWaits
<1>3. CASE GetReadyTasks
  BY <1>3, RefreshWaits DEF GetReadyTasks, IInv, TypeOK
<1>4. ASSUME NEW t \in Tasks, StartTask(t)
      PROVE  WaitInv'
  <2>1. /\ Tasks' = Tasks
        /\ UNCHANGED deps
        /\ status[t] = "READY"
        /\ \A u \in Tasks : status'[u] = IF u = t THEN "RUNNING" ELSE status[u]
    BY <1>4 DEF StartTask, Tasks
  <2>2. QED
    BY <2>1 DEF WaitInv, WaitingHasReason, NoSelfReplan
<1>5. ASSUME NEW t \in Tasks, MarkCompleted(t)
      PROVE  WaitInv'
  <2> DEFINE st == [status EXCEPT ![t] = "COMPLETED"]
  <2>1. /\ st \in [Tasks -> Status]
        /\ \A u \in Tasks : st[u] = IF u = t THEN "COMPLETED" ELSE status[u]
    BY DEF IInv, TypeOK, Status
  <2>2. status' = Refresh(st, deps) /\ UNCHANGED deps
    BY <1>5 DEF MarkCompleted
  <2> HIDE DEF st
  <2>3. QED
    BY <2>1, <2>2, RefreshWaits
<1>6. ASSUME NEW t \in Tasks, Fail(t)
      PROVE  WaitInv'
  <2>1. /\ Tasks' = Tasks
        /\ UNCHANGED deps
        /\ status[t] = "RUNNING"
        /\ status'[t] \notin {"PENDING", "COMPLETED"}
        /\ \A u \in Tasks : u # t => status'[u] = status[u]
    BY <1>6 DEF Fail, MarkFailed, Tasks, IInv, TypeOK
  <2>2. t \notin deps[t]
    BY <2>1 DEF ReadyTasksAreDue, Satisfied
  <2>3. QED
    BY <2>1, <2>2 DEF WaitInv, WaitingHasReason, NoSelfReplan
<1>7. ASSUME NEW t \in Tasks, Replan(t)
      PROVE  WaitInv'
  BY <1>7, PartialReplanWaits DEF Replan
<1>8. QED
  BY <1>1, <1>2, <1>3, <1>4, <1>5, <1>6, <1>7 DEF Next

\* With such a caller nothing waits in vain, through every chain of failures
\* and replans: what is pending waits for a task of the plan that is not done.
THEOREM NothingWaitsInVain ==
  /\ {"fails_running", "fresh_ids", "known_deps"} \subseteq Discipline
  /\ ChainsOnly
  /\ Spec
  => []WaitingHasReason
<1>1. Init => ReadyTasksAreDue /\ WaitInv
  BY DEF Init, ReadyTasksAreDue, WaitInv, WaitingHasReason, NoSelfReplan, Tasks
<1>2. CASE /\ {"fails_running", "fresh_ids", "known_deps"} \subseteq Discipline
           /\ ChainsOnly
  <2>1. IInv /\ ReadyTasksAreDue /\ [Next]_vars => ReadyTasksAreDue'
    BY <1>2, ReadyStep
  <2>2. IInv /\ ReadyTasksAreDue /\ WaitInv /\ [Next]_vars => WaitInv'
    BY <1>2, WaitStep
  <2>3. WaitInv => WaitingHasReason
    BY DEF WaitInv
  <2>4. QED
    BY <1>1, <2>1, <2>2, <2>3, InitInv, NextInv, PTL DEF Spec
<1>3. QED
  BY <1>2
-----------------------------------------------------------------------------
\* With a caller that reports failures of running tasks only and takes no id of
\* another task, "COMPLETED tasks" stay "intact" (partial_replan).
THEOREM CompletedTasksStay ==
  {"fails_running", "fresh_ids"} \subseteq Discipline /\ Spec
    => CompletedStaysCompleted
<1> DEFINE Stay ==
      \A t \in Tasks :
        status[t] = "COMPLETED" => t \in Tasks' /\ status'[t] = "COMPLETED"
<1>1. ASSUME {"fails_running", "fresh_ids"} \subseteq Discipline, IInv, [Next]_vars
      PROVE  [Stay]_vars
  <2>1. CASE UNCHANGED vars
    BY <2>1
  <2>2. ASSUME NEW a \in Addable, AddTask(a) PROVE Stay
    <3> DEFINE ids == Tasks \cup {a.id}
               st == [t \in ids |-> IF t = a.id THEN "PENDING" ELSE status[t]]
    <3>1. st \in [ids -> Status] /\ DOMAIN st = ids
      BY <1>1 DEF IInv, TypeOK, Status
    <3>2. status' = Refresh(st, deps') /\ \A t \in Tasks : st[t] = status[t]
      BY <2>2 DEF AddTask
    <3> HIDE DEF st
    <3>3. QED
      BY <3>1, <3>2, RefreshType DEF Tasks
  <2>3. CASE GetReadyTasks
    BY <1>1, <2>3, RefreshType DEF GetReadyTasks, IInv, TypeOK, Tasks
  <2>4. ASSUME NEW t \in Tasks, StartTask(t) PROVE Stay
    BY <2>4 DEF StartTask, Tasks
  <2>5. ASSUME NEW t \in Tasks, MarkCompleted(t) PROVE Stay
    <3> DEFINE st == [status EXCEPT ![t] = "COMPLETED"]
    <3>1. st \in [Tasks -> Status] /\ DOMAIN st = Tasks
      BY <1>1 DEF IInv, TypeOK, Status
    <3>2. /\ status' = Refresh(st, deps)
          /\ \A u \in Tasks : status[u] = "COMPLETED" => st[u] = "COMPLETED"
      BY <2>5 DEF MarkCompleted
    <3> HIDE DEF st
    <3>3. QED
      BY <3>1, <3>2, RefreshType DEF Tasks
  <2>6. ASSUME NEW t \in Tasks, Fail(t) PROVE Stay
    BY <1>1, <2>6 DEF Fail, MarkFailed, Tasks
  <2>7. ASSUME NEW failed \in Tasks, NEW items \in Replacements,
               NewIds(failed, items) \cap (Tasks \ {failed}) = {},
               PartialReplan(failed, items)
        PROVE  Stay
    <3> DEFINE new == NewIds(failed, items)
               ids == (Tasks \ {failed}) \cup new
               st == [t \in ids |-> IF t \in new THEN "PENDING" ELSE status[t]]
    <3>1. st \in [ids -> Status] /\ DOMAIN st = ids
      BY <1>1 DEF IInv, TypeOK, Status
    <3>2. status' = Refresh(st, deps') /\ status[failed] = "NEEDS_REPLAN"
      BY <2>7 DEF PartialReplan
    <3>3. \A t \in Tasks \ {failed} : t \in ids /\ st[t] = status[t]
      BY <2>7
    <3> HIDE DEF st, ids
    <3>4. QED
      BY <3>1, <3>2, <3>3, RefreshType DEF Tasks
  <2>8. QED
    BY <1>1, <2>1, <2>2, <2>3, <2>4, <2>5, <2>6, <2>7 DEF Next, Replan
<1>2. CASE {"fails_running", "fresh_ids"} \subseteq Discipline
  <2>1. IInv /\ [Next]_vars => [Stay]_vars
    BY <1>1, <1>2
  <2>2. QED
    BY <2>1, InitInv, NextInv, PTL DEF Spec, CompletedStaysCompleted
<1>3. QED
  BY <1>2
-----------------------------------------------------------------------------
(***************************************************************************)
(* Deadlock.  The replacements of one task also have different ids: two    *)
(* with the same one would leave a task that waits for itself.             *)
(***************************************************************************)

\* No tasks wait for each other in a circle: among any tasks of the plan there
\* is one that waits for none of them.
Grounded == \A S \in SUBSET Tasks : S # {} => \E t \in S : deps[t] \cap S = {}

\* The least of some positions.
LEMMA LeastElement ==
  ASSUME NEW S, S \subseteq Nat, S # {}
  PROVE  \E i \in S : \A j \in S : i <= j
<1>1. PICK i \in S : \A j \in S : ~(<<j, i>> \in OpToRel(<, Nat))
  BY NatLessThanWellFounded, WFMin
<1>2. \A j \in S : ~(j < i)
  BY <1>1 DEF OpToRel
<1>3. QED
  BY <1>2

\* A task that is added waits for older ones.
LEMMA AddTaskGrounded ==
  ASSUME WaitInv, Grounded, NEW a \in Addable, a.deps \subseteq Tasks, AddTask(a)
  PROVE  Grounded'
<1>1. Tasks' = Tasks \cup {a.id}
  BY DEF AddTask, Refresh, Tasks
<1>2. /\ deps'[a.id] = a.deps
      /\ \A t \in Tasks : deps'[t] = deps[t]
      /\ a.id \notin Tasks
  BY DEF AddTask
<1>3. ASSUME NEW S \in SUBSET (Tasks \cup {a.id}), S # {}
      PROVE  \E t \in S : deps'[t] \cap S = {}
  <2>1. CASE S \cap Tasks = {}
    <3>1. a.id \in S /\ deps'[a.id] \cap S = {}
      BY <1>2, <1>3, <2>1
    <3>2. QED
      BY <3>1
  <2>2. CASE S \cap Tasks # {}
    <3>1. PICK t \in S \cap Tasks : deps[t] \cap (S \cap Tasks) = {}
      BY <2>2 DEF Grounded
    <3>2. deps'[t] \subseteq Tasks
      BY <1>2, <3>1 DEF WaitInv, WaitingHasReason
    <3>3. QED
      BY <1>2, <3>1, <3>2
  <2>3. QED
    BY <2>1, <2>2
<1>4. QED
  BY <1>1, <1>3 DEF Grounded

\* A chain with different ids takes the place of the failed task: the first
\* waits for what that task waited for, and who waited for it waits for the
\* last.
LEMMA PartialReplanGrounded ==
  ASSUME ChainsOnly, WaitInv, Grounded, NEW failed \in Tasks,
         NEW items \in Replacements, PartialReplan(failed, items),
         NewIds(failed, items) \cap (Tasks \ {failed}) = {},
         \A i, j \in 1 .. Len(items) :
           NewId(failed, items, i) = NewId(failed, items, j) => i = j
  PROVE  Grounded'
<1> DEFINE new == NewIds(failed, items)
           old == Tasks \ {failed}
           place(i) == NewId(failed, items, i)
<1>1. status[failed] = "NEEDS_REPLAN" /\ Tasks' = old \cup new
  BY DEF PartialReplan, Refresh, Tasks
<1>2. Len(items) \in Nat \ {0}
  BY DEF ChainsOnly
<1>3. \A i \in 1 .. Len(items) : place(i) \in new
  BY DEF NewIds
<1>4. \A t \in Tasks : deps[t] \subseteq Tasks
  BY DEF WaitInv, WaitingHasReason
<1>5. failed \notin deps[failed]
  BY <1>1 DEF WaitInv, NoSelfReplan
<1>6. \A t \in old : deps'[t] = RedirectedDeps(failed, items, t)
  BY DEF PartialReplan
<1>7. ASSUME NEW i \in 1 .. Len(items)
      PROVE  deps'[place(i)] = IF i = 1 THEN deps[failed] ELSE {place(i - 1)}
  <2>1. deps'[place(i)] =
          NewDeps(failed, items, LastWith(failed, items, place(i)))
    BY <1>3 DEF PartialReplan
  <2>2. LastWith(failed, items, place(i)) = i
    <3>1. \A j \in i + 1 .. Len(items) : place(j) # place(i)
      BY <1>2
    <3>2. \A j \in 1 .. Len(items) : place(j) = place(i) => j = i
      OBVIOUS
    <3>3. QED
      BY <3>1, <3>2 DEF LastWith
  <2>3. items[i].deps = DefaultDeps
    BY DEF ChainsOnly
  <2>4. QED
    BY <2>1, <2>2, <2>3 DEF NewDeps
<1>8. ASSUME NEW S \in SUBSET (old \cup new), S # {}
      PROVE  \E t \in S : deps'[t] \cap S = {}
  <2>1. CASE S \cap new = {}
    <3>1. S \subseteq old
      BY <1>8, <2>1
    <3>2. PICK t \in S : deps[t] \cap S = {}
      BY <1>8, <3>1 DEF Grounded
    <3>3. place(Len(items)) \notin S
      BY <1>2, <1>3, <2>1
    <3>4. deps'[t] \cap S = {}
      BY <1>6, <3>1, <3>2, <3>3 DEF RedirectedDeps
    <3>5. QED
      BY <3>4
  <2>2. CASE S \cap new # {}
    <3> DEFINE before == (S \cap old) \cup {failed}
    <3>1. PICK t \in before : deps[t] \cap before = {}
      BY DEF Grounded
    <3>2. S \subseteq before \cup new
      BY <1>8
    <3>3. CASE t # failed
      <4>1. t \in S /\ t \in old /\ failed \notin deps[t]
        BY <3>1, <3>3
      <4>2. deps'[t] = deps[t]
        BY <1>6, <4>1 DEF RedirectedDeps
      <4>3. deps[t] \cap new = {}
        BY <1>4, <4>1
      <4>4. deps'[t] \cap S = {}
        BY <3>1, <3>2, <4>2, <4>3
      <4>5. QED
        BY <4>1, <4>4
    <3>4. CASE t = failed
      <4> DEFINE Places == {i \in 1 .. Len(items) : place(i) \in S}
      <4>1. Places # {} /\ Places \subseteq Nat
        BY <1>2, <2>2 DEF NewIds
      <4> HIDE DEF Places
      <4>2. PICK i \in Places : \A j \in Places : i <= j
        BY <4>1, LeastElement
      <4> USE DEF Places
      <4>3. place(i) \in S /\ i \in 1 .. Len(items)
        BY <4>2
      <4>4. CASE i = 1
        <5>1. deps'[place(i)] = deps[failed]
          BY <1>7, <4>3, <4>4
        <5>2. deps[failed] \cap new = {}
          BY <1>4, <1>5
        <5>3. deps'[place(i)] \cap S = {}
          BY <3>1, <3>2, <3>4, <5>1, <5>2
        <5>4. QED
          BY <4>3, <5>3
      <4>5. CASE i # 1
        <5>1. i - 1 \in 1 .. Len(items) /\ ~(i <= i - 1)
          BY <1>2, <4>3, <4>5
        <5>2. i - 1 \notin Places
          BY <4>2, <5>1
        <5>3. place(i - 1) \notin S
          BY <5>1, <5>2
        <5>4. deps'[place(i)] \cap S = {}
          BY <1>7, <4>3, <4>5, <5>3
        <5>5. QED
          BY <4>3, <5>4
      <4>6. QED
        BY <4>4, <4>5
    <3>5. QED
      BY <3>3, <3>4
  <2>3. QED
    BY <2>1, <2>2
<1>9. QED
  BY <1>1, <1>8 DEF Grounded

\* No step closes a circle.
LEMMA GroundedStep ==
  ASSUME {"fresh_ids", "known_deps", "distinct_ids"} \subseteq Discipline,
         ChainsOnly, WaitInv, Grounded, [Next]_vars
  PROVE  Grounded'
<1>1. ASSUME Tasks' = Tasks, UNCHANGED deps PROVE Grounded'
  BY <1>1 DEF Grounded
<1>2. CASE UNCHANGED vars
  BY <1>1, <1>2 DEF vars, Tasks
<1>3. ASSUME NEW a \in Addable, a.deps \subseteq Tasks, AddTask(a)
      PROVE  Grounded'
  BY <1>3, AddTaskGrounded
<1>4. CASE GetReadyTasks
  BY <1>1, <1>4 DEF GetReadyTasks, Refresh, Tasks
<1>5. ASSUME NEW t \in Tasks, StartTask(t) \/ MarkCompleted(t) \/ Fail(t)
      PROVE  Grounded'
  BY <1>1, <1>5 DEF StartTask, MarkCompleted, Fail, MarkFailed, Refresh, Tasks
<1>6. ASSUME NEW t \in Tasks, Replan(t)
      PROVE  Grounded'
  BY <1>6, PartialReplanGrounded DEF Replan
<1>7. QED
  BY <1>2, <1>3, <1>4, <1>5, <1>6 DEF Next

\* Where no tasks wait in a circle, one that waits, waits for one that does not.
LEMMA GroundedHasWork ==
  ASSUME TypeOK, WaitingHasReason, Grounded
  PROVE  SomethingToDo /\ DeadlockIsBlocked
<1> DEFINE waiting == {t \in Tasks : status[t] = "PENDING"}
<1>1. ASSUME waiting # {}
      PROVE  \E d \in Tasks :
               status[d] \in {"READY", "RUNNING", "NEEDS_REPLAN", "ESCALATED"}
  <2>1. PICK t \in waiting : deps[t] \cap waiting = {}
    BY <1>1 DEF Grounded
  <2>2. PICK d \in deps[t] : status[d] # "COMPLETED"
    BY <2>1 DEF WaitingHasReason
  <2>3. d \in Tasks /\ status[d] # "PENDING"
    BY <2>1, <2>2 DEF WaitingHasReason
  <2>4. QED
    BY <2>2, <2>3 DEF TypeOK, Status
<1>2. SomethingToDo
  BY <1>1 DEF SomethingToDo, IsBlocked, IsAllCompleted, TypeOK, Status
<1>3. DeadlockIsBlocked
  BY <1>1 DEF DeadlockIsBlocked
<1>4. QED
  BY <1>2, <1>3

\* Such a caller never finds all tasks waiting for each other, through every
\* chain of failures and replans: until the plan is completed or with a human,
\* some task is to be started, reported or replaced.
THEOREM PlansNeverDeadlock ==
  /\ {"fails_running", "fresh_ids", "known_deps", "distinct_ids"}
       \subseteq Discipline
  /\ ChainsOnly
  /\ Spec
  => [](SomethingToDo /\ DeadlockIsBlocked)
<1>1. Init => ReadyTasksAreDue /\ WaitInv /\ Grounded
  BY DEF Init, ReadyTasksAreDue, WaitInv, WaitingHasReason, NoSelfReplan,
         Grounded, Tasks
<1>2. CASE /\ {"fails_running", "fresh_ids", "known_deps", "distinct_ids"}
                \subseteq Discipline
           /\ ChainsOnly
  <2>1. IInv /\ ReadyTasksAreDue /\ [Next]_vars => ReadyTasksAreDue'
    BY <1>2, ReadyStep
  <2>2. IInv /\ ReadyTasksAreDue /\ WaitInv /\ [Next]_vars => WaitInv'
    BY <1>2, WaitStep
  <2>3. WaitInv /\ Grounded /\ [Next]_vars => Grounded'
    BY <1>2, GroundedStep
  <2>4. IInv /\ WaitInv /\ Grounded => SomethingToDo /\ DeadlockIsBlocked
    BY GroundedHasWork DEF IInv, WaitInv
  <2>5. QED
    BY <1>1, <2>1, <2>2, <2>3, <2>4, InitInv, NextInv, PTL DEF Spec
<1>3. QED
  BY <1>2
-----------------------------------------------------------------------------
(***************************************************************************)
(* Progress.  What a plan may still cost shrinks with every step but the   *)
(* adding of tasks.                                                        *)
(***************************************************************************)

\* A refresh after a step that takes the tasks forward takes them forward.
LEMMA RefreshForward ==
  ASSUME TypeOK, NEW ids, Tasks' = ids, NEW st \in [ids -> Status],
         status' = Refresh(st, deps'), NEW t \in Tasks \cap ids,
         replan_count'[t] = replan_count[t], max_replans'[t] = max_replans[t],
         st[t] # status[t] => Stage(st[t]) > Stage(status[t])
  PROVE  OnlyForward(t)
<1>1. DOMAIN st = ids
  OBVIOUS
<1>2. \/ status'[t] = st[t]
      \/ st[t] = "PENDING" /\ status'[t] = "READY"
  BY <1>1, RefreshType
<1>3. \A s : Stage(s) \in 0 .. 3
  BY DEF Stage
<1>4. Stage("READY") > Stage("PENDING") /\ \A s : ~(Stage("PENDING") > Stage(s))
  BY DEF Stage
<1>5. status'[t] # status[t] => Stage(status'[t]) > Stage(status[t])
  BY <1>2, <1>3, <1>4
<1>6. QED
  BY <1>5 DEF OnlyForward, ReplansLeft

LEMMA ForwardStep ==
  ASSUME {"fails_running", "fresh_ids"} \subseteq Discipline, TypeOK, Next
  PROVE  \/ \A t \in Tasks : OnlyForward(t)
         \/ \E failed \in Tasks :
              /\ status[failed] = "NEEDS_REPLAN"
              /\ \A t \in Tasks \ {failed} : OnlyForward(t)
              /\ \A t \in Tasks' : t \notin Tasks \ {failed} =>
                   ReplansLeft(t)' < ReplansLeft(failed)
<1>1. ASSUME NEW a \in Addable, AddTask(a)
      PROVE  \A t \in Tasks : OnlyForward(t)
  <2> DEFINE ids == Tasks \cup {a.id}
             st == [t \in ids |-> IF t = a.id THEN "PENDING" ELSE status[t]]
  <2>1. st \in [ids -> Status] /\ \A t \in Tasks : st[t] = status[t]
    BY <1>1 DEF TypeOK, Status, AddTask
  <2>2. /\ status' = Refresh(st, deps')
        /\ \A t \in Tasks : /\ replan_count'[t] = replan_count[t]
                            /\ max_replans'[t] = max_replans[t]
    BY <1>1 DEF AddTask
  <2> HIDE DEF st
  <2>3. Tasks' = ids
    BY <2>1, <2>2 DEF Refresh, Tasks
  <2>4. QED
    BY <2>1, <2>2, <2>3, RefreshForward
<1>2. CASE GetReadyTasks
  <2>1. status \in [Tasks -> Status] /\ Tasks' = Tasks
    BY <1>2 DEF TypeOK, GetReadyTasks, Refresh, Tasks
  <2>2. status' = Refresh(status, deps') /\ UNCHANGED <<replan_count, max_replans>>
    BY <1>2 DEF GetReadyTasks
  <2>3. QED
    BY <2>1, <2>2, RefreshForward
<1>3. ASSUME NEW t \in Tasks, StartTask(t)
      PROVE  \A u \in Tasks : OnlyForward(u)
  BY <1>3 DEF StartTask, Tasks, OnlyForward, ReplansLeft, Stage
<1>4. ASSUME NEW t \in Tasks, MarkCompleted(t)
      PROVE  \A u \in Tasks : OnlyForward(u)
  <2> DEFINE st == [status EXCEPT ![t] = "COMPLETED"]
  <2>1. st \in [Tasks -> Status]
    BY DEF TypeOK, Status
  <2>2. /\ status' = Refresh(st, deps')
        /\ UNCHANGED <<replan_count, max_replans>>
    BY <1>4 DEF MarkCompleted
  <2>3. \A u \in Tasks : st[u] # status[u] => Stage(st[u]) > Stage(status[u])
    BY <1>4 DEF TypeOK, MarkCompleted, Stage
  <2> HIDE DEF st
  <2>4. Tasks' = Tasks
    BY <2>1, <2>2 DEF Refresh, Tasks
  <2>5. QED
    BY <2>1, <2>2, <2>3, <2>4, RefreshForward
<1>5. ASSUME NEW t \in Tasks, Fail(t)
      PROVE  \A u \in Tasks : OnlyForward(u)
  BY <1>5 DEF Fail, MarkFailed, Tasks, OnlyForward, ReplansLeft, Stage
<1>6. ASSUME NEW failed \in Tasks, NEW items \in Replacements,
             NewIds(failed, items) \cap (Tasks \ {failed}) = {},
             PartialReplan(failed, items)
      PROVE  /\ status[failed] = "NEEDS_REPLAN"
             /\ \A t \in Tasks \ {failed} : OnlyForward(t)
             /\ \A t \in Tasks' : t \notin Tasks \ {failed} =>
                  ReplansLeft(t)' < ReplansLeft(failed)
  <2> DEFINE new == NewIds(failed, items)
             ids == (Tasks \ {failed}) \cup new
             st == [t \in ids |-> IF t \in new THEN "PENDING" ELSE status[t]]
  <2>1. st \in [ids -> Status] /\ \A t \in Tasks \ {failed} : st[t] = status[t]
    BY <1>6 DEF TypeOK, Status
  <2>2. /\ status[failed] = "NEEDS_REPLAN"
        /\ status' = Refresh(st, deps')
        /\ \A t \in Tasks \ {failed} : /\ replan_count'[t] = replan_count[t]
                                       /\ max_replans'[t] = max_replans[t]
        /\ \A t \in new : /\ replan_count'[t] = replan_count[failed] + 1
                          /\ max_replans'[t] = max_replans[failed]
    BY <1>6 DEF PartialReplan, Counted
  <2> HIDE DEF st
  <2>3. Tasks' = ids
    BY <2>1, <2>2 DEF Refresh, Tasks
  <2>4. \A t \in Tasks \ {failed} : OnlyForward(t)
    BY <2>1, <2>2, <2>3, RefreshForward
  <2>5. replan_count[failed] \in Nat /\ max_replans[failed] \in Nat
    BY DEF TypeOK
  <2>6. \A t \in new : ReplansLeft(t)' < ReplansLeft(failed)
    BY <2>2, <2>5 DEF ReplansLeft
  <2>7. QED
    BY <2>2, <2>3, <2>4, <2>6
<1>7. QED
  BY <1>1, <1>2, <1>3, <1>4, <1>5, <1>6 DEF Next, Replan

\* With a caller that reports failures of running tasks only and takes no id of
\* another task, no step undoes work: every operation takes tasks forward, and a
\* replan leaves tasks that may be replanned less often.
THEOREM WorkGetsUsedUp ==
  {"fails_running", "fresh_ids"} \subseteq Discipline /\ Spec => WorkIsUsedUp
<1> DEFINE Used ==
      \/ \A t \in Tasks : OnlyForward(t)
      \/ \E failed \in Tasks :
           /\ status[failed] = "NEEDS_REPLAN"
           /\ \A t \in Tasks \ {failed} : OnlyForward(t)
           /\ \A t \in Tasks' : t \notin Tasks \ {failed} =>
                ReplansLeft(t)' < ReplansLeft(failed)
<1>1. CASE {"fails_running", "fresh_ids"} \subseteq Discipline
  <2>1. TypeOK /\ [Next]_vars => [Used]_vars
    BY <1>1, ForwardStep
  <2>2. QED
    BY <2>1, PlanTypeCorrect, PTL DEF Spec, WorkIsUsedUp
<1>2. QED
  BY <1>1
=============================================================================
