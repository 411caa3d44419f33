-------------------------- MODULE PlanStateMachine --------------------------
(***************************************************************************)
(* The sub-task graph of the planner (capabilities/planner_recovery/       *)
(* planner_recovery_engine.py).  A caller adds tasks, starts the ready     *)
(* ones, reports them completed or failed, and replaces a failed task by   *)
(* other tasks; the machine decides which tasks are ready and when a       *)
(* failing branch is handed to a human.                                    *)
(*                                                                         *)
(* An operation refused for a task it does not know or its status changes  *)
(* nothing and is no step.  The caller's items are well-formed: on one     *)
(* that is not, partial_replan raises after it has removed the failed task *)
(* (and added the items before), which is left out.  The machine checks    *)
(* little of what it is told, so the caller's habits are a constant of the *)
(* model: Discipline names the rules the caller keeps.                     *)
(***************************************************************************)
EXTENDS Integers, Sequences, FiniteSets

CONSTANTS
  Addable,       \* the tasks the caller adds: records [id, deps, max_replans]
  Replacements,  \* the replacement_subtasks it passes: sequences of [id, deps]
  DefaultId, DefaultDeps,  \* an item without "task_id", without "dependencies"
  AltId(_, _, _),          \* f"{failed}_alt_{replan_count}_{idx+1}"
  Discipline

\* fails_running: failures are reported of running tasks only.
\* fresh_ids: a replacement never takes the id of another task of the plan.
\* known_deps: a task is added after the tasks it depends on.
\* adds_once: a task that was replaced is not added again.
\* distinct_ids: the replacements of a task have different ids.
Rules ==
  {"fails_running", "fresh_ids", "known_deps", "adds_once", "distinct_ids"}

ASSUME PlanConstants ==
  /\ Discipline \subseteq Rules
  /\ \A a \in Addable : a.max_replans \in Nat

Status ==
  {"PENDING", "READY", "RUNNING", "COMPLETED", "NEEDS_REPLAN", "ESCALATED"}

VARIABLES
  status,        \* the tasks of the plan are the domain of these functions
  deps,          \* SubTask.dependencies
  replan_count, max_replans,
  added          \* history: the ids of the tasks the caller has added

vars == <<status, deps, replan_count, max_replans, added>>

Tasks == DOMAIN status

\* Types: four functions over the tasks of the plan.
TypeOK ==
  /\ status \in [Tasks -> Status]
  /\ DOMAIN deps = Tasks
  /\ replan_count \in [Tasks -> Nat]
  /\ max_replans \in [Tasks -> Nat]

Init ==
  /\ status = [t \in {} |-> "PENDING"]
  /\ deps = [t \in {} |-> {}]
  /\ replan_count = [t \in {} |-> 0]
  /\ max_replans = [t \in {} |-> 0]
  /\ added = {}
-----------------------------------------------------------------------------
\* All dependencies of t are tasks of the plan and completed.
Satisfied(t, st, dp) ==
  \A d \in dp[t] : d \in DOMAIN st /\ st[d] = "COMPLETED"

\* Mutant: one completed dependency is enough.
RefreshOnAnyDependency(st, dp) ==
  [t \in DOMAIN st |->
     IF /\ st[t] = "PENDING"
        /\ dp[t] = {} \/ \E d \in dp[t] \cap DOMAIN st : st[d] = "COMPLETED"
     THEN "READY" ELSE st[t]]

\* Mutant: the status of the task is not looked at.
RefreshAlways(st, dp) ==
  [t \in DOMAIN st |-> IF Satisfied(t, st, dp) THEN "READY" ELSE st[t]]

\* _refresh_task_states
Refresh(st, dp) ==
  [t \in DOMAIN st |->
     IF st[t] = "PENDING" /\ Satisfied(t, st, dp) THEN "READY" ELSE st[t]]

AddTask(a) ==
  /\ a.id \notin Tasks
  /\ a.id \notin a.deps
  /\ LET ids == Tasks \cup {a.id}
         with(f, v) == [t \in ids |-> IF t = a.id THEN v ELSE f[t]]
     IN /\ deps' = with(deps, a.deps)
        /\ status' = Refresh(with(status, "PENDING"), deps')
        /\ replan_count' = with(replan_count, 0)
        /\ max_replans' = with(max_replans, a.max_replans)
  /\ added' = added \cup {a.id}

GetReadyTasks ==
  /\ status' = Refresh(status, deps)
  /\ UNCHANGED <<deps, replan_count, max_replans, added>>

StartTask(t) ==
  /\ status[t] = "READY"
  /\ status' = [status EXCEPT ![t] = "RUNNING"]
  /\ UNCHANGED <<deps, replan_count, max_replans, added>>

\* Mutant: the tasks that become ready are not noticed.
MarkCompletedWithoutRefresh(t) ==
  /\ status[t] \in {"RUNNING", "READY"}
  /\ status' = [status EXCEPT ![t] = "COMPLETED"]
  /\ UNCHANGED <<deps, replan_count, max_replans, added>>

MarkCompleted(t) ==
  /\ status[t] \in {"RUNNING", "READY"}
  /\ status' = Refresh([status EXCEPT ![t] = "COMPLETED"], deps)
  /\ UNCHANGED <<deps, replan_count, max_replans, added>>

\* Mutant: one replan too many.
MarkFailedOffByOne(t) ==
  /\ status' = [status EXCEPT ![t] =
       IF replan_count[t] <= max_replans[t] THEN "NEEDS_REPLAN" ELSE "ESCALATED"]
  /\ UNCHANGED <<deps, replan_count, max_replans, added>>

\* The status of the task is not looked at.
MarkFailed(t) ==
  /\ status' = [status EXCEPT ![t] =
       IF replan_count[t] < max_replans[t] THEN "NEEDS_REPLAN" ELSE "ESCALATED"]
  /\ UNCHANGED <<deps, replan_count, max_replans, added>>
-----------------------------------------------------------------------------
(***************************************************************************)
(* partial_replan(failed, items).                                          *)
(***************************************************************************)

\* Mutant: the replan is not counted.
Uncounted(failed) == replan_count[failed]

\* The replan of a failed task is counted, for its replacements.
Counted(failed) == replan_count[failed] + 1

\* The id of the i-th replacement.
NewId(failed, items, i) ==
  IF items[i].id = DefaultId THEN AltId(failed, Counted(failed), i)
  ELSE items[i].id

NewIds(failed, items) == {NewId(failed, items, i) : i \in 1 .. Len(items)}

\* Mutant: the id of the previous item is already overwritten.
NewDepsOnItself(failed, items, i) ==
  IF items[i].deps # DefaultDeps THEN items[i].deps
  ELSE IF i = 1 THEN deps[failed]
  ELSE {NewId(failed, items, i)}

\* The i-th replacement waits for what it says, or else for the one before
\* it; the first inherits what the failed task waited for.
NewDeps(failed, items, i) ==
  IF items[i].deps # DefaultDeps THEN items[i].deps
  ELSE IF i = 1 THEN deps[failed]
  ELSE {NewId(failed, items, i - 1)}

\* Mutant: tasks downstream keep waiting for the task that is gone.
KeptDeps(failed, items, t) == deps[t]

\* A task downstream waits for the last replacement instead; with no
\* replacement it keeps waiting for the task that is gone.
RedirectedDeps(failed, items, t) ==
  IF Len(items) > 0 /\ failed \in deps[t]
  THEN (deps[t] \ {failed}) \cup {NewId(failed, items, Len(items))}
  ELSE deps[t]

\* The position that wins when two items share an id.
LastWith(failed, items, t) ==
  CHOOSE i \in 1 .. Len(items) :
    /\ NewId(failed, items, i) = t
    /\ \A j \in i + 1 .. Len(items) : NewId(failed, items, j) # t

PartialReplan(failed, items) ==
  /\ status[failed] = "NEEDS_REPLAN"
  /\ LET new == NewIds(failed, items)
         ids == (Tasks \ {failed}) \cup new
         replaced(f, v) == [t \in ids |-> IF t \in new THEN v ELSE f[t]]
     IN /\ deps' = [t \in ids |->
             IF t \in new THEN NewDeps(failed, items, LastWith(failed, items, t))
             ELSE RedirectedDeps(failed, items, t)]
        /\ status' = Refresh(replaced(status, "PENDING"), deps')
        /\ replan_count' = replaced(replan_count, Counted(failed))
        /\ max_replans' = replaced(max_replans, max_replans[failed])
  /\ UNCHANGED added
-----------------------------------------------------------------------------
IsAllCompleted == Tasks # {} /\ \A t \in Tasks : status[t] = "COMPLETED"

IsBlocked == \E t \in Tasks : status[t] = "ESCALATED"

Fail(t) ==
  /\ "fails_running" \in Discipline => status[t] = "RUNNING"
  /\ MarkFailed(t)

Replan(t) ==
  \E items \in Replacements :
    /\ "fresh_ids" \in Discipline =>
         NewIds(t, items) \cap (Tasks \ {t}) = {}
    /\ "distinct_ids" \in Discipline =>
         \A i, j \in 1 .. Len(items) :
           NewId(t, items, i) = NewId(t, items, j) => i = j
    /\ PartialReplan(t, items)

Next ==
  \/ \E a \in Addable :
       /\ "adds_once" \in Discipline => a.id \notin added
       /\ "known_deps" \in Discipline => a.deps \subseteq Tasks
       /\ AddTask(a)
  \/ GetReadyTasks
  \/ \E t \in Tasks :
       \/ StartTask(t)
       \/ MarkCompleted(t)
       \/ Fail(t)
       \/ Replan(t)

Spec == Init /\ [][Next]_vars

\* The agent's loop: it starts what is ready, ends what it started, one way
\* or the other, and replaces what failed.
Work ==
  \/ GetReadyTasks
  \/ \E t \in Tasks :
       \/ StartTask(t)
       \/ status[t] = "RUNNING" /\ (MarkCompleted(t) \/ MarkFailed(t))
       \/ Replan(t)

FairSpec == Spec /\ WF_vars(Work)
-----------------------------------------------------------------------------
(***************************************************************************)
(* Properties.                                                             *)
(***************************************************************************)

\* A branch is replanned at most max_replans times, however its replacements
\* are named and fail in turn, also when failures are reported late.
ReplansBounded == \A t \in Tasks : replan_count[t] <= max_replans[t]

\* Whatever is ready, running or done has all its dependencies completed,
\* across every replan of the tasks it waits for.
ReadyTasksAreDue ==
  \A t \in Tasks :
    status[t] \in {"READY", "RUNNING", "COMPLETED"} => Satisfied(t, status, deps)

\* Nothing waits in vain: no task depends on one that a replan has removed, and
\* what is pending waits for a task that is not done; nothing that is due stays
\* overlooked (partial_replan, _refresh_task_states and its callers).
WaitingHasReason ==
  \A t \in Tasks :
    /\ deps[t] \subseteq Tasks
    /\ status[t] = "PENDING" => \E d \in deps[t] : status[d] # "COMPLETED"

\* "Preserves all existing COMPLETED tasks intact" (partial_replan), and so
\* does every other operation.
CompletedStaysCompleted ==
  [][\A t \in Tasks :
       status[t] = "COMPLETED" =>
         t \in Tasks' /\ status'[t] = "COMPLETED"]_vars

\* The docstring of is_blocked: "any task is ESCALATED or in deadlock".  It
\* does not hold: the dependent of a task that was replaced by nothing waits
\* for ever, and so does one of two replacements with the same id, which waits
\* for itself; and the plan does not count as blocked.
DeadlockIsBlocked ==
  /\ \E t \in Tasks : status[t] = "PENDING"
  /\ \A t \in Tasks : status[t] \in {"PENDING", "COMPLETED"}
  => IsBlocked

\* The tasks never all wait for each other: until a plan is completed or with a
\* human there is a task to start, to report or to replace.
SomethingToDo ==
  Tasks = {} \/ IsAllCompleted \/ IsBlocked
    \/ \E t \in Tasks : status[t] \in {"READY", "RUNNING", "NEEDS_REPLAN"}

\* How far a task has come, and how often its branch may still be replanned.
Stage(s) ==
  CASE s = "PENDING" -> 0 [] s = "READY" -> 1 [] s = "RUNNING" -> 2 [] OTHER -> 3

ReplansLeft(t) == max_replans[t] - replan_count[t]

\* A step leaves task t as it is or takes it to a later stage.
OnlyForward(t) ==
  /\ t \in Tasks'
  /\ ReplansLeft(t)' = ReplansLeft(t)
  /\ status'[t] # status[t] => Stage(status'[t]) > Stage(status[t])

\* No work is done twice for nothing: a step takes tasks forward only, or it
\* replaces one that failed by tasks that may be replanned less often, and
\* leaves the others alone.  A plan has therefore an end.
WorkIsUsedUp ==
  [][\/ \A t \in Tasks : OnlyForward(t)
     \/ \E failed \in Tasks :
          /\ status[failed] = "NEEDS_REPLAN"
          /\ \A t \in Tasks \ {failed} : OnlyForward(t)
          /\ \A t \in Tasks' : t \notin Tasks \ {failed} =>
               ReplansLeft(t)' < ReplansLeft(failed)]_vars

\* A plan worked on ends completed or with a human: no chain of failures and
\* replans goes on for ever, none leaves a task waiting.
PlanSettles == <>[](Tasks = {} \/ IsAllCompleted \/ IsBlocked)
=============================================================================
