------------------------ MODULE MCPlanStateMachine ------------------------
(***************************************************************************)
(* Small plans for TLC: a chain of two tasks that join in a third.         *)
(***************************************************************************)
EXTENDS PlanStateMachine

\* Ids are sequences: a name, then <<replan_count, position>> per replan.
MCAltId(t, n, i) == t \o <<n, i>>

Task(name, names, limit) ==
  [id |-> <<name>>, deps |-> {<<n>> : n \in names}, max_replans |-> limit]

Plain(i) == [id |-> DefaultId, deps |-> DefaultDeps]

ThreeTasks ==
  {Task("T1", {}, 2), Task("T2", {"T1"}, 2), Task("T3", {"T1", "T2"}, 1)}
TwoTasks == {Task("T1", {}, 2), Task("T2", {"T1"}, 2)}

\* One step, two steps, or the failed task's own id again.
OneOrTwo ==
  {<<Plain(1)>>, <<Plain(1), Plain(2)>>}
OwnName ==
  OneOrTwo \cup {<<[id |-> <<"T2">>, deps |-> DefaultDeps]>>}
\* A replacement that takes the name of the first task.
TakenName == {<<[id |-> <<"T1">>, deps |-> DefaultDeps]>>}
\* The failed step is dropped.
Dropped == {<<>>}
=============================================================================
