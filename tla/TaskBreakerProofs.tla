------------------------- MODULE TaskBreakerProofs -------------------------
(***************************************************************************)
(* Theorems about the task breaker, for every number of runners and tasks, *)
(* every threshold and every interval.                                     *)
(***************************************************************************)
EXTENDS TaskBreaker, TLAPS

LEMMA FreshType == Fresh \in Breakers /\ NewEntry \in Entry
BY DEF Fresh, Breakers, NewEntry, Entry

LEMMA SucceededType ==
  ASSUME NEW e \in Entry
  PROVE  /\ Succeeded(e) \in Entry
         /\ Succeeded(e).last_probe_time = e.last_probe_time
BY DEF Succeeded, Entry

LEMMA FailedType ==
  ASSUME NEW e \in Entry, NEW time \in Nat
  PROVE  /\ Failed(e, time) \in Entry
         /\ Failed(e, time).last_probe_time \in {e.last_probe_time, time}
BY DEF Failed, Entry

\* A map in which one entry is replaced by another entry is a map.
LEMMA UpdateType ==
  ASSUME NEW m \in Breakers, NEW t \in Task, NEW e \in Entry
  PROVE  /\ [m EXCEPT ![t] = e] \in Breakers
         /\ [m EXCEPT ![t] = e][t] = e
         /\ \A u \in Task : u # t => [m EXCEPT ![t] = e][u] = m[u]
BY DEF Breakers

\* The entry a probe starts from.
LEMMA ProbeEntryType ==
  ASSUME NEW e \in Entry, NEW time \in Nat
  PROVE  LET p == [e EXCEPT !.state = "SLOW_PROBING", !.last_probe_time = time]
         IN p \in Entry /\ p.last_probe_time = time
BY DEF Entry

-----------------------------------------------------------------------------
LEMMA InitType == Init => TypeOK
<1>1. Init => /\ overlapped \in BOOLEAN
              /\ probing \in [Runner -> BOOLEAN]
              /\ dirty \in [Runner -> BOOLEAN]
  BY Zenon DEF Init
<1>2. QED
  BY <1>1, FreshType, BreakerConstants DEF Init, TypeOK, Stage

\* Returning leaves the types of the call's variables intact.
LEMMA ReturnType ==
  ASSUME TypeOK, NEW r \in Runner, Return(r)
  PROVE  /\ pc' \in [Runner -> Stage]
         /\ task' \in [Runner -> Task \cup {NoTask}]
         /\ \A o \in Runner : pc'[o] # "idle" => task'[o] \in Task
         /\ now' \in [Runner -> Nat]
         /\ breakers' \in [Runner -> Breakers]
BY FreshType DEF TypeOK, Return, Goto, Stage

LEMMA AfterSaveType ==
  ASSUME TypeOK, NEW r \in Runner, AfterSave(r), pc[r] # "idle"
  PROVE  /\ pc' \in [Runner -> Stage]
         /\ task' \in [Runner -> Task \cup {NoTask}]
         /\ \A o \in Runner : pc'[o] # "idle" => task'[o] \in Task
         /\ now' \in [Runner -> Nat]
         /\ breakers' \in [Runner -> Breakers]
         /\ probing' \in [Runner -> BOOLEAN]
<1>1. probing' \in [Runner -> BOOLEAN]
  BY DEF AfterSave, TypeOK
<1>2. CASE Return(r)
  BY <1>1, <1>2, ReturnType
<1>3. CASE Goto(r, "running") /\ UNCHANGED <<task, now, breakers>>
  BY <1>1, <1>3 DEF TypeOK, Goto, Stage
<1>4. QED
  BY <1>2, <1>3 DEF AfterSave

LEMMA FaultType ==
  ASSUME TypeOK, NEW r \in Runner, pc[r] # "idle", Fault(task[r])
  PROVE  /\ faults' \in [Task -> Nat]
         /\ faults'[task[r]] = faults[task[r]] + 1
         /\ \A t \in Task : t # task[r] => faults'[t] = faults[t]
BY DEF TypeOK, Fault

LEMMA StepType == TypeOK /\ [Next]_vars => TypeOK'
<1> SUFFICES ASSUME TypeOK, [Next]_vars PROVE TypeOK'
  OBVIOUS
<1> USE DEF Stage, failures
<1>1. CASE UNCHANGED vars
  BY <1>1 DEF TypeOK, vars, files, call, handles, history
<1>2. CASE Tick
  BY <1>2 DEF TypeOK, Tick, files, call, handles, history
<1>3. ASSUME NEW r \in Runner, NEW t \in Task, Call(r, t) PROVE TypeOK'
  <2>1. overlapped' \in BOOLEAN
    BY <1>3, Zenon DEF Call, TypeOK
  <2>2. QED
    BY <1>3, <2>1 DEF TypeOK, Call, Goto, files, handles
<1>4. ASSUME NEW r \in Runner, Load(r) PROVE TypeOK'
  <2>1. task[r] \in Task /\ state_file \in Breakers /\ state_file[task[r]] \in Entry /\ now[r] \in Nat
    BY <1>4 DEF Load, TypeOK, Breakers
  <2>2. unspaced[task[r]] + Early(task[r], now[r]) \in Nat
    BY <2>1 DEF Early, TypeOK
  <2>3. recent' \in [Task -> Nat]
    BY <1>4, <2>1 DEF Load, TypeOK
  <2>4. unspaced' \in [Task -> Nat]
    BY <1>4, <2>2 DEF Load, TypeOK
  <2>5. probing' \in [Runner -> BOOLEAN]
    BY <1>4, Zenon DEF Load, TypeOK
  <2>6. pc' \in [Runner -> Stage] /\ \A o \in Runner : pc'[o] # "idle" => task'[o] \in Task
    BY <1>4, <2>1 DEF Load, TypeOK, Goto
  <2>7. breakers' \in [Runner -> Breakers]
    <3>1. ASSUME NEW p, p = [state_file[task[r]] EXCEPT !.state = "SLOW_PROBING",
                                                        !.last_probe_time = now[r]]
          PROVE  [state_file EXCEPT ![task[r]] = p] \in Breakers
      BY <2>1, <3>1, ProbeEntryType, UpdateType
    <3>2. [state_file EXCEPT ![task[r]] =
             [@ EXCEPT !.state = "SLOW_PROBING", !.last_probe_time = now[r]]] \in Breakers
      BY <3>1
    <3>3. QED
      BY <1>4, <2>1, <3>2 DEF Load, TypeOK
  <2>8. QED
    BY <1>4, <2>3, <2>4, <2>5, <2>6, <2>7 DEF Load, TypeOK, files, handles
<1>13. ASSUME NEW r \in Runner, LoadFails(r) PROVE TypeOK'
  <2>1. task[r] \in Task /\ now[r] \in Nat
    BY <1>13 DEF LoadFails, TypeOK
  <2>2. unspaced[task[r]] + Early(task[r], now[r]) \in Nat
    BY <2>1 DEF Early, TypeOK
  <2>3. unspaced' \in [Task -> Nat] /\ breakers' \in [Runner -> Breakers]
    BY <1>13, <2>2, FreshType DEF LoadFails, TypeOK
  <2>4. pc' \in [Runner -> Stage] /\ \A o \in Runner : pc'[o] # "idle" => task'[o] \in Task
    BY <1>13, <2>1 DEF LoadFails, TypeOK, Goto
  <2>5. QED
    BY <1>13, <2>3, <2>4 DEF LoadFails, TypeOK, files, handles
<1>5. ASSUME NEW r \in Runner, ReturnBlocked(r) PROVE TypeOK'
  BY <1>5, ReturnType DEF TypeOK, ReturnBlocked, files, handles, history
<1>6. ASSUME NEW r \in Runner, Succeed(r) \/ Fail(r) PROVE TypeOK'
  <2>1. task[r] \in Task /\ breakers[r] \in Breakers /\ breakers[r][task[r]] \in Entry /\ now[r] \in Nat
    BY <1>6 DEF Succeed, Fail, TypeOK, Breakers
  <2>2. PICK e \in Entry : breakers' = [breakers EXCEPT ![r] = [breakers[r] EXCEPT ![task[r]] = e]]
    BY <1>6, <2>1, SucceededType, FailedType DEF Succeed, Fail
  <2>3. breakers' \in [Runner -> Breakers]
    <3> DEFINE m == [breakers[r] EXCEPT ![task[r]] = e]
    <3>1. m \in Breakers
      BY <2>1, UpdateType
    <3>2. breakers \in [Runner -> Breakers]
      BY DEF TypeOK
    <3> HIDE DEF m
    <3>3. breakers' = [breakers EXCEPT ![r] = m]
      BY <2>2 DEF m
    <3>4. QED
      BY <3>1, <3>2, <3>3
  <2>4. streak' \in [Task -> Nat] /\ recent' \in [Task -> Nat]
    BY <1>6, <2>1 DEF Succeed, Fail, TypeOK
  <2>5. pc' \in [Runner -> Stage] /\ \A o \in Runner : pc'[o] # "idle" => task'[o] \in Task
    BY <1>6, <2>1 DEF Succeed, Fail, TypeOK, Goto
  <2>6. QED
    BY <1>6, <2>3, <2>4, <2>5 DEF Succeed, Fail, TypeOK, files, handles
<1>7. ASSUME NEW r \in Runner, OpenTemp(r) PROVE TypeOK'
  <2>1. dirty' \in [Runner -> BOOLEAN]
    BY <1>7, Zenon DEF OpenTemp, TypeOK
  <2>2. QED
    BY <1>7, <2>1, FreshType DEF TypeOK, OpenTemp, Goto, call, history
<1>8. ASSUME NEW r \in Runner, WriteTemp(r) PROVE TypeOK'
  <2>1. dirty' \in [Runner -> BOOLEAN]
    BY <1>8, Zenon DEF WriteTemp, TypeOK
  <2>2. PICK content \in {breakers[r], Fresh} :
           /\ temp_file' = IF fd[r] = "temp" THEN content ELSE temp_file
           /\ state_file' = IF fd[r] = "state" THEN content ELSE state_file
    BY <1>8 DEF WriteTemp
  <2>3. temp_file' \in Breakers \cup {NoFile} /\ state_file' \in Breakers
    BY <2>2, FreshType DEF TypeOK
  <2>4. QED
    BY <1>8, <2>1, <2>3 DEF TypeOK, WriteTemp, Goto, call, history
<1>9. ASSUME NEW r \in Runner, Replace(r) PROVE TypeOK'
  <2>1. pc[r] # "idle" /\ AfterSave(r)
    BY <1>9 DEF Replace
  <2>2. state_file' \in Breakers /\ temp_file' \in Breakers \cup {NoFile}
    BY <1>9 DEF Replace, TypeOK, files
  <2>3. fd' \in [Runner -> {"none", "temp", "state", "unlinked"}]
    BY <1>9 DEF Replace, TypeOK
  <2>4. QED
    BY <1>9, <2>1, <2>2, <2>3, AfterSaveType DEF TypeOK, Replace, history
<1>10. ASSUME NEW r \in Runner, SaveError(r) PROVE TypeOK'
  <2>1. dirty' \in [Runner -> BOOLEAN]
    BY <1>10, Zenon DEF SaveError, TypeOK
  <2>2. pc[r] # "idle" /\ AfterSave(r)
    BY <1>10 DEF SaveError
  <2>3. faults' \in [Task -> Nat]
    BY <1>10, <2>2, FaultType DEF SaveError
  <2>4. QED
    BY <1>10, <2>1, <2>2, <2>3, AfterSaveType DEF TypeOK, SaveError, files, history
<1>11. ASSUME NEW r \in Runner, Crash(r) PROVE TypeOK'
  <2>1. dirty' \in [Runner -> BOOLEAN] /\ probing' \in [Runner -> BOOLEAN]
    BY <1>11, Zenon DEF Crash, TypeOK
  <2>2. faults' \in [Task -> Nat]
    BY <1>11, FaultType DEF Crash
  <2>3. QED
    BY <1>11, <2>1, <2>2, ReturnType DEF TypeOK, Crash, files, history
<1>12. QED
  BY <1>1, <1>2, <1>3, <1>4, <1>5, <1>6, <1>7, <1>8, <1>9, <1>10, <1>11,
     <1>13 DEF Next, RunnerStep

\* Every variable keeps its type, whatever the runners interleave.
THEOREM BreakerTypeCorrect == Spec => []TypeOK
BY InitType, StepType, PTL DEF Spec

-----------------------------------------------------------------------------
(***************************************************************************)
(* No copy of an entry, on disk or in a runner, is dated later than the    *)
(* latest call of its task that failed or probed.                          *)
(***************************************************************************)
NotAhead(m) == \A t \in Task : m[t].last_probe_time <= recent[t]

Dated ==
  /\ NotAhead(state_file)
  /\ temp_file # NoFile => NotAhead(temp_file)
  /\ \A r \in Runner : NotAhead(breakers[r])

IInv == TypeOK /\ Dated /\ DenialIsRecent

LEMMA InitDated == Init => IInv
<1> SUFFICES ASSUME Init PROVE IInv
  OBVIOUS
<1>1. NotAhead(Fresh)
  BY DEF Init, NotAhead, Fresh, NewEntry
<1>2. Dated
  BY <1>1 DEF Init, Dated, NotAhead
<1>3. DenialIsRecent
  BY DEF Init, DenialIsRecent
<1>4. QED
  BY <1>2, <1>3, InitType DEF IInv

\* The latest date of a task only grows.
LEMMA RecentGrows ==
  ASSUME TypeOK, [Next]_vars
  PROVE  \A t \in Task : recent[t] <= recent'[t]
<1>1. CASE UNCHANGED recent
  BY <1>1 DEF TypeOK
<1>2. ASSUME NEW r \in Runner, Load(r) \/ Fail(r)
      PROVE  \A t \in Task : recent[t] <= recent'[t]
  <2>1. task[r] \in Task /\ now[r] \in Nat
    BY <1>2 DEF Load, Fail, TypeOK
  <2>2. QED
    BY <1>2, <2>1 DEF Load, Fail, TypeOK
<1>3. QED
  BY <1>1, <1>2 DEF Next, RunnerStep, vars, history, Tick, Call, LoadFails,
     ReturnBlocked, Succeed, OpenTemp, WriteTemp, Replace, SaveError, Crash

\* What was dated no later than recent stays so when recent grows.
LEMMA StaysDated ==
  ASSUME TypeOK, [Next]_vars, NEW m \in Breakers, NotAhead(m)
  PROVE  NotAhead(m)'
<1>1. TypeOK'
  BY StepType
<1>2. \A t \in Task : m[t].last_probe_time \in Nat
  BY DEF Breakers, Entry
<1>3. QED
  BY <1>1, <1>2, RecentGrows DEF NotAhead, TypeOK

LEMMA FreshDated == TypeOK => NotAhead(Fresh)
BY DEF TypeOK, NotAhead, Fresh, NewEntry

\* A runner's copy is set by its own steps only.
LEMMA OtherCopies ==
  ASSUME TypeOK, [Next]_vars, NEW r \in Runner, ~(Load(r) \/ Succeed(r) \/ Fail(r))
  PROVE  breakers'[r] \in {breakers[r], Fresh}
<1>1. CASE UNCHANGED breakers
  BY <1>1
<1>2. ASSUME NEW o \in Runner, Load(o) PROVE breakers'[r] \in {breakers[r], Fresh}
  <2>1. PICK m : breakers' = [breakers EXCEPT ![o] = m] \/ breakers' = breakers
    BY <1>2, Zenon DEF Load
  <2>2. o # r
    BY <1>2
  <2>3. QED
    BY <2>1, <2>2 DEF TypeOK
<1>3. ASSUME NEW o \in Runner, Succeed(o) \/ Fail(o)
      PROVE  breakers'[r] \in {breakers[r], Fresh}
  <2>1. o # r
    BY <1>3
  <2>2. QED
    BY <1>3, <2>1 DEF TypeOK, Succeed, Fail
<1>4. ASSUME NEW o \in Runner, Return(o) PROVE breakers'[r] \in {breakers[r], Fresh}
  BY <1>4 DEF TypeOK, Return
<1>5. ASSUME NEW o \in Runner, LoadFails(o) PROVE breakers'[r] \in {breakers[r], Fresh}
  BY <1>5 DEF TypeOK, LoadFails
<1>6. QED
  BY <1>1, <1>2, <1>3, <1>4, <1>5 DEF Next, RunnerStep, vars, call, Tick, Call,
     ReturnBlocked, OpenTemp, WriteTemp, Replace, AfterSave, SaveError, Crash

\* Only Load blocks a call, and a blocked call keeps its task and its time.
LEMMA StaysBlocked ==
  ASSUME TypeOK, [Next]_vars, NEW r \in Runner, ~Load(r), pc'[r] = "blocked"
  PROVE  pc[r] = "blocked" /\ now'[r] = now[r] /\ task'[r] = task[r]
<1>1. CASE UNCHANGED <<pc, now, task>>
  BY <1>1
<1>2. ASSUME NEW o \in Runner, Load(o)
      PROVE  pc[r] = "blocked" /\ now'[r] = now[r] /\ task'[r] = task[r]
  <2>1. PICK stage : pc' = [pc EXCEPT ![o] = stage]
    BY <1>2, Zenon DEF Load, Goto
  <2>2. o # r /\ UNCHANGED <<now, task>>
    BY <1>2 DEF Load
  <2>3. QED
    BY <2>1, <2>2 DEF TypeOK
<1>3. ASSUME NEW o \in Runner, NEW t \in Task, Call(o, t)
      PROVE  pc[r] = "blocked" /\ now'[r] = now[r] /\ task'[r] = task[r]
  BY <1>3 DEF TypeOK, Call, Goto
<1>4. ASSUME NEW o \in Runner,
             Return(o) \/ (Goto(o, "running") /\ UNCHANGED <<task, now>>)
      PROVE  pc[r] = "blocked" /\ now'[r] = now[r] /\ task'[r] = task[r]
  BY <1>4 DEF TypeOK, Return, Goto
<1>5. ASSUME NEW o \in Runner,
             LoadFails(o) \/ Succeed(o) \/ Fail(o) \/ OpenTemp(o) \/ WriteTemp(o)
      PROVE  pc[r] = "blocked" /\ now'[r] = now[r] /\ task'[r] = task[r]
  BY <1>5 DEF TypeOK, LoadFails, Succeed, Fail, OpenTemp, WriteTemp, Goto, call
<1>6. QED
  BY <1>1, <1>2, <1>3, <1>4, <1>5 DEF Next, RunnerStep, vars, call, Tick,
     ReturnBlocked, Replace, AfterSave, SaveError, Crash

\* The copy a step leaves in a runner is dated.
LEMMA CopyDated ==
  ASSUME IInv, [Next]_vars, NEW r \in Runner
  PROVE  NotAhead(breakers[r])'
<1>1. TypeOK /\ TypeOK' /\ Dated
  BY StepType DEF IInv
<1>2. CASE breakers'[r] = breakers[r]
  BY <1>1, <1>2, StaysDated DEF Dated, TypeOK, NotAhead
<1>3. CASE breakers'[r] = Fresh
  BY <1>1, <1>3, FreshDated, StaysDated, FreshType DEF NotAhead
<1>4. CASE breakers'[r] = state_file
  BY <1>1, <1>4, StaysDated DEF Dated, TypeOK, NotAhead
<1>5. ASSUME NEW m \in Breakers, NotAhead(m), NEW t \in Task, NEW e \in Entry,
             breakers'[r] = [m EXCEPT ![t] = e],
             e.last_probe_time <= recent'[t]
      PROVE  NotAhead(breakers[r])'
  <2>1. \A u \in Task : m[u].last_probe_time <= recent'[u]
    BY <1>1, <1>5, StaysDated DEF NotAhead
  <2>2. QED
    BY <1>5, <2>1, UpdateType DEF NotAhead
<1>6. ASSUME Load(r), Due(state_file[task[r]], now[r]),
             state_file[task[r]].state = "DEGRADED_QUARANTINED"
      PROVE  NotAhead(breakers[r])'
  <2>1. task[r] \in Task /\ now[r] \in Nat /\ state_file[task[r]] \in Entry
    BY <1>1, <1>6 DEF Load, TypeOK, Breakers
  <2>2. ASSUME NEW p, p = [state_file[task[r]] EXCEPT !.state = "SLOW_PROBING",
                                                      !.last_probe_time = now[r]]
        PROVE  /\ p \in Entry /\ p.last_probe_time <= recent'[task[r]]
    <3>1. p \in Entry /\ p.last_probe_time = now[r]
      BY <2>1, <2>2, ProbeEntryType
    <3>2. recent' = [recent EXCEPT ![task[r]] = IF @ > now[r] THEN @ ELSE now[r]]
      BY <1>6, Zenon DEF Load
    <3>3. QED
      BY <1>1, <2>1, <3>1, <3>2 DEF TypeOK
  <2>3. breakers'[r] = [state_file EXCEPT ![task[r]] =
          [@ EXCEPT !.state = "SLOW_PROBING", !.last_probe_time = now[r]]]
    <3>1. breakers' = [breakers EXCEPT ![r] = [state_file EXCEPT ![task[r]] =
            [@ EXCEPT !.state = "SLOW_PROBING", !.last_probe_time = now[r]]]]
      BY <1>6, Zenon DEF Load
    <3>2. QED
      BY <1>1, <3>1 DEF TypeOK
  <2>4. QED
    BY <1>1, <1>5, <2>1, <2>2, <2>3 DEF Dated, TypeOK
<1>7. ASSUME Load(r) PROVE NotAhead(breakers[r])'
  BY <1>1, <1>2, <1>4, <1>6, <1>7 DEF Load, TypeOK
<1>8. ASSUME Succeed(r) \/ Fail(r) PROVE NotAhead(breakers[r])'
  <2>1. task[r] \in Task /\ breakers[r] \in Breakers /\ breakers[r][task[r]] \in Entry /\ now[r] \in Nat
    BY <1>1, <1>8 DEF Succeed, Fail, TypeOK, Breakers
  <2>2. breakers[r][task[r]].last_probe_time <= recent'[task[r]]
    BY <1>1, <2>1, StaysDated DEF Dated, NotAhead
  <2>3. CASE Succeed(r)
    BY <1>1, <1>5, <2>1, <2>2, <2>3, SucceededType DEF Succeed, Dated, TypeOK
  <2>4. CASE Fail(r)
    <3>1. now[r] <= recent'[task[r]]
      BY <1>1, <2>1, <2>4 DEF Fail, TypeOK
    <3>2. Failed(breakers[r][task[r]], now[r]).last_probe_time <= recent'[task[r]]
      BY <2>1, <2>2, <3>1, FailedType
    <3>3. QED
      BY <1>1, <1>5, <2>1, <2>4, <3>2, FailedType DEF Fail, Dated, TypeOK
  <2>5. QED
    BY <1>8, <2>3, <2>4
<1>9. CASE ~(Load(r) \/ Succeed(r) \/ Fail(r))
  BY <1>1, <1>2, <1>3, <1>9, OtherCopies
<1>10. QED
  BY <1>7, <1>8, <1>9

\* What the two files may be after a step.
LEMMA FilesFrom ==
  ASSUME TypeOK, [Next]_vars
  PROVE  \A m \in {state_file', temp_file'} :
           \/ m \in {state_file, temp_file, Fresh, NoFile}
           \/ \E r \in Runner : m = breakers[r]
<1>1. CASE UNCHANGED files
  BY <1>1 DEF files
<1>2. ASSUME NEW r \in Runner, OpenTemp(r) \/ WriteTemp(r) \/ Replace(r)
      PROVE  \A m \in {state_file', temp_file'} :
               \/ m \in {state_file, temp_file, Fresh, NoFile}
               \/ \E o \in Runner : m = breakers[o]
  BY <1>2 DEF OpenTemp, WriteTemp, Replace, files
<1>3. QED
  BY <1>1, <1>2 DEF Next, RunnerStep, vars, Tick, Call, ReturnBlocked, Load,
     LoadFails, Succeed, Fail, SaveError, Crash
\* What a step leaves in the two files is dated.
LEMMA FilesDated ==
  ASSUME IInv, [Next]_vars
  PROVE  /\ NotAhead(state_file)'
         /\ temp_file' # NoFile => NotAhead(temp_file)'
<1>1. TypeOK /\ TypeOK' /\ Dated
  BY StepType DEF IInv
<1>2. \A m \in Breakers : NotAhead(m) => \A t \in Task : m[t].last_probe_time <= recent'[t]
  BY <1>1, StaysDated DEF NotAhead
<1> DEFINE Known(m) == \/ m \in {state_file, Fresh}
                       \/ m = temp_file /\ m # NoFile
                       \/ \E r \in Runner : m = breakers[r]
<1>3. ASSUME NEW m, Known(m)
      PROVE  \A t \in Task : m[t].last_probe_time <= recent'[t]
  <2>1. m \in Breakers /\ NotAhead(m)
    BY <1>1, <1>3, FreshType, FreshDated DEF Dated, TypeOK
  <2>2. QED
    BY <1>2, <2>1
<1>4. Known(state_file') /\ (temp_file' # NoFile => Known(temp_file'))
  <2>1. state_file' # NoFile
    BY <1>1, FilesDiffer DEF TypeOK
  <2>2. QED
    BY <1>1, <2>1, FilesFrom
<1>5. QED
  BY <1>3, <1>4 DEF NotAhead

LEMMA DenialStep ==
  ASSUME IInv, [Next]_vars
  PROVE  DenialIsRecent'
<1>1. TypeOK /\ TypeOK' /\ Dated /\ DenialIsRecent
  BY StepType DEF IInv
<1>2. SUFFICES ASSUME NEW r \in Runner, pc'[r] = "blocked"
               PROVE  now'[r] - recent'[task'[r]] < ProbeInterval
  BY DEF DenialIsRecent
<1>3. CASE Load(r)
  <2>1. task[r] \in Task /\ now[r] \in Nat /\ state_file[task[r]] \in Entry
    BY <1>1, <1>3 DEF Load, TypeOK, Breakers
  <2>2. now[r] - state_file[task[r]].last_probe_time < ProbeInterval
    BY <1>1, <1>2, <1>3, <2>1, BreakerConstants DEF Load, Due, TypeOK, Goto, Entry
  <2>3. state_file[task[r]].last_probe_time <= recent[task[r]]
    BY <1>1, <2>1 DEF Dated, NotAhead
  <2>4. UNCHANGED <<now, task>> /\ recent'[task[r]] = recent[task[r]]
    BY <1>1, <1>2, <1>3, <2>1 DEF Load, TypeOK, Goto
  <2>5. QED
    BY <1>1, <2>1, <2>2, <2>3, <2>4, BreakerConstants DEF TypeOK, Entry
<1>4. CASE ~Load(r)
  <2>1. pc[r] = "blocked" /\ now'[r] = now[r] /\ task'[r] = task[r]
    BY <1>1, <1>2, <1>4, StaysBlocked
  <2>2. task[r] \in Task /\ now[r] - recent[task[r]] < ProbeInterval
    BY <1>1, <2>1 DEF TypeOK, DenialIsRecent
  <2>3. QED
    BY <1>1, <2>1, <2>2, RecentGrows, BreakerConstants DEF TypeOK
<1>5. QED
  BY <1>3, <1>4

\* A task is refused only within ProbeInterval of a call of that very task that
\* failed or probed, however the saves of the runners overwrite each other.
THEOREM DenialsAreRecent == Spec => []DenialIsRecent
<1>1. IInv /\ [Next]_vars => IInv'
  <2> SUFFICES ASSUME IInv, [Next]_vars PROVE IInv'
    OBVIOUS
  <2>1. Dated'
    BY CopyDated, FilesDated DEF Dated
  <2>2. QED
    BY <2>1, DenialStep, StepType DEF IInv
<1>2. IInv => DenialIsRecent
  BY DEF IInv
<1>3. QED
  BY <1>1, <1>2, InitDated, PTL DEF Spec

-----------------------------------------------------------------------------
(***************************************************************************)
(* Every copy of an entry is quarantined or probed exactly when it counts  *)
(* Threshold failures or more.                                             *)
(***************************************************************************)
Sound(m) ==
  \A t \in Task : m[t].state = "HEALTHY" <=> m[t].consecutive_failures < Threshold

SoundMaps ==
  /\ Sound(state_file)
  /\ temp_file # NoFile => Sound(temp_file)
  /\ \A r \in Runner : Sound(breakers[r])

SoundInv == TypeOK /\ SoundMaps

LEMMA FreshSound == Sound(Fresh)
BY BreakerConstants DEF Sound, Fresh, NewEntry

LEMMA SucceededSound ==
  ASSUME NEW e \in Entry
  PROVE  /\ Succeeded(e).consecutive_failures = 0
         /\ Succeeded(e).state = "HEALTHY"
BY DEF Succeeded, Entry

LEMMA FailedSound ==
  ASSUME NEW e \in Entry, NEW time \in Nat
  PROVE  LET n == e.consecutive_failures + 1
         IN /\ n \in Nat
            /\ Failed(e, time).consecutive_failures = n
            /\ n >= Threshold => /\ Failed(e, time).state = "DEGRADED_QUARANTINED"
                                 /\ Failed(e, time).last_probe_time = time
            /\ n < Threshold => Failed(e, time).state = e.state
BY BreakerConstants DEF Failed, Entry

LEMMA ProbeEntrySound ==
  ASSUME NEW e \in Entry, NEW time \in Nat
  PROVE  LET p == [e EXCEPT !.state = "SLOW_PROBING", !.last_probe_time = time]
         IN /\ p.state = "SLOW_PROBING"
            /\ p.consecutive_failures = e.consecutive_failures
BY DEF Entry

\* What the copies of the runners may be after a step.
LEMMA CopyFrom ==
  ASSUME TypeOK, [Next]_vars, NEW r \in Runner
  PROVE  \/ breakers'[r] \in {breakers[r], Fresh, state_file}
         \/ \E m \in {breakers[r], state_file}, e \in Entry :
              /\ task[r] \in Task
              /\ breakers'[r] = [m EXCEPT ![task[r]] = e]
              /\ Sound(m) => (e.state = "HEALTHY" <=> e.consecutive_failures < Threshold)
<1>1. CASE ~(Load(r) \/ Succeed(r) \/ Fail(r))
  BY <1>1, OtherCopies
<1>2. ASSUME Load(r) \/ Succeed(r) \/ Fail(r)
      PROVE  /\ task[r] \in Task /\ now[r] \in Nat
             /\ breakers[r] \in Breakers /\ breakers[r][task[r]] \in Entry
             /\ state_file \in Breakers /\ state_file[task[r]] \in Entry
             /\ breakers[r][task[r]].consecutive_failures \in Nat
             /\ state_file[task[r]].consecutive_failures \in Nat
  BY <1>2 DEF Load, Succeed, Fail, TypeOK, Breakers, Entry
<1>3. CASE Load(r)
  <2> DEFINE p == [state_file[task[r]] EXCEPT !.state = "SLOW_PROBING",
                                              !.last_probe_time = now[r]]
  <2>1. \/ breakers' = breakers
        \/ breakers' = [breakers EXCEPT ![r] = state_file]
        \/ /\ state_file[task[r]].state = "DEGRADED_QUARANTINED"
           /\ breakers' = [breakers EXCEPT ![r] = [state_file EXCEPT ![task[r]] = p]]
    BY <1>3, Zenon DEF Load
  <2>2. p \in Entry /\ p.state = "SLOW_PROBING"
        /\ p.consecutive_failures = state_file[task[r]].consecutive_failures
    BY <1>2, <1>3, ProbeEntryType, ProbeEntrySound
  <2> HIDE DEF p
  <2>3. ASSUME state_file[task[r]].state = "DEGRADED_QUARANTINED", Sound(state_file)
        PROVE  p.state = "HEALTHY" <=> p.consecutive_failures < Threshold
    BY <1>2, <1>3, <2>2, <2>3 DEF Sound
  <2>4. QED
    BY <1>2, <1>3, <2>1, <2>2, <2>3 DEF TypeOK
<1>4. CASE Succeed(r)
  <2> DEFINE e == Succeeded(breakers[r][task[r]])
  <2>1. breakers'[r] = [breakers[r] EXCEPT ![task[r]] = e]
    BY <1>2, <1>4 DEF Succeed, TypeOK
  <2>2. e \in Entry /\ e.state = "HEALTHY" /\ e.consecutive_failures < Threshold
    BY <1>2, <1>4, SucceededType, SucceededSound, BreakerConstants
  <2> HIDE DEF e
  <2>3. QED
    BY <1>2, <1>4, <2>1, <2>2
<1>5. CASE Fail(r)
  <2> DEFINE e == Failed(breakers[r][task[r]], now[r])
  <2>1. breakers'[r] = [breakers[r] EXCEPT ![task[r]] = e]
    BY <1>2, <1>5 DEF Fail, TypeOK
  <2>2. e \in Entry
    BY <1>2, <1>5, FailedType
  <2>3. ASSUME Sound(breakers[r])
        PROVE  e.state = "HEALTHY" <=> e.consecutive_failures < Threshold
    <3>1. breakers[r][task[r]].state = "HEALTHY"
          <=> breakers[r][task[r]].consecutive_failures < Threshold
      BY <1>2, <1>5, <2>3 DEF Sound
    <3>2. QED
      BY <1>2, <1>5, <3>1, FailedSound, BreakerConstants
  <2>4. QED
    BY <1>2, <1>5, <2>1, <2>2, <2>3
<1>6. QED
  BY <1>1, <1>3, <1>4, <1>5

LEMMA SoundStep == SoundInv /\ [Next]_vars => SoundInv'
<1> SUFFICES ASSUME SoundInv, [Next]_vars PROVE SoundInv'
  OBVIOUS
<1>1. TypeOK /\ TypeOK' /\ SoundMaps
  BY StepType DEF SoundInv
<1>2. ASSUME NEW r \in Runner PROVE Sound(breakers[r])'
  <2>1. Sound(breakers[r]) /\ Sound(state_file) /\ breakers[r] \in Breakers /\ state_file \in Breakers
    BY <1>1 DEF SoundMaps, TypeOK
  <2>2. CASE breakers'[r] \in {breakers[r], Fresh, state_file}
    BY <2>1, <2>2, FreshSound DEF Sound
  <2>3. ASSUME NEW m \in {breakers[r], state_file}, NEW e \in Entry, task[r] \in Task,
               breakers'[r] = [m EXCEPT ![task[r]] = e],
               e.state = "HEALTHY" <=> e.consecutive_failures < Threshold
        PROVE  Sound(breakers[r])'
    BY <2>1, <2>3, UpdateType DEF Sound
  <2>4. QED
    BY <1>1, <2>1, <2>2, <2>3, CopyFrom
<1>3. \A m \in {state_file', temp_file'} : m # NoFile => Sound(m)
  BY <1>1, FilesFrom, FreshSound DEF SoundMaps
<1>4. state_file' # NoFile
  BY <1>1, FilesDiffer DEF TypeOK
<1>5. QED
  BY <1>1, <1>2, <1>3, <1>4 DEF SoundInv, SoundMaps, Sound

LEMMA InitSound == Init => SoundInv
BY InitType, FreshSound DEF Init, SoundInv, SoundMaps
-----------------------------------------------------------------------------
(***************************************************************************)
(* While runners take turns.  Missing and Credit say how many runs of a    *)
(* task an entry lets through too early: as many as the failures it has    *)
(* missed, up to Threshold, or one when its date or its quarantine is that *)
(* of an older probe.  Every fault adds one at most; a load that fails     *)
(* writes new entries for all tasks, and adds Threshold at most.           *)
(***************************************************************************)
Allowed == [t \in Task |-> faults[t] + Threshold * misreads]

\* The entry a call has of a task that is not its own: the one in the file, or
\* the new one of a load that failed.
Kept(t, e) ==
  \/ e = state_file[t]
  \/ e = NewEntry /\ unspaced[t] + Threshold <= Allowed[t]

Saving(r) == pc[r] \in {"open", "write", "replace"}
Loaded(r) == pc[r] = "running" \/ Saving(r)
Busy(t) == \E r \in Runner : Loaded(r) /\ task[r] = t

Missing(n, failed) ==
  LET k == IF failed > Threshold THEN Threshold ELSE failed
  IN IF k > n THEN k - n ELSE 0

Credit(e, failed, latest) ==
  IF e.state = "HEALTHY" THEN Missing(e.consecutive_failures, failed)
  ELSE IF e.state = "DEGRADED_QUARANTINED" /\ e.last_probe_time = latest THEN 0
  ELSE 1

\* One call is under way, and the temporary file is its own.
OneAtATime == \A r, o \in Runner : pc[r] # "idle" /\ pc[o] # "idle" => r = o

Tidy(r) ==
  /\ now[r] <= clock
  /\ pc[r] # "idle" => \A t \in Task : recent[t] <= now[r]
  /\ fd[r] = IF pc[r] = "write" THEN "temp" ELSE "none"
  /\ ~dirty[r]
  /\ pc[r] = "replace" => temp_file = breakers[r]
  /\ Loaded(r) => \A t \in Task : t # task[r] => Kept(t, breakers[r][t])
  /\ probing[r] => Saving(r) /\ breakers[r][task[r]].state = "SLOW_PROBING"
  /\ pc[r] = "blocked" => state_file[task[r]].state = "DEGRADED_QUARANTINED"

\* The entry of a task no call has loaded.
AtRest(t) ==
  /\ unspaced[t] + Credit(state_file[t], streak[t], recent[t]) <= Allowed[t]
  /\ faults[t] = 0 => state_file[t].consecutive_failures <= streak[t]

\* The entry in the file and the copy of the call that has loaded it.
InHand(r) ==
  LET t == task[r]
      e == breakers[r][t]
      f == state_file[t]
  IN /\ unspaced[t] + Credit(f, streak[t], recent[t]) <= Allowed[t] + 1
     /\ faults[t] = 0 => e.consecutive_failures <= streak[t]
     /\ Saving(r) /\ ~probing[r] =>
          unspaced[t] + Credit(e, streak[t], recent[t]) <= Allowed[t]
     /\ pc[r] = "running" \/ probing[r] =>
          /\ unspaced[t] + Missing(e.consecutive_failures + 1, streak[t] + 1)
               <= Allowed[t]
          /\ f.state = "HEALTHY" =>
               \/ f.consecutive_failures = e.consecutive_failures
               \/ unspaced[t] + Threshold <= Allowed[t] + 1

Turns ==
  /\ OneAtATime
  /\ \A t \in Task : recent[t] <= clock
  /\ \A r \in Runner : Tidy(r)
  /\ \A t \in Task : ~Busy(t) => AtRest(t)
  /\ \A r \in Runner : Loaded(r) => InHand(r)

TurnsInv == SoundInv /\ (~overlapped => Turns)

\* What is allowed grows by one with a fault of the task, by Threshold with a
\* load that fails.
LEMMA AllowedType ==
  ASSUME TypeOK
  PROVE  Allowed \in [Task -> Nat]
<1>1. Threshold * misreads \in Nat
  BY BreakerConstants DEF TypeOK
<1>2. QED
  BY <1>1 DEF TypeOK, Allowed

LEMMA AllowedSame ==
  ASSUME UNCHANGED failures
  PROVE  Allowed' = Allowed
BY DEF Allowed, failures

LEMMA AllowedFault ==
  ASSUME TypeOK, NEW r \in Runner, pc[r] # "idle", Fault(task[r]), misreads' = misreads
  PROVE  /\ Allowed'[task[r]] = Allowed[task[r]] + 1
         /\ \A t \in Task : t # task[r] => Allowed'[t] = Allowed[t]
<1>1. task[r] \in Task /\ Threshold * misreads \in Nat
  BY BreakerConstants DEF TypeOK
<1>2. \A t \in Task : faults[t] \in Nat
  BY DEF TypeOK
<1>3. QED
  BY <1>1, <1>2, FaultType DEF Allowed

LEMMA AllowedMisread ==
  ASSUME TypeOK, faults' = faults, misreads' = misreads + 1
  PROVE  \A t \in Task : Allowed'[t] = Allowed[t] + Threshold
<1>1. Threshold * (misreads + 1) = Threshold * misreads + Threshold
  BY BreakerConstants DEF TypeOK
<1>2. Threshold * misreads \in Nat /\ \A t \in Task : faults[t] \in Nat
  BY BreakerConstants DEF TypeOK
<1>3. QED
  BY <1>1, <1>2, BreakerConstants DEF Allowed

LEMMA MissingNat ==
  ASSUME NEW n \in Nat, NEW s \in Nat
  PROVE  Missing(n, s) \in Nat /\ Missing(n, s) <= Threshold
BY BreakerConstants DEF Missing

LEMMA CreditNat ==
  ASSUME NEW e \in Entry, NEW s \in Nat, NEW d \in Nat
  PROVE  /\ Credit(e, s, d) \in Nat
         /\ e.state # "HEALTHY" => Credit(e, s, d) <= 1
<1>1. e.consecutive_failures \in Nat
  BY DEF Entry
<1>2. Missing(e.consecutive_failures, s) \in Nat
  BY <1>1, MissingNat
<1>3. QED
  BY <1>2 DEF Credit

\* A failure that is not saved adds one to what is missing, one that is adds
\* nothing.
LEMMA MissingMore ==
  ASSUME NEW n \in Nat, NEW s \in Nat
  PROVE  /\ Missing(n, s + 1) <= Missing(n, s) + 1
         /\ Missing(n, s + 1) <= Missing(n + 1, s + 1) + 1
         /\ Missing(n + 1, s + 1) <= Missing(n, s)
         /\ n < Threshold /\ s >= Threshold => Missing(n + 1, s + 1) + 1 <= Missing(n, s)
         /\ n >= Threshold => Missing(n, s) = 0
         /\ Missing(n, 0) = 0
         /\ Missing(n + 1, s) <= Threshold - 1
BY BreakerConstants DEF Missing

\* The runs the properties count are within the faults.
LEMMA TurnsSpaced == TurnsInv => RetriesAreSpaced
<1> SUFFICES ASSUME TurnsInv, ~overlapped, NEW t \in Task PROVE unspaced[t] <= Allowed[t]
  BY DEF RetriesAreSpaced, Allowed
<1>1. /\ unspaced[t] \in Nat /\ Allowed[t] \in Nat /\ streak[t] \in Nat /\ recent[t] \in Nat
      /\ state_file[t] \in Entry /\ Turns
  BY AllowedType DEF TurnsInv, SoundInv, TypeOK, Breakers
<1>2. CASE ~Busy(t)
  <2>1. unspaced[t] + Credit(state_file[t], streak[t], recent[t]) <= Allowed[t]
    BY <1>1, <1>2 DEF Turns, AtRest
  <2>2. Credit(state_file[t], streak[t], recent[t]) \in Nat
    BY <1>1, CreditNat
  <2>3. QED
    BY <1>1, <2>1, <2>2
<1>3. ASSUME NEW r \in Runner, Loaded(r), task[r] = t PROVE unspaced[t] <= Allowed[t]
  <2>1. breakers[r][t] \in Entry /\ breakers[r][t].consecutive_failures + 1 \in Nat
        /\ streak[t] + 1 \in Nat /\ InHand(r)
    BY <1>1, <1>3 DEF TurnsInv, SoundInv, TypeOK, Breakers, Turns, Entry
  <2>2. CASE Saving(r) /\ ~probing[r]
    <3>1. unspaced[t] + Credit(breakers[r][t], streak[t], recent[t]) <= Allowed[t]
      BY <1>3, <2>1, <2>2 DEF InHand
    <3>2. Credit(breakers[r][t], streak[t], recent[t]) \in Nat
      BY <1>1, <2>1, CreditNat
    <3>3. QED
      BY <1>1, <3>1, <3>2
  <2>3. CASE pc[r] = "running" \/ probing[r]
    <3> DEFINE owed == Missing(breakers[r][t].consecutive_failures + 1, streak[t] + 1)
    <3>1. unspaced[t] + owed <= Allowed[t]
      BY <1>3, <2>1, <2>3 DEF InHand
    <3>2. owed \in Nat
      BY <2>1, MissingNat
    <3> HIDE DEF owed
    <3>3. QED
      BY <1>1, <3>1, <3>2
  <2>4. QED
    BY <1>3, <2>2, <2>3 DEF Loaded
<1>4. QED
  BY <1>2, <1>3 DEF Busy

LEMMA TurnsEarned == TurnsInv => DenialIsEarned
<1> SUFFICES ASSUME TurnsInv, ~overlapped, NEW r \in Runner, pc[r] = "blocked",
                    faults[task[r]] = 0
             PROVE  streak[task[r]] >= Threshold
  BY DEF DenialIsEarned
<1>1. task[r] \in Task /\ Turns /\ SoundMaps
  BY DEF TurnsInv, SoundInv, TypeOK
<1>2. ~Busy(task[r])
  BY <1>1 DEF Turns, OneAtATime, Busy, Loaded, Saving
<1>3. state_file[task[r]].consecutive_failures <= streak[task[r]]
  BY <1>1, <1>2 DEF Turns, AtRest
<1>4. /\ state_file[task[r]].state = "DEGRADED_QUARANTINED"
      /\ streak[task[r]] \in Nat /\ state_file[task[r]].consecutive_failures \in Nat
  BY <1>1 DEF Turns, Tidy, TurnsInv, SoundInv, TypeOK, Breakers, Entry
<1>5. ~(state_file[task[r]].consecutive_failures < Threshold)
  BY <1>1, <1>4 DEF SoundMaps, Sound
<1>6. QED
  BY <1>3, <1>4, <1>5, BreakerConstants
\* The steps of a call that is under way.
CallStep(r) ==
  \/ Load(r) \/ LoadFails(r) \/ ReturnBlocked(r) \/ Succeed(r) \/ Fail(r)
  \/ OpenTemp(r) \/ WriteTemp(r) \/ Replace(r) \/ SaveError(r) \/ Crash(r)

\* The other runners are idle before such a step and after it.
LEMMA OthersIdle ==
  ASSUME TypeOK, Turns, NEW r \in Runner, CallStep(r)
  PROVE  /\ pc[r] # "idle" /\ task[r] \in Task /\ overlapped' = overlapped
         /\ \A o \in Runner : o # r => /\ pc[o] = "idle" /\ pc'[o] = "idle"
                                       /\ ~Loaded(o) /\ ~Loaded(o)'
                                       /\ Tidy(o)'
<1>1. /\ pc[r] # "idle" /\ overlapped' = overlapped
      /\ \E stage : pc' = [pc EXCEPT ![r] = stage]
  BY DEF CallStep, Load, LoadFails, ReturnBlocked, Succeed, Fail, OpenTemp, WriteTemp,
     Replace, SaveError, Crash, AfterSave, Return, Goto, history
<1>2. SUFFICES ASSUME NEW o \in Runner, o # r
               PROVE  /\ pc[o] = "idle" /\ pc'[o] = "idle"
                      /\ ~Loaded(o) /\ ~Loaded(o)'
                      /\ Tidy(o)'
  BY <1>1 DEF TypeOK
<1>3. pc[o] = "idle" /\ pc'[o] = "idle"
  BY <1>1, <1>2 DEF TypeOK, Turns, OneAtATime
<1>4. fd[o] = "none" /\ ~dirty[o] /\ ~probing[o]
  BY <1>2, <1>3 DEF Turns, Tidy, Saving
<1>5. pc[r] = "write" => fd[r] = "temp"
  BY DEF Turns, Tidy
<1>6. fd'[o] = "none"
  BY <1>2, <1>4 DEF CallStep, Load, LoadFails, ReturnBlocked, Succeed, Fail, OpenTemp, WriteTemp,
     Replace, SaveError, Crash, handles, TypeOK, files
<1>7. ~dirty'[o]
  BY <1>2, <1>4, <1>5 DEF CallStep, Load, LoadFails, ReturnBlocked, Succeed, Fail, OpenTemp, WriteTemp,
     Replace, SaveError, Crash, handles, TypeOK
<1>8. ~probing'[o]
  BY <1>2, <1>4 DEF CallStep, Load, LoadFails, ReturnBlocked, Succeed, Fail, OpenTemp, WriteTemp,
     Replace, SaveError, Crash, AfterSave, call, TypeOK
<1>9. now'[o] <= clock'
  <2>1. now[o] <= clock
    BY DEF Turns, Tidy
  <2>2. now'[o] = now[o] /\ clock' = clock
    BY <1>2 DEF CallStep, Load, LoadFails, ReturnBlocked, Succeed, Fail, OpenTemp, WriteTemp,
       Replace, SaveError, Crash, AfterSave, Return, call, TypeOK
  <2>3. QED
    BY <2>1, <2>2
<1>10. QED
  BY <1>3, <1>4, <1>6, <1>7, <1>8, <1>9 DEF Tidy, Loaded, Saving

\* Such a step leaves what concerns another task as it is.
LEMMA OtherTasks ==
  ASSUME TypeOK, Turns, NEW r \in Runner, CallStep(r), NEW t \in Task, t # task[r]
  PROVE  /\ Kept(t, state_file'[t])
         /\ streak'[t] = streak[t] /\ recent'[t] = recent[t]
         /\ unspaced'[t] = unspaced[t] /\ faults'[t] = faults[t]
         /\ Allowed'[t] \in {Allowed[t], Allowed[t] + Threshold}
<1>1. pc[r] # "idle" /\ task[r] \in Task
  BY OthersIdle
<1>2. streak'[t] = streak[t] /\ recent'[t] = recent[t]
  BY <1>1 DEF CallStep, Load, LoadFails, ReturnBlocked, Succeed, Fail, OpenTemp, WriteTemp,
     Replace, SaveError, Crash, history, TypeOK
<1>3. unspaced'[t] = unspaced[t]
  BY <1>1 DEF CallStep, Load, LoadFails, ReturnBlocked, Succeed, Fail, OpenTemp, WriteTemp,
     Replace, SaveError, Crash, history, TypeOK
<1>4. faults'[t] = faults[t]
  BY <1>1, FaultType DEF CallStep, Load, LoadFails, ReturnBlocked, Succeed, Fail, OpenTemp, WriteTemp,
     Replace, SaveError, Crash, history, failures
<1>5. Kept(t, state_file'[t])
  <2>1. pc[r] = "write" => fd[r] = "temp"
    BY DEF Turns, Tidy
  <2>2. pc[r] = "replace" => temp_file = breakers[r] /\ Kept(t, breakers[r][t])
    BY DEF Turns, Tidy, Loaded, Saving
  <2>3. state_file' = state_file \/ (pc[r] = "replace" /\ state_file' = temp_file)
    BY <2>1 DEF CallStep, Load, LoadFails, ReturnBlocked, Succeed, Fail, OpenTemp, WriteTemp,
       Replace, SaveError, Crash, files
  <2>4. QED
    BY <2>2, <2>3 DEF Kept
<1>6. Allowed'[t] \in {Allowed[t], Allowed[t] + Threshold}
  <2>1. CASE UNCHANGED failures
    BY <2>1, AllowedSame
  <2>2. CASE Fault(task[r]) /\ misreads' = misreads
    BY <1>1, <2>2, AllowedFault
  <2>3. CASE faults' = faults /\ misreads' = misreads + 1
    BY <2>3, AllowedMisread
  <2>4. QED
    BY <2>1, <2>2, <2>3 DEF CallStep, Load, LoadFails, ReturnBlocked, Succeed, Fail,
       OpenTemp, WriteTemp, Replace, SaveError, Crash
<1>7. QED
  BY <1>2, <1>3, <1>4, <1>5, <1>6

LEMMA OtherAtRest ==
  ASSUME TypeOK, Turns, NEW r \in Runner, CallStep(r), NEW t \in Task, t # task[r],
         AtRest(t)
  PROVE  AtRest(t)'
<1> DEFINE c(e) == Credit(e, streak[t], recent[t])
<1>1. /\ unspaced[t] \in Nat /\ Allowed[t] \in Nat /\ streak[t] \in Nat /\ recent[t] \in Nat
      /\ state_file[t] \in Entry /\ Threshold \in Nat
  BY AllowedType, BreakerConstants DEF TypeOK, Breakers
<1>2. c(NewEntry) \in Nat /\ c(NewEntry) <= Threshold /\ c(state_file[t]) \in Nat
  <2>1. c(NewEntry) = Missing(0, streak[t])
    BY DEF Credit, NewEntry
  <2>2. Missing(0, streak[t]) \in Nat /\ Missing(0, streak[t]) <= Threshold
    BY <1>1, MissingNat
  <2>3. Credit(state_file[t], streak[t], recent[t]) \in Nat
    BY <1>1, CreditNat
  <2>4. QED
    BY <2>1, <2>2, <2>3
<1>3. /\ unspaced[t] + c(state_file[t]) <= Allowed[t]
      /\ faults[t] = 0 => state_file[t].consecutive_failures <= streak[t]
  BY DEF AtRest
<1>4. /\ Kept(t, state_file'[t])
      /\ streak'[t] = streak[t] /\ recent'[t] = recent[t]
      /\ unspaced'[t] = unspaced[t] /\ faults'[t] = faults[t]
      /\ Allowed'[t] \in {Allowed[t], Allowed[t] + Threshold}
  BY OtherTasks
<1>5. NewEntry.consecutive_failures = 0
  BY DEF NewEntry
<1> HIDE DEF c
<1>6. unspaced[t] + c(state_file'[t]) <= Allowed'[t]
  BY <1>1, <1>2, <1>3, <1>4 DEF Kept
<1>7. faults[t] = 0 => state_file'[t].consecutive_failures <= streak[t]
  BY <1>1, <1>3, <1>4, <1>5 DEF Kept
<1>8. QED
  BY <1>4, <1>6, <1>7 DEF AtRest, c

\* The invariant follows from what the call and its task make of the step.
LEMMA Assemble ==
  ASSUME TypeOK, TypeOK', Turns, NEW r \in Runner, CallStep(r),
         \A t \in Task : recent'[t] <= clock',
         Tidy(r)', task'[r] \in {task[r], NoTask},
         Loaded(r)' => InHand(r)',
         ~Loaded(r)' => \A t \in Task : t = task[r] => AtRest(t)'
  PROVE  Turns'
<1>1. pc[r] # "idle" /\ task[r] \in Task
  BY OthersIdle
<1>2. OneAtATime'
  BY OthersIdle DEF OneAtATime
<1>3. (\A o \in Runner : Tidy(o))'
  BY OthersIdle
<1>4. (\A o \in Runner : Loaded(o) => InHand(o))'
  BY OthersIdle
<1>5. ASSUME NEW t \in Task, ~Busy(t)' PROVE AtRest(t)'
  <2>1. CASE t = task[r]
    <3>1. Loaded(r)' => task'[r] = task[r]
      BY BreakerConstants DEF TypeOK, Loaded, Saving
    <3>2. ~Loaded(r)'
      BY <1>5, <2>1, <3>1 DEF Busy
    <3>3. QED
      BY <2>1, <3>2
  <2>2. CASE t # task[r]
    <3>1. ~Busy(t)
      BY <2>2, OthersIdle DEF Busy
    <3>2. AtRest(t)
      BY <3>1 DEF Turns
    <3>3. QED
      BY <2>2, <3>2, OtherAtRest
  <2>3. QED
    BY <2>1, <2>2
<1>6. QED
  BY <1>2, <1>3, <1>4, <1>5 DEF Turns
LEMMA CallTypes ==
  ASSUME TypeOK, NEW r \in Runner, pc[r] # "idle"
  PROVE  /\ task[r] \in Task /\ now[r] \in Nat
         /\ breakers[r] \in Breakers /\ state_file \in Breakers
         /\ breakers[r][task[r]] \in Entry /\ state_file[task[r]] \in Entry
         /\ breakers[r][task[r]].consecutive_failures \in Nat
         /\ state_file[task[r]].consecutive_failures \in Nat
         /\ streak[task[r]] \in Nat /\ recent[task[r]] \in Nat
         /\ unspaced[task[r]] \in Nat /\ Allowed[task[r]] \in Nat
BY AllowedType DEF TypeOK, Breakers, Entry

\* What the invariant says of the task of the only call.
LEMMA HandOrRest ==
  ASSUME TypeOK, Turns, NEW r \in Runner, pc[r] # "idle"
  PROVE  /\ Loaded(r) => InHand(r)
         /\ ~Loaded(r) => AtRest(task[r])
         /\ Tidy(r)
<1>1. task[r] \in Task
  BY CallTypes
<1>2. ~Loaded(r) => ~Busy(task[r])
  BY DEF Turns, OneAtATime, Busy, Loaded, Saving
<1>3. QED
  BY <1>1, <1>2 DEF Turns

LEMMA TurnsReturnBlocked ==
  ASSUME SoundInv, TypeOK', Turns, NEW r \in Runner, ReturnBlocked(r)
  PROVE  Turns'
<1>1. TypeOK /\ pc[r] = "blocked"
  BY DEF SoundInv, ReturnBlocked
<1>2. pc'[r] = "idle" /\ task'[r] = NoTask /\ now'[r] = 0 /\ clock' = clock /\ clock \in Nat
  BY <1>1 DEF ReturnBlocked, Return, Goto, TypeOK
<1>3. Tidy(r)'
  BY <1>1, <1>2, HandOrRest DEF Tidy, Loaded, Saving, ReturnBlocked, handles
<1>4. AtRest(task[r])
  BY <1>1, HandOrRest DEF Loaded, Saving
<1>5. \A t \in Task : t = task[r] => AtRest(t)'
  BY <1>4, AllowedSame DEF AtRest, ReturnBlocked, files, failures, history
<1>6. \A t \in Task : recent'[t] <= clock'
  BY DEF ReturnBlocked, history, Turns
<1>7. ~Loaded(r)'
  BY <1>2 DEF Loaded, Saving
<1>8. QED
  BY <1>1, <1>2, <1>3, <1>5, <1>6, <1>7, Assemble DEF CallStep

LEMMA TurnsSucceed ==
  ASSUME SoundInv, TypeOK', Turns, NEW r \in Runner, Succeed(r)
  PROVE  Turns'
<1>1. TypeOK /\ pc[r] = "running"
  BY DEF SoundInv, Succeed
<1> DEFINE t == task[r]
           f == state_file[t]
           e == Succeeded(breakers[r][t])
<1>2. pc'[r] = "open" /\ task'[r] = t /\ t \in Task /\ streak'[t] = 0
      /\ UNCHANGED <<recent, unspaced, faults, Allowed, clock, state_file, temp_file, probing, fd, dirty, now>>
  BY <1>1, CallTypes, AllowedSame DEF Succeed, Goto, TypeOK, files, handles, failures
<1>3. breakers'[r] = [breakers[r] EXCEPT ![t] = e] /\ e \in Entry
  BY <1>1, CallTypes, SucceededType DEF Succeed, TypeOK
<1>4. breakers'[r][t] = e /\ \A u \in Task : u # t => breakers'[r][u] = breakers[r][u]
  BY <1>1, <1>3, CallTypes, UpdateType
<1>5. InHand(r) /\ Tidy(r) /\ ~probing[r]
  BY <1>1, HandOrRest DEF Loaded, Saving, Tidy
<1>6. Tidy(r)'
  BY <1>1, <1>2, <1>4, <1>5 DEF Tidy, Loaded, Saving, Kept
<1>7. unspaced[t] <= Allowed[t]
  <2> DEFINE owed == Missing(breakers[r][t].consecutive_failures + 1, streak[t] + 1)
  <2>1. unspaced[t] + owed <= Allowed[t]
    BY <1>1, <1>5 DEF InHand
  <2>2. breakers[r][t].consecutive_failures + 1 \in Nat /\ streak[t] + 1 \in Nat
    BY <1>1, CallTypes
  <2>3. owed \in Nat
    BY <2>2, MissingNat
  <2> HIDE DEF owed
  <2>4. QED
    BY <1>1, <2>1, <2>3, CallTypes
<1>8. Credit(f, 0, recent[t]) \in Nat /\ Credit(f, 0, recent[t]) <= 1
  BY <1>1, CallTypes, CreditNat, MissingMore DEF Credit
<1>9. Credit(e, 0, recent[t]) = 0 /\ e.consecutive_failures = 0
  BY <1>1, CallTypes, SucceededSound, MissingMore DEF Credit
<1>10. InHand(r)'
  <2> HIDE DEF e, f
  <2>1. f = state_file[t]
    BY DEF f
  <2>2. unspaced[t] + Credit(f, 0, recent[t]) <= Allowed[t] + 1
    BY <1>1, <1>7, <1>8, CallTypes
  <2>3. unspaced[t] + Credit(e, 0, recent[t]) <= Allowed[t]
    BY <1>1, <1>7, <1>9, CallTypes
  <2>4. QED
    BY <1>2, <1>4, <1>5, <1>9, <2>1, <2>2, <2>3 DEF InHand
<1>11. Loaded(r)' /\ \A u \in Task : recent'[u] <= clock'
  BY <1>2 DEF Loaded, Saving, Turns
<1>12. QED
  BY <1>1, <1>2, <1>6, <1>10, <1>11, Assemble DEF CallStep
LEMMA TurnsFail ==
  ASSUME SoundInv, TypeOK', Turns, NEW r \in Runner, Fail(r)
  PROVE  Turns'
<1>1. TypeOK /\ pc[r] = "running" /\ Sound(state_file) /\ Sound(breakers[r])
  BY DEF SoundInv, SoundMaps, Fail
<1> DEFINE t == task[r]
           f == state_file[t]
           b == breakers[r][t]
           n == b.consecutive_failures
           k == streak[t] + 1
           e == Failed(b, now[r])
           owed == Missing(n + 1, k)
<1>2. /\ t \in Task /\ now[r] \in Nat /\ f \in Entry /\ b \in Entry /\ n \in Nat
      /\ f.consecutive_failures \in Nat /\ streak[t] \in Nat /\ k \in Nat /\ n + 1 \in Nat
      /\ unspaced[t] \in Nat /\ Allowed[t] \in Nat /\ recent[t] \in Nat
      /\ clock \in Nat
  BY <1>1, CallTypes DEF TypeOK
<1>3. InHand(r) /\ Tidy(r) /\ ~probing[r] /\ recent[t] <= now[r] /\ now[r] <= clock
  BY <1>1, <1>2, HandOrRest DEF Loaded, Saving, Tidy
<1>4. pc'[r] = "open" /\ task'[r] = t /\ streak'[t] = k /\ recent'[t] = now[r]
      /\ (\A u \in Task : u # t => recent'[u] = recent[u])
      /\ UNCHANGED <<unspaced, faults, Allowed, clock, state_file, temp_file, probing, fd, dirty, now>>
  BY <1>1, <1>2, <1>3, AllowedSame DEF Fail, Goto, TypeOK, files, handles, failures
<1>5. breakers'[r] = [breakers[r] EXCEPT ![t] = e] /\ e \in Entry
  BY <1>1, <1>2, FailedType DEF Fail, TypeOK
<1>6. breakers'[r][t] = e /\ \A u \in Task : u # t => breakers'[r][u] = breakers[r][u]
  BY <1>1, <1>5, CallTypes, UpdateType
<1>7. \A u \in Task : recent[u] <= clock /\ recent[u] <= now[r]
  BY <1>1, <1>3 DEF Turns, Tidy
<1>8. \A u \in Task : recent'[u] <= clock' /\ recent'[u] <= now'[r]
  BY <1>2, <1>3, <1>4, <1>7
<1>9. Tidy(r)'
  BY <1>1, <1>3, <1>4, <1>6, <1>8 DEF Tidy, Loaded, Saving, Kept
<1>10. /\ unspaced[t] + owed <= Allowed[t]
       /\ f.state = "HEALTHY" => \/ f.consecutive_failures = n
                                 \/ unspaced[t] + Threshold <= Allowed[t] + 1
       /\ faults[t] = 0 => n <= streak[t]
  BY <1>1, <1>3 DEF InHand
<1>11. owed \in Nat
  BY <1>2, MissingNat
<1>12. e.consecutive_failures = n + 1
  BY <1>2, FailedSound
<1>13. Credit(e, k, now[r]) <= owed /\ Credit(e, k, now[r]) \in Nat
  <2>1. CASE n + 1 >= Threshold
    <3>1. e.state = "DEGRADED_QUARANTINED" /\ e.last_probe_time = now[r]
      BY <1>2, <2>1, FailedSound
    <3>2. Credit(e, k, now[r]) = 0
      BY <3>1 DEF Credit
    <3>3. QED
      BY <1>11, <3>2
  <2>2. CASE n + 1 < Threshold
    <3>1. b.state = "HEALTHY"
      BY <1>1, <1>2, <2>2, BreakerConstants DEF Sound
    <3>2. e.state = "HEALTHY"
      BY <1>2, <2>2, <3>1, FailedSound
    <3>3. Credit(e, k, now[r]) = owed
      BY <1>12, <3>2 DEF Credit
    <3>4. QED
      BY <1>11, <3>3
  <2>3. QED
    BY <1>2, <2>1, <2>2, BreakerConstants
<1>14. \/ Credit(f, k, now[r]) <= owed + 1
       \/ /\ Credit(f, k, now[r]) <= Threshold
          /\ unspaced[t] + Threshold <= Allowed[t] + 1
  <2>1. CASE f.state = "HEALTHY" /\ f.consecutive_failures = n
    <3>1. Credit(f, k, now[r]) = Missing(n, k)
      BY <2>1 DEF Credit
    <3>2. Missing(n, k) <= owed + 1
      BY <1>2, MissingMore
    <3>3. QED
      BY <3>1, <3>2
  <2>2. CASE f.state = "HEALTHY" /\ f.consecutive_failures # n
    <3>1. Credit(f, k, now[r]) = Missing(f.consecutive_failures, k)
      BY <2>2 DEF Credit
    <3>2. QED
      BY <1>2, <1>10, <2>2, <3>1, MissingNat
  <2>3. CASE f.state # "HEALTHY"
    <3>1. Credit(f, k, now[r]) \in Nat /\ Credit(f, k, now[r]) <= 1
      BY <1>2, <2>3, CreditNat
    <3>2. QED
      BY <1>11, <3>1
  <2>4. QED
    BY <2>1, <2>2, <2>3
<1>21. Credit(f, k, now[r]) \in Nat /\ Threshold \in Nat
  BY <1>2, CreditNat, BreakerConstants
<1> HIDE DEF e, f, owed
<1>15. unspaced[t] + Credit(f, k, now[r]) <= Allowed[t] + 1
  BY <1>2, <1>10, <1>11, <1>14, <1>21
<1>16. unspaced[t] + Credit(e, k, now[r]) <= Allowed[t]
  BY <1>2, <1>10, <1>11, <1>13
<1>17. faults[t] = 0 => e.consecutive_failures <= k
  BY <1>2, <1>10, <1>12
<1>18. InHand(r)'
  BY <1>3, <1>4, <1>6, <1>15, <1>16, <1>17 DEF InHand, f
<1>19. Loaded(r)'
  BY <1>4 DEF Loaded, Saving
<1>20. QED
  BY <1>1, <1>4, <1>8, <1>9, <1>18, <1>19, Assemble DEF CallStep
\* A run that begins too early uses up one of the runs its entry lets through.
LEMMA EarlyIsOwed ==
  ASSUME TypeOK, NEW r \in Runner, NEW t \in Task, NEW e \in Entry, now[r] \in Nat,
         \/ e.state = "SLOW_PROBING"
         \/ e.state = "HEALTHY" /\ e.consecutive_failures < Threshold
         \/ e.state = "DEGRADED_QUARANTINED" /\ Due(e, now[r])
  PROVE  /\ Early(t, now[r]) \in Nat
         /\ Early(t, now[r]) <= Credit(e, streak[t], recent[t])
         /\ e.state = "HEALTHY" =>
              Early(t, now[r]) + Missing(e.consecutive_failures + 1, streak[t] + 1)
                <= Credit(e, streak[t], recent[t])
<1> DEFINE n == e.consecutive_failures
           s == streak[t]
<1>1. n \in Nat /\ s \in Nat /\ recent[t] \in Nat /\ e.last_probe_time \in Nat
      /\ n + 1 \in Nat /\ s + 1 \in Nat
  BY DEF TypeOK, Entry
<1>2. Missing(n, s) \in Nat /\ Missing(n + 1, s + 1) \in Nat
  BY <1>1, MissingNat
<1>3. Early(t, now[r]) \in {0, 1}
  BY DEF Early
<1>4. Credit(e, s, recent[t]) \in Nat
  BY <1>1, CreditNat
<1>5. CASE e.state = "HEALTHY"
  <2>1. Credit(e, s, recent[t]) = Missing(n, s)
    BY <1>5 DEF Credit
  <2>2. n < Threshold
    BY <1>5
  <2>3. Missing(n + 1, s + 1) <= Missing(n, s)
    BY <1>1, MissingMore
  <2>4. s >= Threshold => Missing(n + 1, s + 1) + 1 <= Missing(n, s)
    BY <1>1, <2>2, MissingMore
  <2>5. Early(t, now[r]) = 1 => s >= Threshold
    BY DEF Early
  <2> HIDE DEF n, s
  <2>6. Early(t, now[r]) + Missing(n + 1, s + 1) <= Missing(n, s)
    BY <1>2, <1>3, <2>3, <2>4, <2>5
  <2>7. QED
    BY <1>2, <1>3, <2>1, <2>6 DEF n, s
<1>6. CASE e.state = "SLOW_PROBING"
  BY <1>3, <1>6 DEF Credit
<1>7. CASE e.state = "DEGRADED_QUARANTINED" /\ Due(e, now[r])
  <2>1. Early(t, now[r]) = 1 => e.last_probe_time # recent[t]
    BY <1>1, <1>7, BreakerConstants DEF Early, Due
  <2>2. Credit(e, s, recent[t]) = 0 => e.last_probe_time = recent[t]
    BY <1>7 DEF Credit
  <2>3. QED
    BY <1>3, <1>4, <1>7, <2>1, <2>2
<1>8. QED
  BY <1>5, <1>6, <1>7

LEMMA TurnsLoad ==
  ASSUME SoundInv, TypeOK', Turns, NEW r \in Runner, Load(r)
  PROVE  Turns'
<1>1. TypeOK /\ pc[r] = "called" /\ Sound(state_file)
  BY DEF SoundInv, SoundMaps, Load
<1> DEFINE t == task[r]
           f == state_file[t]
           n == f.consecutive_failures
           s == streak[t]
           p == [f EXCEPT !.state = "SLOW_PROBING", !.last_probe_time = now[r]]
<1>2. /\ t \in Task /\ now[r] \in Nat /\ f \in Entry /\ n \in Nat
      /\ s \in Nat /\ s + 1 \in Nat /\ n + 1 \in Nat
      /\ unspaced[t] \in Nat /\ Allowed[t] \in Nat /\ recent[t] \in Nat
      /\ clock \in Nat /\ f.state \in {"HEALTHY", "DEGRADED_QUARANTINED", "SLOW_PROBING"}
  BY <1>1, CallTypes DEF TypeOK, Entry
<1>3. AtRest(t) /\ Tidy(r) /\ ~probing[r] /\ now[r] <= clock /\ recent[t] <= now[r]
  BY <1>1, <1>2, HandOrRest DEF Loaded, Saving, Tidy
<1>4. /\ task' = task /\ streak' = streak /\ faults' = faults /\ Allowed' = Allowed
      /\ UNCHANGED <<clock, state_file, temp_file, now, fd, dirty>>
  BY AllowedSame DEF Load, files, handles, failures
<1>5. \A u \in Task : recent[u] <= clock /\ recent[u] <= now[r]
  BY <1>1, <1>3 DEF Turns, Tidy
<1>6. \A u \in Task : recent'[u] <= clock' /\ recent'[u] <= now'[r]
  BY <1>2, <1>3, <1>4, <1>5 DEF Load, TypeOK
<1>7. /\ unspaced[t] + Credit(f, s, recent[t]) <= Allowed[t]
      /\ faults[t] = 0 => n <= s
  BY <1>3 DEF AtRest
<1>8. Credit(f, s, recent[t]) \in Nat /\ Early(t, now[r]) \in Nat
  BY <1>2, CreditNat DEF Early
<1>9. f.state = "HEALTHY" => n < Threshold
  BY <1>1, <1>2 DEF Sound
<1>10. f.state # "HEALTHY" => n >= Threshold
  BY <1>1, <1>2, BreakerConstants DEF Sound
<1>11. f.state # "HEALTHY" => Missing(n + 1, s + 1) = 0
  BY <1>2, <1>10, MissingMore, BreakerConstants
<1>12. CASE f.state = "DEGRADED_QUARANTINED" /\ ~Due(f, now[r])
  <2>1. pc'[r] = "blocked" /\ UNCHANGED <<breakers, probing, recent, unspaced>>
    BY <1>1, <1>12 DEF Load, Goto, TypeOK
  <2>2. Tidy(r)'
    BY <1>1, <1>3, <1>4, <1>6, <1>12, <2>1 DEF Tidy, Loaded, Saving
  <2>3. ~Loaded(r)' /\ \A u \in Task : u = task[r] => AtRest(u)'
    BY <1>3, <1>4, <2>1 DEF AtRest, Loaded, Saving
  <2>4. QED
    BY <1>1, <1>4, <1>6, <2>2, <2>3, Assemble DEF CallStep
<1>13. CASE f.state = "DEGRADED_QUARANTINED" /\ Due(f, now[r])
  <2>1. /\ pc'[r] = "open" /\ probing'[r]
        /\ recent'[t] = now[r] /\ unspaced'[t] = unspaced[t] + Early(t, now[r])
        /\ breakers'[r] = [state_file EXCEPT ![t] = p]
    <3>1. /\ pc' = [pc EXCEPT ![r] = "open"]
          /\ probing' = [probing EXCEPT ![r] = TRUE]
          /\ recent' = [recent EXCEPT ![t] = IF @ > now[r] THEN @ ELSE now[r]]
          /\ unspaced' = [unspaced EXCEPT ![t] = @ + Early(t, now[r])]
          /\ breakers' = [breakers EXCEPT ![r] = [state_file EXCEPT ![t] = p]]
      BY <1>13, Zenon DEF Load, Goto
    <3>2. /\ pc \in [Runner -> Stage] /\ probing \in [Runner -> BOOLEAN]
          /\ recent \in [Task -> Nat] /\ unspaced \in [Task -> Nat]
          /\ breakers \in [Runner -> Breakers]
      BY <1>1 DEF TypeOK
    <3>3. probing'[r]
      BY <3>1, <3>2, Zenon
    <3> HIDE DEF p
    <3>4. breakers'[r] = [state_file EXCEPT ![t] = p]
      BY <3>1, <3>2, Zenon
    <3>5. QED
      BY <1>2, <1>3, <3>1, <3>2, <3>3, <3>4
  <2>2. p \in Entry /\ p.state = "SLOW_PROBING" /\ p.consecutive_failures = n
    BY <1>2, ProbeEntryType, ProbeEntrySound
  <2> HIDE DEF p
  <2>3. breakers'[r][t] = p /\ \A u \in Task : u # t => breakers'[r][u] = state_file[u]
    BY <1>1, <1>2, <2>1, <2>2, CallTypes, UpdateType
  <2>4. Saving(r)'
    BY <2>1 DEF Saving
  <2>5. Tidy(r)'
    BY <1>1, <1>3, <1>4, <1>6, <2>1, <2>2, <2>3, <2>4 DEF Tidy, Kept
  <2>6. Early(t, now[r]) <= Credit(f, s, recent[t])
    BY <1>1, <1>2, <1>13, EarlyIsOwed
  <2>7. unspaced'[t] <= Allowed[t] /\ unspaced'[t] \in Nat
    BY <1>2, <1>7, <1>8, <2>1, <2>6
  <2>8. Credit(f, s, now[r]) <= 1 /\ Credit(f, s, now[r]) \in Nat
    BY <1>2, <1>13, CreditNat
  <2>9. unspaced'[t] + Credit(f, s, now[r]) <= Allowed[t] + 1
    BY <1>2, <2>7, <2>8
  <2>10. unspaced'[t] + Missing(n + 1, s + 1) <= Allowed[t]
    BY <1>2, <1>11, <1>13, <2>7
  <2>11. InHand(r)'
    BY <1>4, <1>7, <1>13, <2>1, <2>2, <2>3, <2>9, <2>10 DEF InHand
  <2>12. QED
    BY <1>1, <1>4, <1>6, <2>4, <2>5, <2>11, Assemble DEF CallStep, Loaded
<1>14. CASE f.state # "DEGRADED_QUARANTINED"
  <2>1. /\ pc'[r] = "running" /\ probing' = probing /\ recent' = recent
        /\ unspaced'[t] = unspaced[t] + Early(t, now[r])
        /\ breakers'[r] = state_file
    BY <1>1, <1>2, <1>14 DEF Load, Goto, TypeOK
  <2>2. Loaded(r)' /\ ~Saving(r)'
    BY <2>1 DEF Loaded, Saving
  <2>3. Tidy(r)'
    BY <1>1, <1>3, <1>4, <1>6, <2>1, <2>2 DEF Tidy, Kept
  <2>4. Early(t, now[r]) <= Credit(f, s, recent[t])
    BY <1>1, <1>2, <1>9, <1>14, EarlyIsOwed
  <2>5. unspaced'[t] + Missing(n + 1, s + 1) <= Allowed[t]
    <3>1. CASE f.state = "HEALTHY"
      <4>1. Early(t, now[r]) + Missing(n + 1, s + 1) <= Credit(f, s, recent[t])
        BY <1>1, <1>2, <1>9, <3>1, EarlyIsOwed
      <4>2. Missing(n + 1, s + 1) \in Nat
        BY <1>2, MissingNat
      <4> HIDE DEF n, s, f
      <4>3. QED
        BY <1>2, <1>7, <1>8, <2>1, <4>1, <4>2
    <3>2. CASE f.state # "HEALTHY"
      BY <1>2, <1>7, <1>8, <1>11, <2>1, <2>4, <3>2
    <3>3. QED
      BY <3>1, <3>2
  <2>6. Early(t, now[r]) <= 1
    BY DEF Early
  <2>7. unspaced'[t] + Credit(f, s, recent[t]) <= Allowed[t] + 1
    BY <1>2, <1>7, <1>8, <2>1, <2>6
  <2>8. InHand(r)'
    BY <1>4, <1>7, <2>1, <2>2, <2>5, <2>7 DEF InHand
  <2>9. QED
    BY <1>1, <1>4, <1>6, <2>2, <2>3, <2>8, Assemble DEF CallStep
<1>15. QED
  BY <1>12, <1>13, <1>14
\* A load that fails gives its own task, and with the next save all others, a
\* new entry.
LEMMA TurnsLoadFails ==
  ASSUME SoundInv, TypeOK', Turns, NEW r \in Runner, LoadFails(r)
  PROVE  Turns'
<1>1. TypeOK /\ pc[r] = "called"
  BY DEF SoundInv, LoadFails
<1> DEFINE t == task[r]
           f == state_file[t]
           s == streak[t]
           c == Credit(f, s, recent[t])
           owed == Missing(0 + 1, s + 1)
<1>2. /\ t \in Task /\ now[r] \in Nat /\ f \in Entry /\ s \in Nat /\ s + 1 \in Nat
      /\ unspaced[t] \in Nat /\ Allowed[t] \in Nat /\ recent[t] \in Nat
      /\ Threshold \in Nat
  BY <1>1, CallTypes, BreakerConstants
<1>3. AtRest(t) /\ Tidy(r) /\ ~probing[r]
  BY <1>1, <1>2, HandOrRest DEF Loaded, Saving, Tidy
<1>4. /\ pc'[r] = "running" /\ breakers'[r] = Fresh
      /\ unspaced'[t] = unspaced[t] + Early(t, now[r])
      /\ \A u \in Task : u # t => unspaced'[u] = unspaced[u]
      /\ UNCHANGED <<clock, state_file, temp_file, task, now, probing, fd, dirty, faults,
                     streak, recent>>
  BY <1>1, <1>2 DEF LoadFails, Goto, TypeOK, files, handles
<1>5. \A u \in Task : Allowed'[u] = Allowed[u] + Threshold
  BY <1>1, AllowedMisread DEF LoadFails
<1>6. Early(t, now[r]) \in {0, 1}
  BY DEF Early
<1>7. c \in Nat /\ owed \in Nat /\ owed <= Threshold - 1
  <2>1. c \in Nat
    BY <1>2, CreditNat
  <2>2. owed \in Nat
    <3>1. 0 + 1 \in Nat
      OBVIOUS
    <3> HIDE DEF s
    <3>2. QED
      BY <1>2, <3>1, MissingNat
  <2>3. owed <= Threshold - 1
    BY <1>2, MissingMore
  <2>4. QED
    BY <2>1, <2>2, <2>3
<1>8. Fresh[t] = NewEntry /\ NewEntry.consecutive_failures = 0
  BY <1>2 DEF Fresh, NewEntry
<1>9. Loaded(r)' /\ ~Saving(r)'
  BY <1>4 DEF Loaded, Saving
<1>10. ASSUME NEW u \in Task, u # t PROVE Kept(u, breakers[r][u])'
  <2>1. ~Busy(u)
    BY <1>1, <1>10 DEF Turns, OneAtATime, Busy, Loaded, Saving
  <2>2. unspaced[u] + Credit(state_file[u], streak[u], recent[u]) <= Allowed[u]
    BY <2>1 DEF Turns, AtRest
  <2>3. Credit(state_file[u], streak[u], recent[u]) \in Nat
    BY <1>1, CreditNat DEF TypeOK, Breakers
  <2>4. unspaced[u] \in Nat /\ Allowed[u] \in Nat
    BY <1>1, AllowedType DEF TypeOK
  <2>5. unspaced[u] <= Allowed[u]
    BY <2>2, <2>3, <2>4
  <2>6. unspaced'[u] + Threshold <= Allowed'[u]
    BY <1>2, <1>4, <1>5, <1>10, <2>4, <2>5
  <2>7. breakers'[r][u] = NewEntry
    BY <1>4 DEF Fresh
  <2>8. QED
    BY <2>6, <2>7 DEF Kept
<1>11. Tidy(r)'
  BY <1>1, <1>3, <1>4, <1>9, <1>10 DEF Tidy
<1>12. unspaced[t] + c <= Allowed[t]
  BY <1>3 DEF AtRest
<1> HIDE DEF c, owed, f, s
<1>13. /\ unspaced'[t] + c <= Allowed'[t] + 1
       /\ unspaced'[t] + owed <= Allowed'[t]
       /\ unspaced'[t] + Threshold <= Allowed'[t] + 1
  BY <1>2, <1>4, <1>5, <1>6, <1>7, <1>12
<1>14. InHand(r)'
  <2>1. breakers'[r][t].consecutive_failures = 0
    BY <1>4, <1>8
  <2>2. task'[r] = t /\ ~probing'[r]
    BY <1>3, <1>4
  <2>3. 0 <= s
    BY <1>2
  <2>4. QED
    BY <1>4, <1>9, <1>13, <2>1, <2>2, <2>3 DEF InHand, c, owed, f, s
<1>15. \A u \in Task : recent'[u] <= clock'
  BY <1>4 DEF Turns
<1>16. QED
  BY <1>1, <1>4, <1>9, <1>11, <1>14, <1>15, Assemble DEF CallStep

LEMMA TurnsOpenTemp ==
  ASSUME SoundInv, TypeOK', Turns, NEW r \in Runner, OpenTemp(r)
  PROVE  Turns'
<1>1. TypeOK /\ pc[r] = "open" /\ task[r] \in Task
  BY CallTypes DEF SoundInv, OpenTemp
<1>2. pc'[r] = "write" /\ fd'[r] = "temp" /\ ~dirty'[r]
      /\ UNCHANGED <<clock, state_file, call, faults, Allowed, history>>
  BY <1>1, AllowedSame DEF OpenTemp, Goto, TypeOK, failures
<1>3. InHand(r) /\ Tidy(r) /\ Loaded(r) /\ Saving(r)
  BY <1>1, HandOrRest DEF Loaded, Saving
<1>4. Loaded(r)' /\ Saving(r)'
  BY <1>2 DEF Loaded, Saving
<1>5. Tidy(r)'
  BY <1>1, <1>2, <1>3, <1>4 DEF Tidy, Kept, call, history
<1>6. InHand(r)'
  BY <1>1, <1>2, <1>3, <1>4 DEF InHand, call, history
<1>7. task'[r] = task[r] /\ \A t \in Task : recent'[t] <= clock'
  BY <1>2 DEF Turns, call, history
<1>8. QED
  BY <1>1, <1>4, <1>5, <1>6, <1>7, Assemble DEF CallStep

LEMMA TurnsWriteTemp ==
  ASSUME SoundInv, TypeOK', Turns, NEW r \in Runner, WriteTemp(r)
  PROVE  Turns'
<1>1. TypeOK /\ pc[r] = "write" /\ task[r] \in Task
  BY CallTypes DEF SoundInv, WriteTemp
<1>2. InHand(r) /\ Tidy(r) /\ Loaded(r) /\ Saving(r) /\ fd[r] = "temp" /\ ~dirty[r]
  BY <1>1, HandOrRest DEF Loaded, Saving, Tidy
<1>3. pc'[r] = "replace" /\ fd'[r] = "none" /\ ~dirty'[r]
      /\ temp_file' = breakers[r] /\ state_file' = state_file
      /\ UNCHANGED <<clock, call, faults, Allowed, history>>
  BY <1>1, <1>2, AllowedSame DEF WriteTemp, Goto, TypeOK, failures
<1>4. Loaded(r)' /\ Saving(r)'
  BY <1>3 DEF Loaded, Saving
<1>5. Tidy(r)'
  BY <1>1, <1>2, <1>3, <1>4 DEF Tidy, Kept, call, history
<1>6. InHand(r)'
  BY <1>1, <1>2, <1>3, <1>4 DEF InHand, call, history
<1>7. task'[r] = task[r] /\ \A t \in Task : recent'[t] <= clock'
  BY <1>3 DEF Turns, call, history
<1>8. QED
  BY <1>1, <1>4, <1>5, <1>6, <1>7, Assemble DEF CallStep

\* A call that returns leaves nothing behind in the runner.
LEMMA ReturnTidy ==
  ASSUME TypeOK, NEW r \in Runner, Return(r), fd'[r] = "none", ~dirty'[r],
         ~probing'[r], clock' = clock
  PROVE  Tidy(r)' /\ ~Loaded(r)' /\ task'[r] = NoTask
<1>1. pc'[r] = "idle" /\ task'[r] = NoTask /\ now'[r] = 0 /\ clock' \in Nat
  BY DEF Return, Goto, TypeOK
<1>2. QED
  BY <1>1 DEF Tidy, Loaded, Saving

LEMMA TurnsReplace ==
  ASSUME SoundInv, TypeOK', Turns, NEW r \in Runner, Replace(r)
  PROVE  Turns'
<1>1. TypeOK /\ pc[r] = "replace" /\ task[r] \in Task
  BY CallTypes DEF SoundInv, Replace
<1> DEFINE t == task[r]
           e == breakers[r][t]
<1>2. InHand(r) /\ Tidy(r) /\ Loaded(r) /\ Saving(r)
      /\ fd[r] = "none" /\ ~dirty[r] /\ temp_file = breakers[r]
  BY <1>1, HandOrRest DEF Loaded, Saving, Tidy
<1>3. temp_file # NoFile
  BY <1>1, <1>2, CallTypes, FilesDiffer
<1>4. state_file' = breakers[r] /\ state_file'[t] = e /\ AfterSave(r)
      /\ UNCHANGED <<clock, dirty, faults, Allowed, history>>
  BY <1>2, <1>3, AllowedSame DEF Replace, failures
<1>5. fd'[r] = "none" /\ ~dirty'[r]
  BY <1>1, <1>2, <1>3 DEF Replace, TypeOK
<1>6. ~probing'[r]
  BY <1>1, <1>4 DEF AfterSave, TypeOK
<1>7. \A u \in Task : recent'[u] <= clock'
  BY <1>4 DEF Turns, history
<1>8. e \in Entry /\ unspaced[t] \in Nat /\ Allowed[t] \in Nat /\ streak[t] \in Nat
      /\ recent[t] \in Nat /\ e.consecutive_failures + 1 \in Nat /\ streak[t] + 1 \in Nat
  BY <1>1, CallTypes
<1>9. CASE probing[r]
  <2>1. pc'[r] = "running" /\ UNCHANGED <<task, now, breakers>>
    BY <1>1, <1>4, <1>9 DEF AfterSave, Goto, TypeOK
  <2>2. Loaded(r)' /\ ~Saving(r)'
    BY <2>1 DEF Loaded, Saving
  <2>3. Tidy(r)'
    BY <1>1, <1>2, <1>4, <1>5, <1>6, <2>1, <2>2 DEF Tidy, Kept, history
  <2>4. e.state = "SLOW_PROBING"
    BY <1>2, <1>9 DEF Tidy
  <2> DEFINE owed == Missing(e.consecutive_failures + 1, streak[t] + 1)
  <2>5. unspaced[t] + owed <= Allowed[t] /\ owed \in Nat
    BY <1>2, <1>8, <1>9, MissingNat DEF InHand
  <2>6. Credit(e, streak[t], recent[t]) \in Nat /\ Credit(e, streak[t], recent[t]) <= 1
    BY <1>8, <2>4, CreditNat
  <2> HIDE DEF owed
  <2>7. unspaced[t] + Credit(e, streak[t], recent[t]) <= Allowed[t] + 1
    BY <1>8, <2>5, <2>6
  <2>8. InHand(r)'
    BY <1>2, <1>4, <2>1, <2>2, <2>4, <2>5, <2>7 DEF InHand, history, owed
  <2>9. QED
    BY <1>1, <1>7, <2>1, <2>2, <2>3, <2>8, Assemble DEF CallStep
<1>10. CASE ~probing[r]
  <2>1. Return(r)
    BY <1>4, <1>10 DEF AfterSave
  <2>2. Tidy(r)' /\ ~Loaded(r)' /\ task'[r] = NoTask
    BY <1>1, <1>4, <1>5, <1>6, <2>1, ReturnTidy
  <2>3. /\ unspaced[t] + Credit(e, streak[t], recent[t]) <= Allowed[t]
        /\ faults[t] = 0 => e.consecutive_failures <= streak[t]
    BY <1>2, <1>10 DEF InHand
  <2>4. \A u \in Task : u = task[r] => AtRest(u)'
    BY <1>4, <2>3 DEF AtRest, history
  <2>5. QED
    BY <1>1, <1>7, <2>2, <2>4, Assemble DEF CallStep
<1>11. QED
  BY <1>9, <1>10

\* What a lost save or a lost call leaves of its task.
LEMMA AfterFault ==
  ASSUME TypeOK, Turns, NEW r \in Runner, pc[r] # "idle", Fault(task[r]),
         misreads' = misreads, UNCHANGED <<state_file, streak, recent, unspaced>>
  PROVE  \A t \in Task : t = task[r] => AtRest(t)'
<1> DEFINE t == task[r]
           c == Credit(state_file[t], streak[t], recent[t])
<1>1. t \in Task /\ Allowed[t] \in Nat /\ unspaced[t] \in Nat /\ c \in Nat
  BY CallTypes, CreditNat
<1>2. Allowed'[t] = Allowed[t] + 1 /\ faults'[t] # 0
  BY FaultType, AllowedFault DEF TypeOK
<1>3. unspaced[t] + c <= Allowed[t] + 1
  <2>1. CASE Loaded(r)
    BY <2>1, HandOrRest DEF InHand
  <2>2. CASE ~Loaded(r)
    <3>1. unspaced[t] + c <= Allowed[t]
      BY <2>2, HandOrRest DEF AtRest
    <3> HIDE DEF c
    <3>2. QED
      BY <1>1, <3>1
  <2>3. QED
    BY <2>1, <2>2
<1> HIDE DEF c
<1>4. unspaced[t] + c <= Allowed'[t]
  BY <1>1, <1>2, <1>3
<1>5. QED
  BY <1>2, <1>4 DEF AtRest, c

LEMMA TurnsSaveError ==
  ASSUME SoundInv, TypeOK', Turns, NEW r \in Runner, SaveError(r)
  PROVE  Turns'
<1>1. TypeOK /\ pc[r] # "idle" /\ task[r] \in Task /\ Saving(r) /\ Loaded(r)
  BY CallTypes DEF SoundInv, SaveError, Saving, Loaded
<1>2. InHand(r) /\ Tidy(r)
  BY <1>1, HandOrRest
<1>3. AfterSave(r) /\ Fault(task[r]) /\ misreads' = misreads
      /\ UNCHANGED <<clock, state_file, temp_file, history>>
  BY DEF SaveError, files
<1>4. fd'[r] = "none" /\ ~dirty'[r] /\ ~probing'[r]
  BY <1>1 DEF SaveError, AfterSave, TypeOK
<1>5. \A u \in Task : recent'[u] <= clock'
  BY <1>3 DEF Turns, history
<1>6. CASE ~probing[r]
  <2>1. Return(r)
    BY <1>3, <1>6 DEF AfterSave
  <2>2. Tidy(r)' /\ ~Loaded(r)' /\ task'[r] = NoTask
    BY <1>1, <1>3, <1>4, <2>1, ReturnTidy
  <2>3. \A t \in Task : t = task[r] => AtRest(t)'
    BY <1>1, <1>3, AfterFault DEF history
  <2>4. QED
    BY <1>1, <1>5, <2>2, <2>3, Assemble DEF CallStep
<1>7. CASE probing[r]
  <2> DEFINE t == task[r]
             f == state_file[t]
             e == breakers[r][t]
             c == Credit(f, streak[t], recent[t])
             owed == Missing(e.consecutive_failures + 1, streak[t] + 1)
  <2>1. pc'[r] = "running" /\ UNCHANGED <<task, now, breakers>>
    BY <1>1, <1>3, <1>7 DEF AfterSave, Goto, TypeOK
  <2>2. Loaded(r)' /\ ~Saving(r)'
    BY <2>1 DEF Loaded, Saving
  <2>3. Tidy(r)'
    <3>1. \A u \in Task : u # t => Allowed'[u] = Allowed[u]
      BY <1>1, <1>3, AllowedFault
    <3>2. QED
      BY <1>1, <1>2, <1>3, <1>4, <2>1, <2>2, <3>1 DEF Tidy, Kept, history
  <2>4. /\ unspaced[t] + c <= Allowed[t] + 1 /\ unspaced[t] + owed <= Allowed[t]
        /\ f.state = "HEALTHY" => \/ f.consecutive_failures = e.consecutive_failures
                                  \/ unspaced[t] + Threshold <= Allowed[t] + 1
    BY <1>2, <1>7 DEF InHand
  <2>5. c \in Nat /\ owed \in Nat /\ unspaced[t] \in Nat /\ Allowed[t] \in Nat
        /\ Threshold \in Nat
    <3>1. e.consecutive_failures + 1 \in Nat /\ streak[t] + 1 \in Nat
      BY <1>1, CallTypes
    <3>2. QED
      BY <1>1, <3>1, CallTypes, MissingNat, CreditNat, BreakerConstants
  <2>6. Allowed'[t] = Allowed[t] + 1 /\ faults'[t] # 0
    BY <1>1, <1>3, FaultType, AllowedFault DEF TypeOK
  <2> HIDE DEF c, owed
  <2>7. /\ unspaced[t] + c <= Allowed'[t] + 1 /\ unspaced[t] + owed <= Allowed'[t]
        /\ unspaced[t] + Threshold <= Allowed[t] + 1
             => unspaced[t] + Threshold <= Allowed'[t] + 1
    BY <2>4, <2>5, <2>6
  <2>8. InHand(r)'
    BY <1>3, <2>1, <2>2, <2>4, <2>6, <2>7 DEF InHand, history, c, owed
  <2>9. QED
    BY <1>1, <1>5, <2>1, <2>2, <2>3, <2>8, Assemble DEF CallStep
<1>8. QED
  BY <1>6, <1>7

LEMMA TurnsCrash ==
  ASSUME SoundInv, TypeOK', Turns, NEW r \in Runner, Crash(r)
  PROVE  Turns'
<1>1. TypeOK /\ pc[r] # "idle" /\ task[r] \in Task
  BY CallTypes DEF SoundInv, Crash
<1>2. Return(r) /\ Fault(task[r]) /\ misreads' = misreads /\ UNCHANGED <<clock, state_file, history>>
  BY DEF Crash, files
<1>3. fd'[r] = "none" /\ ~dirty'[r] /\ ~probing'[r]
  BY <1>1 DEF Crash, TypeOK
<1>4. Tidy(r)' /\ ~Loaded(r)' /\ task'[r] = NoTask
  BY <1>1, <1>2, <1>3, ReturnTidy
<1>5. \A t \in Task : t = task[r] => AtRest(t)'
  BY <1>1, <1>2, AfterFault DEF history
<1>6. \A u \in Task : recent'[u] <= clock'
  BY <1>2 DEF Turns, history
<1>7. QED
  BY <1>1, <1>4, <1>5, <1>6, Assemble DEF CallStep
\* A call begins: it is the only one, and knows nothing yet.
LEMMA TurnsCall ==
  ASSUME TypeOK, TypeOK', Turns, NEW r \in Runner, NEW t \in Task, Call(r, t),
         ~overlapped'
  PROVE  Turns'
<1>1. \A o \in Runner : pc[o] = "idle"
  BY Zenon DEF Call
<1>2. pc'[r] = "called" /\ now'[r] = clock
      /\ (\A o \in Runner : o # r => pc'[o] = "idle" /\ now'[o] = now[o])
      /\ UNCHANGED <<clock, files, breakers, probing, handles, faults, Allowed, streak, recent, unspaced>>
  BY <1>1, AllowedSame DEF Call, Goto, TypeOK, failures
<1>3. \A o \in Runner : ~Loaded(o) /\ ~Loaded(o)' /\ ~Saving(o)
  BY <1>1, <1>2 DEF Loaded, Saving
<1>4. \A o \in Runner : ~probing[o] /\ fd[o] = "none" /\ ~dirty[o] /\ now[o] <= clock
  BY <1>1, <1>3 DEF Turns, Tidy
<1>5. OneAtATime'
  BY <1>2 DEF OneAtATime
<1>6. \A u \in Task : recent[u] <= clock
  BY DEF Turns
<1>7. ASSUME NEW o \in Runner PROVE Tidy(o)'
  <2>1. now'[o] <= clock' /\ fd'[o] = "none" /\ ~dirty'[o] /\ ~probing'[o]
    BY <1>2, <1>4 DEF handles, TypeOK
  <2>2. o # r => pc'[o] = "idle"
    BY <1>2
  <2>3. QED
    BY <1>2, <1>3, <1>6, <2>1, <2>2 DEF Tidy
<1>8. ASSUME NEW u \in Task PROVE AtRest(u)'
  <2>1. AtRest(u)
    BY <1>3 DEF Turns, Busy
  <2>2. QED
    BY <1>2, <2>1 DEF AtRest, files
<1>9. QED
  BY <1>2, <1>3, <1>5, <1>6, <1>7, <1>8 DEF Turns

\* The passing of time and a step that changes nothing.
LEMMA TurnsIdleStep ==
  ASSUME TypeOK, Turns, clock' >= clock, clock' \in Nat,
         UNCHANGED <<files, pc, call, handles, failures, history>>
  PROVE  Turns'
<1>1. UNCHANGED <<state_file, temp_file, pc, task, now, breakers, probing, fd, dirty,
                  faults, Allowed, streak, recent, unspaced>>
  BY AllowedSame DEF files, call, handles, failures, history
<1>2. \A t \in Task : recent[t] <= clock'
  BY DEF Turns, TypeOK
<1>3. ASSUME NEW r \in Runner PROVE Tidy(r)'
  <2>1. Tidy(r) /\ now[r] \in Nat
    BY DEF Turns, TypeOK
  <2>2. now'[r] <= clock'
    BY <1>1, <2>1 DEF Tidy, TypeOK
  <2>3. QED
    BY <1>1, <2>1, <2>2 DEF Tidy, Kept, Loaded, Saving
<1>4. OneAtATime'
  BY <1>1 DEF Turns, OneAtATime
<1>5. ASSUME NEW t \in Task, ~Busy(t)' PROVE AtRest(t)'
  BY <1>1, <1>5 DEF Turns, Busy, Loaded, Saving, AtRest
<1>6. ASSUME NEW r \in Runner, Loaded(r)' PROVE InHand(r)'
  BY <1>1, <1>6 DEF Turns, Loaded, Saving, InHand
<1>7. QED
  BY <1>1, <1>2, <1>3, <1>4, <1>5, <1>6 DEF Turns

LEMMA TurnsStep == TurnsInv /\ [Next]_vars => TurnsInv'
<1> SUFFICES ASSUME TurnsInv, [Next]_vars, ~overlapped' PROVE Turns'
  BY SoundStep DEF TurnsInv
<1>1. SoundInv /\ TypeOK /\ TypeOK'
  BY SoundStep DEF TurnsInv, SoundInv
<1>2. ~overlapped
  BY Zenon DEF Next, RunnerStep, vars, history, Tick, Call, Load, LoadFails, ReturnBlocked, Succeed,
     Fail, OpenTemp, WriteTemp, Replace, SaveError, Crash
<1>3. Turns
  BY <1>2 DEF TurnsInv
<1>4. CASE UNCHANGED vars
  BY <1>1, <1>3, <1>4, TurnsIdleStep DEF vars, TypeOK
<1>5. CASE Tick
  BY <1>1, <1>3, <1>5, TurnsIdleStep DEF Tick, TypeOK
<1>6. ASSUME NEW r \in Runner, RunnerStep(r) PROVE Turns'
  <2>1. ASSUME NEW t \in Task, Call(r, t) PROVE Turns'
    BY <1>1, <1>3, <2>1, TurnsCall
  <2>2. CASE Load(r)
    BY <1>1, <1>3, <2>2, TurnsLoad
  <2>3. CASE ReturnBlocked(r)
    BY <1>1, <1>3, <2>3, TurnsReturnBlocked
  <2>4. CASE Succeed(r)
    BY <1>1, <1>3, <2>4, TurnsSucceed
  <2>5. CASE Fail(r)
    BY <1>1, <1>3, <2>5, TurnsFail
  <2>6. CASE OpenTemp(r)
    BY <1>1, <1>3, <2>6, TurnsOpenTemp
  <2>7. CASE WriteTemp(r)
    BY <1>1, <1>3, <2>7, TurnsWriteTemp
  <2>8. CASE Replace(r)
    BY <1>1, <1>3, <2>8, TurnsReplace
  <2>9. CASE SaveError(r)
    BY <1>1, <1>3, <2>9, TurnsSaveError
  <2>10. CASE Crash(r)
    BY <1>1, <1>3, <2>10, TurnsCrash
  <2>11. CASE LoadFails(r)
    BY <1>1, <1>3, <2>11, TurnsLoadFails
  <2>12. QED
    BY <1>6, <2>1, <2>2, <2>3, <2>4, <2>5, <2>6, <2>7, <2>8, <2>9, <2>10, <2>11
       DEF RunnerStep
<1>7. QED
  BY <1>4, <1>5, <1>6 DEF Next

LEMMA InitTurns == Init => TurnsInv
<1> SUFFICES ASSUME Init PROVE TurnsInv
  OBVIOUS
<1>1. SoundInv
  BY InitSound
<1>2. \A r \in Runner : ~Loaded(r) /\ pc[r] = "idle" /\ fd[r] = "none" /\ now[r] = 0
  BY DEF Init, Loaded, Saving
<1>3. \A r \in Runner : ~dirty[r] /\ ~probing[r]
  BY Zenon DEF Init
<1>4. clock \in Nat /\ \A t \in Task : recent[t] = 0 /\ streak[t] = 0 /\ unspaced[t] = 0 /\ faults[t] = 0
  BY BreakerConstants DEF Init
<1>5. \A r \in Runner : Tidy(r)
  BY <1>2, <1>3, <1>4 DEF Tidy
<1>6. ASSUME NEW t \in Task PROVE AtRest(t)
  <2>5. Allowed[t] \in Nat
    BY <1>1, AllowedType DEF SoundInv
  <2>1. state_file[t] = NewEntry
    BY DEF Init, Fresh
  <2>2. state_file[t].consecutive_failures = 0 /\ state_file[t].state = "HEALTHY"
    BY <2>1 DEF NewEntry
  <2>3. Credit(state_file[t], 0, 0) = 0
    BY <2>2, MissingMore DEF Credit
  <2>4. QED
    BY <1>4, <2>2, <2>3, <2>5 DEF AtRest
<1>7. QED
  BY <1>1, <1>2, <1>4, <1>5, <1>6 DEF TurnsInv, Turns, OneAtATime

\* While runners take turns, a task is refused only after Threshold failures in
\* a row, unless a save of its own failed or a runner died in its call.
THEOREM DenialsAreEarned == Spec => []DenialIsEarned
BY InitTurns, TurnsStep, TurnsEarned, PTL DEF Spec

\* While runners take turns, a quarantined task runs before its interval is
\* over at most once for each of its own calls whose save failed or runner died,
\* and Threshold times for each load, of whichever task, that failed.
THEOREM RetriesSpaced == Spec => []RetriesAreSpaced
BY InitTurns, TurnsStep, TurnsSpaced, PTL DEF Spec
=============================================================================
