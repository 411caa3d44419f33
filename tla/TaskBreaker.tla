---------------------------- MODULE TaskBreaker ----------------------------
(***************************************************************************)
(* The task circuit breaker (hermes_core/circuit_breaker.py): a failing    *)
(* task is quarantined after FAILURE_THRESHOLD failures in a row and       *)
(* probed again PROBE_INTERVAL_SECONDS later.                              *)
(*                                                                         *)
(* Every run loads the whole state file, keeps its copy while the task     *)
(* executes, and writes the whole copy back through one temporary file     *)
(* whose name all runners share.  A file that is missing, empty, damaged,  *)
(* over 1 MB or cannot be read is taken as if no task had ever failed, and *)
(* the next save makes it so for every task.                               *)
(***************************************************************************)
EXTENDS Integers, FiniteSets

CONSTANTS
  Runner,       \* processes that run tasks
  Task,
  NoTask,
  NoFile,
  Threshold,       \* FAILURE_THRESHOLD
  ProbeInterval,   \* PROBE_INTERVAL_SECONDS
  MaxClock,     \* bound of the model: the last tick of the clock
  MaxRuns,      \* bound of the model: how many runs are begun
  MaxFaults     \* bound of the model: faults of one task and failed loads

ASSUME BreakerConstants ==
  /\ NoTask \notin Task
  /\ Threshold \in Nat \ {0}
  /\ ProbeInterval \in Nat \ {0}
  /\ MaxClock \in Nat
  /\ MaxRuns \in Nat
  /\ MaxFaults \in Nat

Entry ==
  [consecutive_failures : Nat,
   state : {"HEALTHY", "DEGRADED_QUARANTINED", "SLOW_PROBING"},
   last_probe_time : Nat]

NewEntry ==
  [consecutive_failures |-> 0, state |-> "HEALTHY", last_probe_time |-> 0]

Breakers == [Task -> Entry]
Fresh == [t \in Task |-> NewEntry]
ASSUME FilesDiffer == NoFile \notin Breakers

VARIABLES
  clock,
  state_file,   \* breaker_state.json as it would be loaded
  temp_file,    \* breaker_state.tmp as it would be loaded, or NoFile
  pc,           \* per runner: what it does next
  task,         \* per runner: the task of its call
  now,          \* per runner: the time its call read
  breakers,     \* per runner: its copy of the state file
  probing,      \* per runner: its save comes before the run, not after it
  fd,           \* per runner: the file its open descriptor has become
  dirty,        \* per runner: another runner wrote to that file meanwhile
  runs,         \* how many calls have begun
  faults,       \* per task, its calls whose save failed or whose runner died
  misreads,     \* how often the state file was there and was not read
  overlapped,   \* history: two calls have been under way at the same time
  streak,       \* history: per task, failed runs since the last success
  recent,       \* history: per task, the latest call that probed or failed
  unspaced      \* history: per task, its runs that should have waited

files == <<state_file, temp_file>>
handles == <<fd, dirty>>
call == <<task, now, breakers, probing>>
history == <<overlapped, streak, recent, unspaced>>
failures == <<faults, misreads>>
vars == <<clock, files, pc, call, handles, runs, failures, history>>

Stage == {"idle", "called", "blocked", "running", "open", "write", "replace"}

\* Types of the variables.
TypeOK ==
  /\ clock \in Nat
  /\ state_file \in Breakers
  /\ temp_file \in Breakers \cup {NoFile}
  /\ pc \in [Runner -> Stage]
  /\ task \in [Runner -> Task \cup {NoTask}]
  /\ \A r \in Runner : pc[r] # "idle" => task[r] \in Task
  /\ now \in [Runner -> Nat]
  /\ breakers \in [Runner -> Breakers]
  /\ probing \in [Runner -> BOOLEAN]
  /\ fd \in [Runner -> {"none", "temp", "state", "unlinked"}]
  /\ dirty \in [Runner -> BOOLEAN]
  /\ runs \in Nat
  /\ faults \in [Task -> Nat]
  /\ misreads \in Nat
  /\ overlapped \in BOOLEAN
  /\ streak \in [Task -> Nat]
  /\ recent \in [Task -> Nat]
  /\ unspaced \in [Task -> Nat]

\* The clock starts a full interval after time 0, where new entries put their
\* last probe.
Init ==
  /\ clock = ProbeInterval
  /\ state_file = Fresh
  /\ temp_file = NoFile
  /\ pc = [r \in Runner |-> "idle"]
  /\ task = [r \in Runner |-> NoTask]
  /\ now = [r \in Runner |-> 0]
  /\ breakers = [r \in Runner |-> Fresh]
  /\ probing = [r \in Runner |-> FALSE]
  /\ fd = [r \in Runner |-> "none"]
  /\ dirty = [r \in Runner |-> FALSE]
  /\ runs = 0
  /\ faults = [t \in Task |-> 0]
  /\ misreads = 0
  /\ overlapped = FALSE
  /\ streak = [t \in Task |-> 0]
  /\ recent = [t \in Task |-> 0]
  /\ unspaced = [t \in Task |-> 0]
-----------------------------------------------------------------------------
(***************************************************************************)
(* check_and_execute_task, up to the run of the task.                      *)
(***************************************************************************)

Goto(r, stage) == pc' = [pc EXCEPT ![r] = stage]

\* A call that ends forgets its copy.
Return(r) ==
  /\ Goto(r, "idle")
  /\ task' = [task EXCEPT ![r] = NoTask]
  /\ now' = [now EXCEPT ![r] = 0]
  /\ breakers' = [breakers EXCEPT ![r] = Fresh]

\* The call reads the time.
Call(r, t) ==
  /\ pc[r] = "idle"
  /\ runs < MaxRuns
  /\ runs' = runs + 1
  /\ Goto(r, "called")
  /\ task' = [task EXCEPT ![r] = t]
  /\ now' = [now EXCEPT ![r] = clock]
  /\ overlapped' = (overlapped \/ \E other \in Runner : pc[other] # "idle")
  /\ UNCHANGED <<clock, files, breakers, probing, handles, failures, streak,
                 recent, unspaced>>

\* Mutant: the interval has to be exceeded.
DueLate(entry, time) == time - entry.last_probe_time > ProbeInterval

Due(entry, time) == time - entry.last_probe_time >= ProbeInterval

\* 1 for a run of a task that has failed Threshold times in a row and did so,
\* or was probed, less than ProbeInterval ago.
Early(t, time) ==
  IF streak[t] >= Threshold /\ time - recent[t] < ProbeInterval THEN 1 ELSE 0

\* It loads the state file.  A quarantined task is refused, or turned into a
\* probe that is saved before it runs.
Load(r) ==
  /\ pc[r] = "called"
  /\ LET t == task[r]
         entry == state_file[t]
         quarantined == entry.state = "DEGRADED_QUARANTINED"
     IN \/ /\ quarantined /\ ~Due(entry, now[r])
           /\ Goto(r, "blocked")
           /\ UNCHANGED <<breakers, probing, recent, unspaced>>
        \/ /\ quarantined /\ Due(entry, now[r])
           /\ breakers' = [breakers EXCEPT ![r] =
                [state_file EXCEPT ![t] =
                  [@ EXCEPT !.state = "SLOW_PROBING", !.last_probe_time = now[r]]]]
           /\ probing' = [probing EXCEPT ![r] = TRUE]
           /\ recent' = [recent EXCEPT ![t] = IF @ > now[r] THEN @ ELSE now[r]]
           /\ Goto(r, "open")
           /\ unspaced' = [unspaced EXCEPT ![t] = @ + Early(t, now[r])]
        \/ /\ ~quarantined
           /\ breakers' = [breakers EXCEPT ![r] = state_file]
           /\ Goto(r, "running")
           /\ unspaced' = [unspaced EXCEPT ![t] = @ + Early(t, now[r])]
           /\ UNCHANGED <<probing, recent>>
  /\ UNCHANGED <<clock, files, task, now, handles, runs, failures, overlapped,
                 streak>>

\* The state file is over MAX_JSON_SIZE or cannot be read: no task has an entry
\* any more.
LoadFails(r) ==
  /\ pc[r] = "called"
  /\ \A t \in Task : faults[t] + misreads < MaxFaults
  /\ misreads' = misreads + 1
  /\ breakers' = [breakers EXCEPT ![r] = Fresh]
  /\ unspaced' = [unspaced EXCEPT ![task[r]] = @ + Early(task[r], now[r])]
  /\ Goto(r, "running")
  /\ UNCHANGED <<clock, files, task, now, probing, handles, runs, faults,
                 overlapped, streak, recent>>

ReturnBlocked(r) ==
  /\ pc[r] = "blocked"
  /\ Return(r)
  /\ UNCHANGED <<clock, files, probing, handles, runs, failures, history>>
-----------------------------------------------------------------------------
(***************************************************************************)
(* The outcome of the run.                                                 *)
(***************************************************************************)

\* Mutant: a success does not clear the count.
SucceededUncleared(entry) == [entry EXCEPT !.state = "HEALTHY"]

Succeeded(entry) == [entry EXCEPT !.consecutive_failures = 0, !.state = "HEALTHY"]

\* Mutant: off by one in the threshold.
FailedOnceMore(entry, time) ==
  LET n == entry.consecutive_failures + 1
  IN IF n > Threshold
     THEN [consecutive_failures |-> n, state |-> "DEGRADED_QUARANTINED",
           last_probe_time |-> time]
     ELSE [entry EXCEPT !.consecutive_failures = n]

\* A failure is dated to the moment its call began.
Failed(entry, time) ==
  LET n == entry.consecutive_failures + 1
  IN IF n >= Threshold
     THEN [consecutive_failures |-> n, state |-> "DEGRADED_QUARANTINED",
           last_probe_time |-> time]
     ELSE [entry EXCEPT !.consecutive_failures = n]

Succeed(r) ==
  /\ pc[r] = "running"
  /\ breakers' = [breakers EXCEPT ![r][task[r]] = Succeeded(@)]
  /\ streak' = [streak EXCEPT ![task[r]] = 0]
  /\ Goto(r, "open")
  /\ UNCHANGED <<clock, files, task, now, probing, handles, runs, failures,
                 overlapped, recent, unspaced>>

Fail(r) ==
  /\ pc[r] = "running"
  /\ breakers' = [breakers EXCEPT ![r][task[r]] = Failed(@, now[r])]
  /\ streak' = [streak EXCEPT ![task[r]] = @ + 1]
  /\ recent' = [recent EXCEPT ![task[r]] = IF @ > now[r] THEN @ ELSE now[r]]
  /\ Goto(r, "open")
  /\ UNCHANGED <<clock, files, task, now, probing, handles, runs, failures,
                 overlapped, unspaced>>
-----------------------------------------------------------------------------
(***************************************************************************)
(* _save_breakers: open the temporary file, write it, rename it.  Every    *)
(* error is swallowed and the call goes on.                                *)
(***************************************************************************)

\* After the save of a probe the task runs, after any other the call returns.
AfterSave(r) ==
  /\ probing' = [probing EXCEPT ![r] = FALSE]
  /\ \/ probing[r] /\ Goto(r, "running") /\ UNCHANGED <<task, now, breakers>>
     \/ ~probing[r] /\ Return(r)

\* Opening truncates the file that is there, and with it what another runner
\* has written to it and not yet renamed.
OpenTemp(r) ==
  /\ pc[r] = "open"
  /\ temp_file' = Fresh
  /\ fd' = [fd EXCEPT ![r] = "temp"]
  /\ dirty' = [dirty EXCEPT ![r] = FALSE]
  /\ Goto(r, "write")
  /\ UNCHANGED <<clock, state_file, call, runs, failures, history>>

\* Two runners that had the file open at once leave the bytes of the second,
\* or a mixture that cannot be parsed.
WriteTemp(r) ==
  /\ pc[r] = "write"
  /\ \E content \in {breakers[r]} \cup (IF dirty[r] THEN {Fresh} ELSE {}) :
       /\ temp_file' = IF fd[r] = "temp" THEN content ELSE temp_file
       /\ state_file' = IF fd[r] = "state" THEN content ELSE state_file
  /\ fd' = [fd EXCEPT ![r] = "none"]
  /\ dirty' = [other \in Runner |->
       IF other = r THEN FALSE ELSE dirty[other] \/ fd[other] = fd[r]]
  /\ Goto(r, "replace")
  /\ UNCHANGED <<clock, call, runs, failures, history>>

\* The temporary file becomes the state file, also for those who have it open.
\* When another runner has renamed it already, the save has failed.
Replace(r) ==
  /\ pc[r] = "replace"
  /\ IF temp_file = NoFile
     THEN UNCHANGED <<files, fd>>
     ELSE /\ state_file' = temp_file
          /\ temp_file' = NoFile
          /\ fd' = [other \in Runner |->
               CASE fd[other] = "temp" -> "state"
                 [] fd[other] = "state" -> "unlinked"
                 [] OTHER -> fd[other]]
  /\ AfterSave(r)
  /\ UNCHANGED <<clock, dirty, runs, failures, history>>

\* A call of task t is hit by a fault.
Fault(t) ==
  /\ faults[t] + misreads < MaxFaults
  /\ faults' = [faults EXCEPT ![t] = @ + 1]

\* The disk is full or the file cannot be created or renamed.
SaveError(r) ==
  /\ pc[r] \in {"open", "write", "replace"}
  /\ Fault(task[r])
  /\ fd' = [fd EXCEPT ![r] = "none"]
  /\ dirty' = [dirty EXCEPT ![r] = FALSE]
  /\ AfterSave(r)
  /\ UNCHANGED <<clock, files, runs, misreads, history>>
-----------------------------------------------------------------------------
(***************************************************************************)
(* The environment.                                                        *)
(***************************************************************************)

\* A runner dies; what it has not written is lost.
Crash(r) ==
  /\ pc[r] # "idle"
  /\ Fault(task[r])
  /\ Return(r)
  /\ probing' = [probing EXCEPT ![r] = FALSE]
  /\ fd' = [fd EXCEPT ![r] = "none"]
  /\ dirty' = [dirty EXCEPT ![r] = FALSE]
  /\ UNCHANGED <<clock, files, runs, misreads, history>>

Tick ==
  /\ clock < MaxClock
  /\ clock' = clock + 1
  /\ UNCHANGED <<files, pc, call, handles, runs, failures, history>>

RunnerStep(r) ==
  \/ \E t \in Task : Call(r, t)
  \/ Load(r)
  \/ LoadFails(r)
  \/ ReturnBlocked(r)
  \/ Succeed(r)
  \/ Fail(r)
  \/ OpenTemp(r)
  \/ WriteTemp(r)
  \/ Replace(r)
  \/ SaveError(r)
  \/ Crash(r)

Next == Tick \/ \E r \in Runner : RunnerStep(r)

Spec == Init /\ [][Next]_vars
-----------------------------------------------------------------------------
(***************************************************************************)
(* Properties.                                                             *)
(***************************************************************************)

\* A task is refused only within ProbeInterval of a call of that very task
\* that failed or probed: no interleaving, damaged file, crash or failed save
\* blocks a task for longer, or blocks another one (check_and_execute_task).
DenialIsRecent ==
  \A r \in Runner : pc[r] = "blocked" => now[r] - recent[task[r]] < ProbeInterval

\* While runners take turns, a task is refused only after Threshold failures in
\* a row, unless one of its own saves failed or a runner died in its call.
DenialIsEarned ==
  \A r \in Runner :
    pc[r] = "blocked" /\ ~overlapped /\ faults[task[r]] = 0
    => streak[task[r]] >= Threshold

\* While runners take turns, a task that failed Threshold times in a row runs
\* again only ProbeInterval after the last of its calls that failed or probed,
\* but for one run for each of its calls whose save failed or runner died, and
\* the Threshold runs that every load of a state file too large or not readable
\* lets through, whichever task that load was for (_load_breakers).
RetriesAreSpaced ==
  ~overlapped => \A t \in Task : unspaced[t] <= faults[t] + Threshold * misreads

\* "Once the quarantine is over one probe is allowed".  It does not hold: a
\* second call made while the probe runs finds SLOW_PROBING and is not held
\* back.
SingleProbe ==
  \A r1, r2 \in Runner :
    /\ pc[r1] = "running" /\ breakers[r1][task[r1]].state = "SLOW_PROBING"
    /\ pc[r2] = "running" /\ breakers[r2][task[r2]].state = "SLOW_PROBING"
    /\ task[r1] = task[r2]
    => r1 = r2
=============================================================================
