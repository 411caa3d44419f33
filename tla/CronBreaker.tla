---------------------------- MODULE CronBreaker ----------------------------
(***************************************************************************)
(* The dead-letter breaker of cron jobs (capabilities/operator_deadletter, *)
(* CronCircuitBreakerEngine).  An engine loads the whole state file when it *)
(* is built, decides from its copy in memory, and writes the whole copy    *)
(* back after every change, through a temporary file of its own process.   *)
(* It tells its caller when an alert is due; the caller delivers it.       *)
(***************************************************************************)
EXTENDS Integers

CONSTANTS
  Engine,          \* processes, each with one engine at a time
  Job,
  CronThreshold,   \* FAILURE_THRESHOLD
  CronInterval,    \* probe_interval_seconds
  MaxCronClock,    \* bound of the model: the last tick of the clock
  MaxResults,      \* bound of the model: how many results are recorded
  MaxCronFaults    \* bound of the model: how many loads and saves fail

ASSUME CronConstants ==
  /\ CronThreshold \in Nat \ {0}
  /\ CronInterval \in Nat \ {0}
  /\ MaxCronClock \in Nat
  /\ MaxResults \in Nat
  /\ MaxCronFaults \in Nat

CronEntry ==
  [known : BOOLEAN,
   consecutive_failures : Nat,
   state : {"HEALTHY", "DEGRADED_QUARANTINED", "SLOW_PROBING"},
   last_probe_time : Nat,
   alert_sent : BOOLEAN]

\* A job the map does not hold; it is treated as one that never failed.
NoEntry ==
  [known |-> FALSE, consecutive_failures |-> 0, state |-> "HEALTHY",
   last_probe_time |-> 0, alert_sent |-> FALSE]

NoEntries == [j \in Job |-> NoEntry]

VARIABLES
  cronClock,
  cronFile,    \* the state file, as it would be loaded
  cronMemory,  \* per engine: its breakers
  cronAt,      \* per engine: what it does next
  cronJob,     \* per engine: the job of its call, where one is under way
  cronAlert,   \* per engine: alert_needed of the call under way
  results, cronFaults,  \* counters for the bounds
  crowded,     \* history: two engines have been alive at the same time
  cronCrashed, \* history: an engine has died before its call returned
  told         \* history: per job, alerts handed to callers since it was healthy

cronVars == <<cronClock, cronFile, cronMemory, cronAt, cronJob, cronAlert,
              results, cronFaults, crowded, cronCrashed, told>>

\* Types of the variables.
CronTypeOK ==
  /\ cronClock \in Nat
  /\ cronFile \in [Job -> CronEntry]
  /\ cronMemory \in [Engine -> [Job -> CronEntry]]
  /\ cronAt \in [Engine -> {"down", "idle", "save", "return"}]
  /\ cronJob \in [Engine -> Job]
  /\ cronAlert \in [Engine -> BOOLEAN]
  /\ results \in Nat
  /\ cronFaults \in Nat
  /\ crowded \in BOOLEAN
  /\ cronCrashed \in BOOLEAN
  /\ told \in [Job -> Nat]

\* The clock starts a full interval after time 0.
CronInit ==
  /\ cronClock = CronInterval
  /\ cronFile = NoEntries
  /\ cronMemory = [e \in Engine |-> NoEntries]
  /\ cronAt = [e \in Engine |-> "down"]
  /\ cronJob \in {[e \in Engine |-> j] : j \in Job}
  /\ cronAlert = [e \in Engine |-> FALSE]
  /\ results = 0
  /\ cronFaults = 0
  /\ crowded = FALSE
  /\ cronCrashed = FALSE
  /\ told = [j \in Job |-> 0]
-----------------------------------------------------------------------------
CronGoto(e, stage) == cronAt' = [cronAt EXCEPT ![e] = stage]

\* An engine is built and loads the state file.  A file that cannot be read
\* leaves it with no entries.
CronLoad(e) ==
  /\ cronAt[e] = "down"
  /\ CronGoto(e, "idle")
  /\ \/ /\ cronMemory' = [cronMemory EXCEPT ![e] = cronFile]
        /\ UNCHANGED cronFaults
     \/ /\ cronFaults < MaxCronFaults
        /\ cronFaults' = cronFaults + 1
        /\ cronMemory' = [cronMemory EXCEPT ![e] = NoEntries]
  /\ crowded' = (crowded \/ \E other \in Engine : cronAt[other] # "down")
  /\ UNCHANGED <<cronClock, cronFile, cronJob, cronAlert, results,
                 cronCrashed, told>>

\* The call changes the engine's copy of one entry and goes on to save it.
Change(e, j, entry, alert) ==
  /\ cronMemory' = [cronMemory EXCEPT ![e] = [@ EXCEPT ![j] = entry]]
  /\ cronJob' = [cronJob EXCEPT ![e] = j]
  /\ cronAlert' = [cronAlert EXCEPT ![e] = alert]
  /\ CronGoto(e, "save")

\* should_allow_execution for a job in quarantine whose interval has passed.
\* The other answers change nothing: a job that is healthy or being probed is
\* allowed, one probed too recently is refused.
AllowProbe(e, j) ==
  LET entry == cronMemory[e][j]
  IN  /\ cronAt[e] = "idle"
      /\ entry.state = "DEGRADED_QUARANTINED"
      /\ cronClock - entry.last_probe_time >= CronInterval
      /\ Change(e, j, [entry EXCEPT !.state = "SLOW_PROBING",
                                    !.last_probe_time = cronClock], FALSE)
      /\ UNCHANGED <<cronClock, cronFile, results, cronFaults, crowded,
                     cronCrashed, told>>

\* Mutant: a success leaves the failures counted so far.
HealedKeepingFailures(entry) ==
  [entry EXCEPT !.known = TRUE, !.state = "HEALTHY", !.alert_sent = FALSE]

Healed(entry) ==
  [entry EXCEPT !.known = TRUE, !.consecutive_failures = 0,
                !.state = "HEALTHY", !.alert_sent = FALSE]

\* Mutant: every failure in quarantine alerts, not only the one that led there.
AlertEveryTime(entry) == entry.consecutive_failures + 1 >= CronThreshold

AlertDue(entry) ==
  /\ entry.consecutive_failures + 1 >= CronThreshold
  /\ entry.state # "DEGRADED_QUARANTINED"
  /\ ~entry.alert_sent

\* What a failure makes of an entry: every failure from the threshold on
\* (re)starts the quarantine and its wait for a probe.
Failed(entry) ==
  LET failures == entry.consecutive_failures + 1
  IN  IF failures >= CronThreshold
        THEN [known |-> TRUE, consecutive_failures |-> failures,
              state |-> "DEGRADED_QUARANTINED", last_probe_time |-> cronClock,
              alert_sent |-> entry.alert_sent \/ AlertDue(entry)]
        ELSE [entry EXCEPT !.known = TRUE, !.consecutive_failures = failures]

RecordSuccess(e, j) ==
  /\ cronAt[e] = "idle"
  /\ results < MaxResults
  /\ results' = results + 1
  /\ Change(e, j, Healed(cronMemory[e][j]), FALSE)
  /\ told' = [told EXCEPT ![j] = 0]
  /\ UNCHANGED <<cronClock, cronFile, cronFaults, crowded, cronCrashed>>

RecordFailure(e, j) ==
  /\ cronAt[e] = "idle"
  /\ results < MaxResults
  /\ results' = results + 1
  /\ Change(e, j, Failed(cronMemory[e][j]), AlertDue(cronMemory[e][j]))
  /\ UNCHANGED <<cronClock, cronFile, cronFaults, crowded, cronCrashed, told>>

\* reset_breaker; a job the engine does not know is left alone, unsaved.
ResetBreaker(e, j) ==
  /\ cronAt[e] = "idle"
  /\ cronMemory[e][j].known
  /\ Change(e, j, Healed(cronMemory[e][j]), FALSE)
  /\ told' = [told EXCEPT ![j] = 0]
  /\ UNCHANGED <<cronClock, cronFile, results, cronFaults, crowded,
                 cronCrashed>>

\* The temporary file with the whole copy replaces the state file.
WriteState(e) == cronFile' = cronMemory[e]

\* save_state.  An error is swallowed: the copy in memory stays changed.
SaveState(e) ==
  /\ cronAt[e] = "save"
  /\ CronGoto(e, "return")
  /\ \/ WriteState(e) /\ UNCHANGED cronFaults
     \/ /\ cronFaults < MaxCronFaults
        /\ cronFaults' = cronFaults + 1
        /\ UNCHANGED cronFile
  /\ UNCHANGED <<cronClock, cronMemory, cronJob, cronAlert, results, crowded,
                 cronCrashed, told>>

\* The call returns; its caller learns whether to send the alert.
CronReturn(e) ==
  /\ cronAt[e] = "return"
  /\ CronGoto(e, "idle")
  /\ cronAlert' = [cronAlert EXCEPT ![e] = FALSE]
  /\ told' = IF cronAlert[e] THEN [told EXCEPT ![cronJob[e]] = @ + 1] ELSE told
  /\ UNCHANGED <<cronClock, cronFile, cronMemory, cronJob, results, cronFaults,
                 crowded, cronCrashed>>

\* The process ends, between calls or in the middle of one; the engine's copy
\* goes with it.
CronStop(e) ==
  /\ cronAt[e] # "down"
  /\ CronGoto(e, "down")
  /\ cronMemory' = [cronMemory EXCEPT ![e] = NoEntries]
  /\ cronAlert' = [cronAlert EXCEPT ![e] = FALSE]
  /\ cronCrashed' = (cronCrashed \/ cronAt[e] # "idle")
  /\ UNCHANGED <<cronClock, cronFile, cronJob, results, cronFaults, crowded,
                 told>>

CronTick ==
  /\ cronClock < MaxCronClock
  /\ cronClock' = cronClock + 1
  /\ UNCHANGED <<cronFile, cronMemory, cronAt, cronJob, cronAlert, results,
                 cronFaults, crowded, cronCrashed, told>>

CronNext ==
  \/ \E e \in Engine :
       \/ CronLoad(e) \/ SaveState(e) \/ CronReturn(e) \/ CronStop(e)
       \/ \E j \in Job : \/ AllowProbe(e, j) \/ RecordSuccess(e, j)
                         \/ RecordFailure(e, j) \/ ResetBreaker(e, j)
  \/ CronTick

CronSpec == CronInit /\ [][CronNext]_cronVars
-----------------------------------------------------------------------------
\* A job is out of service exactly while its failures in a row have reached
\* the threshold, and exactly then its alert counts as sent.
Coherent(entry) ==
  /\ entry.state # "HEALTHY" <=> entry.consecutive_failures >= CronThreshold
  /\ entry.state # "HEALTHY" <=> entry.alert_sent

\* Whatever engines overlap, crash or fail to save, every entry anyone can
\* load or decide from is coherent: a job can neither be stuck in quarantine
\* with its failures forgiven nor run on with the threshold passed
\* (record_result, should_allow_execution and reset_breaker together).
EntriesCoherent ==
  /\ \A j \in Job : Coherent(cronFile[j])
  /\ \A e \in Engine, j \in Job : Coherent(cronMemory[e][j])

\* While engines take turns and the file can be read and written, callers are
\* told of an outage at most once, however often the engine is restarted and
\* wherever it died ("Single Deduplicated Alert Trigger"); and if no engine
\* died during a call, once they are at rest a caller has been told of every
\* job whose alert counts as sent.
OutageToldOnce ==
  ~crowded /\ cronFaults = 0 =>
    \A j \in Job :
      /\ told[j] <= 1
      /\ /\ ~cronCrashed
         /\ cronFile[j].alert_sent
         /\ \A e \in Engine : cronAt[e] \in {"down", "idle"}
         => told[j] = 1
=============================================================================
