# Formal models of Hermes Hybrid Core

This directory holds TLA+ models of the stateful parts of Hermes Hybrid Core, the
TLC configurations that check them on small instances, and proofs of their most
important properties for every value of their parameters. The models are
translated from the code; where a document, comment or test says something else,
a run shows the difference (see *Findings*).

`PROJECT.json` lists the components, the runs, the source lines each definition
stands for, the hazards the properties are aimed at and, for every property of a
passing run, a plausible bug of the code that breaks it.

    tlc -workers 2 -config chain_retry.cfg MCAuthorityChain   # one run
    tlapm AuthorityBrokerProofs.tla                           # one proof module

## 1. The system

Hermes Hybrid Core is a Python library around a language-model agent. Its parts
share no framework; they meet through Unix sockets, JSON files, SQLite files and
ordinary calls.

| Part | State it keeps | Operations | Hard behaviour | What makes it correct |
|---|---|---|---|---|
| **Authority Broker** `hermes_core/authority/broker.py` | manifest per task, nonce ledger (nonce → expiry), running flag; one thread per connection | `evaluate_request`, `_atomic_consume_nonce`, `register_manifest`, `start`, `stop` | threads between two lock sections, clock read before the lock, ledger at its limit, crash and restart | no live nonce accepted twice; a grant rests on one manifest and on a valid approval; every request that has been read is answered |
| **Approval, provenance** `approval/service.py`, `provenance/signer.py` | keys only | verify a proof, verify an ingress signature | time limits | an expired, future or foreign proof is refused |
| **Client** `authority/client.py` | one socket per request | `request_capability` | timeout racing a late answer, retry with a fresh nonce | a retry never gives a second effect or another call's grant |
| **Domain gates** `gates/*.py` | none: grants are not remembered | verify a grant against the call, then act | grant older than the judgement it is used on; manifest replaced meanwhile | an effect only within an authorization of that very call |
| **Planner recovery** `capabilities/planner_recovery` | tasks with status, dependencies, replan counters | add, get ready, start, complete, fail, replan | chains of replans, removed dependencies, late reports, id collisions | ready tasks are due; nothing waits for ever; replans are bounded |
| **HAOS guardian v2.4** `haos/` | snapshots, signed manifest, token directory, consumed set, state | a scan cycle per second: verify, roll back or adopt each file | edits during a cycle, crash between two replacements, failed reads and writes | a baseline is always approved content; a token acts once, unless the list of used ones is lost; TRUSTED means consistent |
| **Task circuit breaker** `hermes_core/circuit_breaker.py` | JSON map task → failures, state, probe time | `check_and_execute_task` | several processes, one temporary file, load-run-store without a lock, a file that cannot be read | a refused task failed lately; retries are spaced |
| **Negative cache** (same file) | JSON map key → expiry | record, look up, clear | key normalised on one side only, one temporary file, load-change-store without a lock | no block outlasts its failure; what was recorded blocks |
| Rest of that file | recent calls and counters in memory | detect duplicate calls; approval timeout | – | – |
| **Cron dead-letter breaker** `capabilities/operator_deadletter` | breaker per job, JSON file | `should_allow_execution`, `record_result`, `reset_breaker` | crash between save and alert, swallowed save errors | one alert per outage, healthy iff below the threshold |
| **Extension registry**, trust root | active, quarantined, registered maps; pinned keys | discover, validate, dispatch | name collisions, files that change between check and import, code no manifest lists, discovery again or ended by an exception | what can be dispatched passed every check in this discovery; nothing in quarantine can be |
| **MCP bridge** `capabilities/sandboxed_mcp` | tools, approval tokens | register, call | tokens with an expiry | a mutating call needs a live approval |
| **Runtime control**, diagnostic recovery | call history, counters, suppressed tools; budget counters and times; repair history | check a call, record, touch, report exhaustion | three counters that must agree, activity that postpones a timeout | a loop is cut after a bounded number of calls; a spent budget stays spent |
| **Fast path** `agent/fast_path.py` | none | classify a message, filter tools | rules in order, chains of commands | a change goes to a tier that is verified, unless the text carries the marker of a search |
| **Runtime compactor** | spool directory, lock file | write a spool file, clean to quota | several processes, crash between creation and writing, failing scans | a name that is referred to holds what is written of the text; the directory keeps its quota; errors at the end of an output survive the cut |
| **Background workers** (prefetch, attachments, database, chat) | cache, queue, connections | prefetch, enqueue, write, send | racing workers, lost answers, retries | the freshest answer wins; an item is delivered or reported |
| **Semantic cache, evidence ledger** | one SQLite table each | look up, store, prune | delegated to SQLite | a hit is live and of the caller's scope |
| **Inline patch** | the patched file | match, replace | an edit between read and replace, several matches, line ends | nobody's edit is lost; other lines are kept and stay lines |
| Path, text and preflight filters; configuration | none | pure functions | – | patterns |

How the parts meet. A caller asks the broker through the client for a capability;
the broker consults the approval and provenance verifiers; the grant goes back to
the caller, which hands it to a domain gate, which checks it and acts. This chain
is composed in `AuthorityChain`. The planner, the guardian and the breaker share
no state with that chain or with each other. In an agent's turn a message is
classified by the fast path, which decides what tools are offered; the loop
detector and the budget tracker watch the calls; a call of an extension goes
through the registry's `dispatch`, which uses the bridge's screen and tokens.
`ExtensionRegistry` composes registry and bridge, `AgentTurn` fast path and
runtime control. The cron breaker, the compactor, the negative cache and the
inline patch each share one file or directory between processes and nothing with
each other.

## 2. Modules

| Module | Extends / instantiates | Models |
|---|---|---|
| `ReplayLedger` | – | the promise of the nonce ledger: a nonce is accepted again only after the life of its last acceptance, and only a crash forgets |
| `AuthorityBroker` | instantiates `ReplayLedger` | listener, handler threads, policy, ledger, life cycle |
| `AuthorityChain` | extends `AuthorityBroker` | client, adapter and gates around the broker |
| `PlanStateMachine` | – | the planner's task graph |
| `HaosGuardian` | – | the guardian daemon, people's edits and the disk |
| `TaskBreaker` | – | runners that share one breaker file |
| `CronBreaker` | – | engines that share the dead-letter file |
| `SpoolDirectory` | – | processes that spool outputs into one directory |
| `NegativeCache` | – | callers that share the negative-cache file |
| `InlinePatch` | – | processes that patch one file |
| `FastPath` | – | classification of a message (operators only) |
| `AgentTurn` | extends `FastPath` | a turn: classification, loop detector, budget tracker |
| `McpBridge` | – | registered tools, tokens, screened calls |
| `ExtensionRegistry` | extends `McpBridge` | discovery and dispatch |
| `MC…` | the module they check | values of the constants for TLC |
| `…Proofs` | the module they prove about, `TLAPS` | theorems |

### AuthorityBroker

A handler thread reads its request, for as long as the client lets it: `recv` has a
timeout of 3 s, the loop around it none. It takes the request through `Receive` (the
time `evaluate_request` takes at its start), `Evaluate` (manifest lookup under the
lock and every policy check), `ReadGcClock` and `ConsumeApproval` (the clock is read
before the lock is taken, the section then collects, checks and inserts), the same
again for `ConsumeGrantNonce`, `Issue` and `CloseConnection`. What the code does under
one lock acquisition is one step; everything else interleaves with other threads, the
clock, `RegisterManifest`, `Stop`, `Start` and `Crash`. `manifest_store` and `ledger`
are the two shared dictionaries. `window`, `uses` and `grants` are history, read by no
guard. A message is a record of the fields the checks read; a signature is the flag
`authentic`; a canonical hash is a value that is equal exactly when the semantics are.

An approval is sent with a nonce. The approver's signature covers the nonce without
white space around it (`Stripped`), the ledger's key is the nonce as sent, so one
signed approval can be sent in several spellings (elements of `Approval`), whose
other fields are the same (`SpellingsOfOneApproval`). `Blank` nonces are refused.

### AuthorityChain

`Call` opens a connection for one operation; `TakeAnswer` receives, `GiveUp` is
the client's timeout, which may fire in any waiting state, and `Deliver`,
`DropAbandoned` and `CloseAbandoned` are the broker's answers to clients that are
there or gone. A call made while the broker is stopped fails at once.
`VerifyGrant` is the gate's check. The four effects (`ExecuteProcess`,
`WriteFile`, `DeleteFile`, `SendRequest`) then happen, or are refused
(`Refuse`), or happen and are reported as failed (a killed process, a truncating
open that fails later, a lost answer): `TakesEffect`. Each gate keeps its own
rules: the process hash covers the whole command, the storage hash only the path,
the network hash nothing of the URL, whose host is checked against the grant's
resource binding. `Covers` stands for the path and host prefix comparison.

### PlanStateMachine

One action per method; `Refresh` is `_refresh_task_states`. The machine checks little
of what it is told, so the caller's habits are a constant: `Discipline` is the set of
rules the caller keeps (`fails_running`, `fresh_ids`, `known_deps`, `adds_once`,
`distinct_ids`). What fails without a rule is shown by `plan_overwrite` and under
*Findings*. Replacement items are well-formed: on one that is not, `partial_replan`
raises after the failed task has been removed, which is left out.

### HaosGuardian

The daemon is one thread, its state `pc` and the locals of a cycle. A step ends
where the code has looked at or replaced one thing on disk, so that edits, token
files, damage, clock and crash fall between any two. `ReplaceManifest` and
`ReplaceSignature` are separate steps, as the `os.replace` calls are. Hashes are
contents; HMACs are the flag `authentic`.

Any read or write may fail (`Failed`), and each place does what the code does
there. `VerifyFails`: a manifest, signature, snapshot or script that cannot be read
locks the daemon, or is taken for missing. `InspectFails`: a core file or snapshot
that cannot be read locks it, ends the file's turn or leaves a hash that is None.
`Listed`: a list of consumed tokens that cannot be read is empty, and is then
written back with the one token that is being consumed (`misreads` counts these).
A core file may also be replaced by a link, a directory (`rollback` then fails in
every cycle), a named pipe (the daemon waits in `open` until `WriteToPipe`) or
deny access (`Broken`). `Cut` stands for the limit of 10 MB of `safe_atomic_copy`.

### TaskBreaker

A runner loads the map, runs the task and writes the whole map back through one
temporary file whose name all runners share. The file's inode matters: a runner
may hold a handle to the temporary file, to what has meanwhile become the state
file, or to an unlinked file (`fd`), and two writers may mix their text (`dirty`).
A file that is damaged, over 1 MB or cannot be read is an empty map, as
`_load_breakers` has it, for every task, and the next save makes it so on disk
(`LoadFails`, counted by `misreads`). `faults[t]` counts the calls of task `t`
whose save failed or whose runner died.

### CronBreaker

An engine loads the whole file when it is built (`CronLoad`) and then decides from
its copy. A call changes the copy, `SaveState` writes all of it back through a
temporary file named after the process, so two engines never mix their text but do
overwrite each other's jobs; a save that fails is swallowed, as `_save_state` does,
and the call goes on. `CronReturn` is the moment the caller learns that an alert is
due. `CronStop` ends a process anywhere, also between save and return.
`Healed` and `Failed` are the two branches of `record_result`.

### SpoolDirectory

One action per system call of `_safe_spool_write` that another process can see:
the lock, taken or not, the scan with the deletion of expired files, the sweep,
the exclusive creation, the write, the unlock, and the return of the answer, which
comes after the unlock. A scan may skip files whose `stat` or `unlink` fails, or be
given up (`ScanAborts`). `Sweep` is the loop over the sorted list. An output is its
measures (`Text`): whether it has few lines, the lengths of its first and last
lines, its size with its secrets redacted; `MaxFileBytes` is where it is cut. A file
is `written` once it holds all that is written of its content. `Compacted` is the
arithmetic of head, banner and tail. A name stands for one content, since it holds a
hash of it.

### NegativeCache

Load, change and save are separate steps; the temporary file has one name for all
processes, so an overlapped save may put either copy in place, fail or leave a
damaged file, which reads as empty (`Saved`). `Stored` is what
`record_negative_cache` makes of a key (stripped, cut); the lookup does not do the
same, so the properties are about the key that is looked up.

### InlinePatch

The file is read once (`ReadText`, with the search, the replacement and the parse
check, which are computed from that copy), written to a temporary file and renamed.
A line is its words and its end: a line feed, a carriage return with one, or none.
The file is the lines it was written with; `Reread` is what a read in text mode makes
of them: line feeds everywhere, and a line without an end run together with the next.
`Normalised` closes target and replacement when the first line of the file ends in a
line feed. `Finds` and `Applied` are the two searches and the loop over the matches,
a fold over the set of their starts in ascending order; `Expected` states the result
line by line, without that loop. `Bare` is a line without its end and trailing
blanks; a text parses when no line has a word of `Faulty`. Left out: a carriage
return alone, and the rarer places where `splitlines` divides (form feed, U+2028).

### FastPath and AgentTurn

A message is what the patterns find in it: marks of each segment and marks of the
text as a whole. `SegmentActions`, `Critical`, `Reads`, `Converses` and `Classify`
follow the order of the code's rules, which is what the property is about.
`CallBlocked` and `CallTool` are one inspected call: the four ways in which
`inspect_tool_call` blocks, and the one in which it records. The agent's own loop
is not in the repository; `AgentTurn` lets it do anything except run a call that
was blocked, so no property rests on a loop that heeds the budget.

### McpBridge and ExtensionRegistry

Time in the bridge passes in parts of a second, since `TokenExpiry` cuts to whole
seconds and `Valid` compares with the uncut clock. The arguments of a call are the
strings in it, each with its depth, the kind of place it is in and what the patterns
say it holds. Discovery is two steps per directory: `CheckDirectory` reads manifest,
hashes and signature, `LoadDirectory` imports by name; `EditDirectory` may come
between, and `AbortDiscovery` is an exception that nothing on the way catches.
Contents stand for hashes, `signed` for what the signature covers. A directory has the
`content` its manifest lists and the `code` that is imported (the entry point and the
validator): the code does not ask that they are the same, and the signature leaves the
entry point out, so they are only where `lists_code` holds. The registry's names of
tools and of directories are kept apart (`Dir \cap Tool = {}`): a quarantined
directory without a readable name is listed under its directory. `Dispatch` is a call
through registry and bridge, `Invoke` one through the bridge alone. The registry may
be without a bridge (`has_bridge`), when it cannot be imported: then nothing is
screened and no token counts.

## 3. Runs

| Run | Instance | Question |
|---|---|---|
| `broker_replay` | 2 threads, 1 approval, 3 requests, ledger of 2, clock to 3, 1 crash | Is any nonce accepted twice in its life, is the ledger bounded, is an approval spent without a grant only on saturation, does the broker implement `ReplayLedger`? |
| `broker_policy` | 1 thread, all policy-relevant kinds of requests, 2 tasks, 2 manifests, crash | Does each grant follow one manifest and a valid approval; is every request that has been read answered? |
| `chain_retry` | 2 callers, 2 threads, 1 signed approval in 2 spellings, timeouts, crash | Does a retry give a wrong or a second effect? |
| `chain_gates` | 1 caller, every kind of operation and target, a manifest that is replaced | Is every effect covered by a fresh judgement of that call; is the broker undisturbed by its clients? |
| `plan_careful` | three added tasks, replacements that replans name themselves | Under every rule, does no task start early or wait in vain, is there always a task to work on, are replans bounded, is nothing completed undone, does every step use work up, and does the plan settle? |
| `guardian` | 2 files (one without a snapshot), a crash or a failed read or write, one damage | Baselines approved, tokens once, locks for a cause, TRUSTED consistent, edits settled? |
| `breaker` | 2 runners, 2 tasks, 5 calls, one fault per task or one failed load | Are refusals recent and earned, are retries spaced? |
| `files` | the cron breaker, the spool directory, the negative cache and a patched file, two processes each | Are entries coherent and outages told once; do references lead to written files within the quota; are blocks earned and held; do patches accumulate? |
| `agent` | a turn with six inspected calls; two directories that change during discovery, tools, a token, a bridge or none | Are changes routed, loops cut, spent budgets spent; is a tool only what passed every check, and does what changes things run approved? |

The other three runs are violations, one property each (*Findings*).

`files` and `agent` each hold several components that share no state: the variable
`focus` says which of them moves in a behaviour, so the state spaces add up and do
not multiply. The type invariants of all modules are proved (*Proofs*) and not
checked again.

What the properties say:

- **Broker.** `LiveNonceHeld`: a nonce accepted with an expiry still ahead is in the
  ledger, although the collector of another thread works on an older clock.
  `LedgerBounded`: the check and the insert are one section, so no number of threads
  gets past the limit. `OnlySaturationAfterApproval`: once its approval is spent, a
  request is refused for a full ledger and nothing else. `ImplementsReplayLedger`:
  refinement; the abstract module's clock, windows and uses are the broker's clock and
  two history variables. `GrantFollowsOneManifest`: primitive and binding of a grant
  come from one manifest although it may be replaced during the request.
  `EveryRequestAnswered` is about requests that have been read, and refused
  connections: a client that sends a byte now and then keeps its thread reading.
  `ApprovalBacksGrant`: a grant that needed approval rests on an authentic proof of
  the same hash, in its time when judged.
- **Chain.** `GrantAnswersCall`, `GrantUsedOnce`, `ApprovalGivesOneEffect`: what a
  caller holds answers its own call and leads to one effect; and while a signed
  approval is valid and no broker has crashed, two effects that rest on it were asked
  for with its nonce spelled differently, whatever was retried. Sent as it was issued,
  it gives one effect.
  `FreshJudgement`, `EffectIsAuthorized`: gate and broker together.
  `BrokerUnchanged`: the chain is a refinement of the broker.
- **Plan.** `ReadyTasksAreDue` and `WaitingHasReason` are the two halves of
  readiness: what may run has its dependencies completed, and what waits depends
  on tasks that exist and are not all completed. `SomethingToDo`: until the plan
  is completed or with a human, some task is to be started, reported or replaced.
  `ReplansBounded`; `CompletedStaysCompleted`; `WorkIsUsedUp`: a step takes tasks
  to later stages, or replaces one by tasks with fewer replans left, which is why
  `PlanSettles`.
- **Guardian.** `BaselineIsApproved`. `TokenUsedOnce`: once, and once more for every
  time the list of consumed tokens could not be read and was written anew.
  `LockHasCause`: a difference between manifest, signature, snapshots and script, or
  a core file that denies access or is gone for good, or a read that failed since the
  daemon was started or unlocked. `TrustedIsConsistent` (an action property: the
  daemon only *becomes* TRUSTED in a consistent state; the disk may change a moment
  later). `EditIsSettled`, except under a directory in the file's place, a snapshot
  over 10 MB, or a pipe nobody writes to.
- **Task breaker.** `DenialIsRecent`: a refusal has a failure or probe of the same task
  within the interval, whatever overwrote what. `DenialIsEarned` and
  `RetriesAreSpaced`, while runners take turns: a refusal stands on a full run of
  failures, and the retries of a task that come too early are no more than its
  faults and, for each load that failed, a full run of failures.
- **Cron breaker.** `EntriesCoherent`, whatever overlaps, dies or fails to save:
  out of service exactly from the threshold on, and exactly then the alert counts
  as sent. `OutageToldOnce`, while engines take turns: never two alerts, and none
  lost unless an engine died between its save and its return.
- **Spool.** `SpoolBounded`: with the lock, and when every file can be listed and
  deleted, quota plus one file. `FreshFilesStay`: what was just spooled is deleted
  only for newer outputs; after the unlock this is all that protects a file that is
  about to be referred to. `AnswerIsFaithful`: the shortened text fits and keeps the
  end of the output, and when the lock is released the reference leads to a file with
  all that is written of the output (redacted, cut), unless its writer had failed or a
  call went on without the lock.
- **Negative cache, patches.** `BlocksAreEarned`: no block outlasts the time to
  live of its last record, and a call that has returned holds while callers take
  turns. `PatchesAccumulate`: while patches take turns every other line, as it is
  read, is kept, also around adjoining or overlapping matches; no line runs on into
  the next unless an empty block was found at the end of a file that does not end in
  a line feed; what is validated always parses.
- **Turn.** `ChangesAreRouted`, `LoopIsCut`, `SpentStaysSpent`.
- **Extensions.** `ToolsAreTrusted`: what can be dispatched comes from a directory
  that passed every check of this discovery; unless it was changed before the import,
  its code is healthy and, where the manifest lists the code, the signed one; and it
  is not in quarantine, also when an exception ended the discovery.
  `RunsAreApproved`: bridge and registry together.

Each condition such as "while callers take turns" is a history variable of the
model (`overlapped`, `crowded`, `negOverlap`, `patchOverlap`, `unlocked`, `stuck`,
`misreads`, `unreadable`, `ran_on`): the code has no lock there, or takes what it
cannot read for nothing, and the property does not hold without it.

### Bounds

Every bound is a constant declared under "bound of the model", or a finite set. The
clock of the broker runs past the expiry of the approval and of a grant (grants
live one unit, approvals end within `MaxClock`), so a nonce is collected and
presented again. The ledger has two places and there are three requests, so it
saturates. The spellings of a nonce are two, the issued one and one with a space
behind it. Two threads and two callers suffice for every race of two lock
sections; no guard counts threads. The plan has three tasks: a chain of
two that joins in the third, so that a replaced task has a dependent which also
depends on another one; `max_replans` of 2 lets a replacement fail and be replaced
in turn, by one or two items or under its own name. The guardian has a file with a
snapshot, which people change to an approved or an unapproved content or delete, a
file without one, a damaged snapshot, and one crash or failed read or write
(`MaxFailures` bounds both together, to keep the run within minutes): a failure is
one step of one cycle, and its effect meets every edit, token and damage; what two
of them do together is left to the proofs. `Threshold` 2 stands for the
code's 3: one failure is below it, two reach it. A failed load counts against the
same bound as the faults.

In `files`, the cron breaker has two engines, two jobs, threshold 2 and three results,
so one job can fail past its threshold while the other is overwritten. The spool has
two writers and three names against a quota of one file and three bytes: both limits
are passed, by different files, and a time to live that runs out within the clock; one
output is larger than a file may be. The negative cache has three keys, one of which
is given raw and stored under another, and a clock that outlives an entry. The patched
file has up to three lines, with and without an end and with a carriage return, blocks
that overlap themselves, an empty one, a line that matches only without its blanks and
a replacement that does not parse. Each has one fault. In `agent`, six calls let other
calls come before four tries in a row, the window of 3 and the history of 4 both move,
and a budget can be spent in each of its three ways; a second has two ticks, so a
token is made in either half of it; two directories can share a name, code may be
unlisted, and one edit or an exception may fall at any point of discovery.

`breaker`, `files` and `agent` do not check deadlock: their calls are bounded and
the instance stops when they are used up. Symmetry is declared on handlers,
callers, runners and tasks only, in runs without liveness.

### Fairness

- `broker_policy`: weak fairness of each thread's `WorkStep`, that is once it has
  its request. It then runs Python code with no wait except the lock, whose sections
  are finite, and the sending of the answer, which the socket's timeout ends. Reading
  gets none, since it is up to the client; nor do the clock and the operator.
- `plan_careful`: weak fairness of `Work`, the agent's loop (ask for ready tasks,
  start one, report one that runs, replace one that failed): `PlanSettles` is a
  promise of the machine to a caller that goes on, and whether a task succeeds or
  fails stays open.
- `guardian`: weak fairness of `GuardianStep`; the daemon loops for ever, one cycle
  a second. Edits, tokens, faults and whoever writes to a pipe get none, and the faults
  are bounded.

The other runs check safety only and assume no fairness: a process that shares a
file may stop at any point, and the agent's loop is not in the repository.

## 4. Proofs

Each theorem holds for every value of the constants that satisfies the named
assumptions of the module (`BrokerConstants`, `BrokerNumbers`, `NoncesDistinct`,
`SpellingsOfOneApproval`, `ChainConstants`, `PlanConstants`, `GuardianConstants`,
`GuardianNumbers`, `BreakerConstants`, `FilesDiffer`, `CronConstants`,
`SpoolConstants`, `NegativeConstants`, `PatchConstants`, `AgentConstants`,
`BridgeConstants`, `RegistryConstants`), which say no more than the configuration
files and the constructor checks do; that `DirOrder` names each directory once is what
a directory listing does.

Every invariant and action property of a passing run is stated by one of these
theorems.

| Module | Theorems | Argument |
|---|---|---|
| `AuthorityBrokerProofs` | `TypeCorrect`, `LiveNoncesStay`, `LedgerStaysBounded`, `GrantsFollowOneManifest`, `ApprovalsBackGrants`, `SpentApprovalsLostToSaturationOnly`, `BrokerImplementsReplayLedger`, `ApprovalsAreSpentOnce` | inductive invariant `IInv`; `SpentOnce` |
| `AuthorityChainProofs` | `ChainRunsBroker`, `ChainTypeCorrect`, `GrantsAnswerCalls`, `JudgementsStayFresh`, `EffectsAreAuthorized`, `GrantsAreUsedOnce`, `ApprovalsGiveOneEffect` | `ChainInv`, `InOnePlace` |
| `PlanStateMachineProofs` | `PlanTypeCorrect`, `ReplansStayBounded`, `ReadyTasksStayDue`, `NothingWaitsInVain`, `CompletedTasksStay`, `PlansNeverDeadlock`, `WorkGetsUsedUp` | `ReplanLeft`; `Due` across each refresh; `WaitInv`; `Grounded` |
| `HaosGuardianProofs` | `GuardianTypeCorrect`, `BaselinesAreApproved`, `TokensUsedOnce`, `TrustIsConsistent`, `LocksHaveCause` | `Baseline`, `UsesInv`, `TrustedInv`, `DiskInv` |
| `TaskBreakerProofs` | `BreakerTypeCorrect`, `DenialsAreRecent`, `DenialsAreEarned`, `RetriesSpaced` | `Dated`; `TurnsInv` |
| `FilesProofs`, cron breaker | `CronTypeCorrect`, `EntriesStayCoherent`, `OutagesToldOnce` | `Coherent` of every copy; `CalmInv` |
| negative cache | `NegTypeCorrect`, `BlocksEarned` | `NegInv` |
| spool directory | `SpoolTypeCorrect`, `OrderStays`, `AnswersFaithful`, `QuotaStays`, `SpoolStaysBounded`, `FreshStay` | `OrderInv`, `QuotaInv` |
| patches, all four | `PatchTypeCorrect`, `AppliedAsExpected`, `PatchesAdd`, `FilesTypeCorrect` | `InStep`; `PatchInv` |
| `AgentTurnProofs` | `TurnTypeCorrect`, `SpentBudgetStaysSpent`, `LoopStaysCut`, `ChangesStayRouted` | `LoopInv`, `Routed` |
| `AgentProofs` (extends `AgentTurnProofs`) | `RegistryTypeCorrect`, `RunsStayApproved`, `ToolsStayTrusted`, `AgentTypeCorrect` | `TokensAreDated`, `ToolsInv` |

**Broker.** `LiveNonceHeld` alone is not inductive: a collecting thread could hold
a reading of the clock ahead of the clock, or a request a nonce already used.
`IInv` adds that the reading is not ahead of the clock (`GcClockPast`), that a
request's nonce is still fresh (`FreshId`), and that a thread past the checks
carries the request, manifest and approval that passed them (`CheckedJobs`,
`ApprovalStage`). From these, collection removes only entries whose life is over,
which is both `LiveNonceHeld` and the step condition of `ReplayLedger`.
`SpentOnce`: while an approval is valid and the broker has not died, all threads
past the ledger and all grants that rest on its nonce, as it was sent, are one.

**Chain.** The broker's environment is unconstrained in `AuthorityBroker`; the
only fact needed is that what a caller sends is one of `Requests`
(`SentRequests`). All broker theorems therefore hold in the chain. `ChainInv` then
follows a grant from the thread to the gate: the thread of a waiting caller works
on that caller's request and its reply is a grant for it (`Matched`), also after
earlier calls were given up, and a judged grant passed the gate's check at the
recorded time (`Judged`). `InOnePlace`: a grant is on its way in one thread, in one
reply or with one caller, or has been performed, never two of these; with
`SpentOnce` this gives `ApprovalGivesOneEffect`.

**Plan.** `ReplanLeft`: a task that waits for a replan has one left, so
incrementing keeps the bound, also for the replacements that inherit the count.
`NothingWaitsInVain` needs that no task waiting for a replan depends on itself
(`NoSelfReplan`) and assumes of the caller, besides the rules, that a failed task is
replaced by a chain of one task at least (`ChainsOnly`); a replacement of none
leaves dependents that wait for nothing. After a refresh every pending
task has a dependency that is not done, since the last of the chain never is.
`PlansNeverDeadlock` rests on `Grounded`: among any tasks of the plan one depends on
none of them, that is, dependencies have no cycle. A replacement keeps it, since the
new chain hangs on what the failed task hung on and only its last item gets the
failed task's dependents; but only if the replacements of one task have different
ids (`distinct_ids`), for the second of two with one id takes the place of the first
and depends on itself. The proof of the step found this; TLC shows the dead plan when
the rule is dropped. A task that no chain of waits leads away from then is ready,
running, failed or with a human. `WorkGetsUsedUp` is the argument behind
`PlanSettles`: a plan's tasks, ordered by replans left and stage, only go down.
The theorems name the rules of `Discipline` they need; types and bounds need none.

**Guardian.** `safe_atomic_copy` compares the copy with the hash that was approved, so
an edit made meanwhile is refused; `Baseline` strengthens `BaselineIsApproved` by
`AdoptsApproved`: between taking a token and copying, the hash is one that a token
that has been used names. `UsesInv`: a token's uses are no more than the failed reads
of the list of consumed tokens, and one if it is in the list on disk; a list that
shrinks was counted. `TrustedInv`: after verification, as long as no error is noted,
signature, manifest and undamaged snapshots agree except between the replacements of
an update. `DiskInv` says the same between cycles, until an update is cut short
(`torn`); `LocksHaveCause` follows, with `unreadable` for what could not be read, when
the operator signs the snapshots that are there (`BaselinesMatch`).

**Task breaker.** `Dated`: no copy of the map, in the state file, in the temporary file or
in a runner's memory, dates a failure or probe of a task later
than it happened. A lost update makes a copy older, never newer.
`TurnsInv` is about runners that take turns (`OneAtATime`): the caller's copy is the
file but for the entry of its task (`Tidy`), and the early retries of a task together
with those its entry still lets through (`Credit`: the failures the entry has missed,
or one if its date is that of an older probe) stay within what the faults of the task
and the failed loads allow (`Allowed`), for the entry in the file (`AtRest`) and for
the copy a call holds (`InHand`). A failed load sets every entry back by a full run of
failures at most, which is what it adds to `Allowed`.

**Cron breaker.** Each branch of `record_result` takes a coherent entry to a
coherent one, and saving and loading only copy; so no interleaving matters.
`OutageToldOnce` needs more (`Calm`, while engines take turns and no save fails):
the engine's copy is the file but for the job of its call, and an alert that counts as
sent has been told, is on its way to the caller, or died with its engine.

**Negative cache.** `NegEarned`: no copy of an entry runs longer than the time to
live after its last record. `NegTurns` compares the file with what the finished
calls have left (`due`), up to entries no later check can tell apart (`Same`), since a
change also drops what has run out.

**Spool.** `Orderly`, while all calls have the lock: one writer is past it, a file
that is not written is being written or its writer failed, and a reference leads to a
written file, until the unlock, unless an earlier writer of it failed; this is
`AnswerIsFaithful` with the arithmetic of the cut, which holds for texts of any
length. `QuotaInv`: the list a sweep works on is what the directory holds
(`ListingTrue`), a sweep that may delete leaves room (`RoomMade`), the file being
written comes on top of others that fit (`OthersFit`), so the directory is within its
quota but for one file (`WithinOneMore`). `FreshStay` follows from `ListingTrue` and
the order of the sweep, which goes through the list from the oldest on.

**Patches.** `AppliedAsExpected`: for every text and patch, the fold over the matches
gives what `Expected` says line by line. The proof walks along the text: after each
line the fold over the matches begun so far, with the lines since, is what the
pieces of these lines add up to (`InStep`). `PatchTurns` then makes the file
exactly `due_text` while patches take turns. Lines stay lines because a read leaves
at most the last one without an end (`RereadType`), and the blocks are closed when
the file's first line is (`ResultSplit`); a file of one line without an end has a
match there or none, but for an empty block.

**Sums and folds.** The sum of sizes and the loop over the matches run over sets of
any size. The prover has no induction over data; where these proofs need
it, they take a smallest counterexample, a subset with no counterexample below it or a
least number, and derive a contradiction. `FoldRule` states once what the community
module's fold over a set computes, and is used for both.

**Turn.** `LoopIsCut` is about the calls in a row, which the detector does not
count. `Patience` bounds them by what it does: the run of that call at the end of the
history, two at most, plus the warnings for it. `Earned` keeps the cause of every
suppression. That the history is cut to its limit keeps `NoThird` because a shift
preserves distances. `SpentStaysSpent` rests on counters that only grow and a
start time that stays.

**Extensions.** `ValidIsRecent` bounds a token's age by arithmetic on whole
seconds. `ToolsInv` goes through a discovery: the directories read so far are those
before the current one, every tool is sound for the manifest read in this
discovery, and a name in both lists has two directories; it asks nothing of the
directories that an exception kept from being read.

**Only model-checked.** The three liveness properties (`EveryRequestAnswered`,
`PlanSettles`, `EditIsSettled`): liveness under fairness is out of the prover's
reach. What is proved of them is safety: `PlansNeverDeadlock` and `WorkGetsUsedUp`
for the plan.

## 5. Findings

| Run | The code | What it is compared with |
|---|---|---|
| `broker_approval_once` | one approval backs two grants when a request stalls between its verification and the ledger until the first use has expired (`broker.py:298`, `487`, `499`) | the test that claims single use, `tests/test_slice7_red_team_matrix.py:478` |
| `plan_overwrite` | a replacement with the id of a completed task overwrites it (`planner_recovery_engine.py:214`) | the docstring at 178 |
| `guardian_torn` | three replacements; a crash between them ends in a lock that no token lifts for good (`haos_guardian_v2.4_p1_62.py:427`) | the docstring at 400 |

More places where the models and a text disagree have no run of their own; all but
the last are stated in the modules, and TLC refutes them when they are put in a
configuration:

- `SingleProbe` (`TaskBreaker`): a call that finds SLOW_PROBING runs beside the
  probe (`circuit_breaker.py:72`), whereas the header at 7 promises one probe.
- `DeadlockIsBlocked` (`PlanStateMachine`, with a caller that replaces by nothing):
  a dependent that waits for ever is not reported by `is_blocked`
  (`planner_recovery_engine.py:219`, docstring at 243). So is, without the rule
  `distinct_ids`, one of two replacements with the same id, which waits for itself
  (`planner_recovery_engine.py:205`).
- `ReferenceIsFull` (`SpoolDirectory`): the banner says that the full content is on
  disk (`runtime_compactor.py:250`), but the file of a writer that died halfway is
  referred to as complete (162), a large content is cut (192), and another call may
  delete the file between the unlock (204) and the return.
- `SignedApprovalGivesOneEffect` (`AuthorityChain`): a signed approval leads to one
  effect for each spelling of its nonce, since the signature covers
  `token_nonce.strip()` (`approval/service.py:38`) and the ledger keeps the nonce as
  it was sent (`broker.py:381`, `492`, `511`).
- `SignedCodeOnly` (`ExtensionRegistry`): code that no signature covers is imported
  when the manifest's list leaves it out (`extension_registry_engine.py:183`, `253`),
  whereas the header of `trust_root.py` (10) says it is put in quarantine.
- In `FastPath`, a text with a change and the marker of an archive search gets L0,
  whereas the header says that any mutation rules out L0 and L1
  (`fast_path.py:8`); `ChangesAreRouted` names the exception.

What the code does beside every text, and the properties have to name: a list of
consumed tokens that cannot be read is taken for an empty one and written over
(`haos_guardian_v2.4_p1_62.py:71`, `91`), so its tokens can be used again; a breaker
file over 1 MB, or one that cannot be read, releases every task
(`circuit_breaker.py:35`, `41`); a patched file is written back with line feeds in
every line (`inline_patch_engine.py:167`, `270`), and an empty block found at the
end of a file without a last line feed runs two lines together (237).

## 6. Not modelled, and what is left

Not modelled, for good:

- The path, text, trust-boundary and preflight filters, and the patterns of the
  fast path, the bridge and the diagnostic engine: pure functions of strings, where
  what could be wrong lies in the patterns. The models take what a pattern finds.
- The semantic cache and the evidence ledger: each operation is one SQL
  transaction.
- Prefetch, attachments, database pool and chat client: thin wrappers whose
  behaviour is that of `queue.Queue`, threads, SQLite and aiohttp; a model would
  consist of assumptions about those.
- Guardian v2.3 (superseded) and the configuration and command-line glue.
- Inside modelled parts: encodings, logging, wording, redaction, truncation of
  results that nothing reads again, key generation and reading, parameter schemas,
  path resolution; that the times an approver signs are rounded to four decimals.

Left to do:

1. The duplicate-call detector and the approval shield of `circuit_breaker.py`, the
   handover report and the second compactor of `runtime_control.py`, the repair
   history of the diagnostic engine.
2. A validator that starts a discovery itself; ill-formed items in a replan.
3. The storage gate against a changing file system, the socket life cycle of the
   broker (bind, unlink, start).
