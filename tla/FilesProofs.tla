---------------------------- MODULE FilesProofs ----------------------------
(***************************************************************************)
(* Theorems about the components that share a file: the cron breaker, the  *)
(* negative cache, the spool directory and the inline patch, for any number *)
(* of processes, entries, files, lines and faults.                         *)
(***************************************************************************)
EXTENDS MCFiles, FiniteSetTheorems, SequenceTheorems, TLAPS

(***************************************************************************)
(* Folds over finite sets, by the least set for which a claim fails.       *)
(***************************************************************************)
\* Among subsets of a finite set there is one that has no other of them as a
\* subset.
LEMMA SmallestSet ==
  ASSUME NEW S, IsFiniteSet(S), NEW T, T \subseteq SUBSET S, T # {}
  PROVE  \E x \in T : \A y \in T : y \subseteq x => y = x
<1>1. T \subseteq FiniteSubsetsOf(S)
  BY FS_FiniteSubsetsOfFinite
<1>2. PICK x \in T : \A y \in T : ~(<<y, x>> \in StrictSubsetOrdering(S))
  BY <1>1, FS_StrictSubsetOrderingWellFounded, WFMin
<1>3. ASSUME NEW y \in T, y \subseteq x PROVE y = x
  <2>1. <<y, x>> \in (SUBSET S) \X (SUBSET S)
    OBVIOUS
  <2>2. QED
    BY <1>2, <1>3, <2>1 DEF StrictSubsetOrdering
<1>4. QED
  BY <1>3

\* `pick` takes an element of every subset, and `step` keeps within V.
Picks(pick, S) ==
  IsFiniteSet(S) /\ \A s \in SUBSET S : s # {} => pick[s] \in s

Keeps(step, S, V) == \A x \in S : \A v \in V : step[<<x, v>>] \in V

\* Folding the subsets of S: `pick` takes an element of a set, and `step` adds
\* it to what the others fold to.
FoldRule(g, S, start, pick, step) ==
  g = [s \in SUBSET S |->
         IF s = {} THEN start ELSE step[<<pick[s], g[s \ {pick[s]}]>>]]

\* Two folds agree wherever both are defined.
LEMMA FoldsAgree ==
  ASSUME NEW U, NEW start, NEW pick, NEW step, Picks(pick, U),
         NEW T, T \subseteq U, NEW S, S \subseteq T,
         NEW g, FoldRule(g, S, start, pick, step),
         NEW h, FoldRule(h, T, start, pick, step)
  PROVE  g[S] = h[S]
<1> DEFINE Differ == {s \in SUBSET S : g[s] # h[s]}
<1> SUFFICES ASSUME Differ # {} PROVE FALSE
  OBVIOUS
<1>0. IsFiniteSet(U) /\ \A s \in SUBSET U : s # {} => pick[s] \in s
  BY DEF Picks
<1>1. PICK s \in Differ : \A y \in Differ : y \subseteq s => y = s
  <2>1. Differ \subseteq SUBSET U
    OBVIOUS
  <2> HIDE DEF Differ
  <2>2. QED
    BY <1>0, <2>1, SmallestSet
<1>2. \A u \in SUBSET S :
        /\ g[u] = IF u = {} THEN start ELSE step[<<pick[u], g[u \ {pick[u]}]>>]
        /\ h[u] = IF u = {} THEN start ELSE step[<<pick[u], h[u \ {pick[u]}]>>]
  BY Zenon DEF FoldRule
<1>3. s # {}
  BY <1>2
<1>4. s \ {pick[s]} \in SUBSET S /\ s \ {pick[s]} \notin Differ
  BY <1>0, <1>1, <1>3
<1>5. QED
  BY <1>2, <1>3, <1>4

\* There is a fold of every subset of a finite set.
LEMMA FoldExists ==
  ASSUME NEW U, NEW start, NEW pick, NEW step, Picks(pick, U)
  PROVE  \A S \in SUBSET U : \E g : FoldRule(g, S, start, pick, step)
<1> DEFINE Folds(g, S) == FoldRule(g, S, start, pick, step)
           Unfolded == {s \in SUBSET U : ~ \E g : Folds(g, s)}
<1> SUFFICES ASSUME Unfolded # {} PROVE FALSE
  OBVIOUS
<1>0. IsFiniteSet(U) /\ \A s \in SUBSET U : s # {} => pick[s] \in s
  BY DEF Picks
<1>1. PICK s \in Unfolded : \A y \in Unfolded : y \subseteq s => y = s
  <2>1. Unfolded \subseteq SUBSET U
    OBVIOUS
  <2> HIDE DEF Unfolded
  <2>2. QED
    BY <1>0, <2>1, SmallestSet
<1> DEFINE G(u) == CHOOSE g : Folds(g, u)
           Rest(u) == u \ {pick[u]}
           A(u) == IF u = {} THEN start ELSE step[<<pick[u], G(Rest(u))[Rest(u)]>>]
           h == [u \in SUBSET s |-> A(u)]
           B(u) == IF u = {} THEN start ELSE step[<<pick[u], h[Rest(u)]>>]
<1>2. \A u \in SUBSET s : u # s => Folds(G(u), u)
  <2> SUFFICES ASSUME NEW u \in SUBSET s, u # s PROVE \E g : Folds(g, u)
    OBVIOUS
  <2>1. QED
    BY <1>1
<1>3. \A u \in SUBSET s :
        u # {} => Rest(u) \subseteq u /\ Rest(u) # s
  BY <1>0
<1>4. \A u \in SUBSET s : u # s => h[u] = G(u)[u]
  <2> SUFFICES ASSUME NEW u \in SUBSET s, u # s PROVE h[u] = G(u)[u]
    OBVIOUS
  <2>1. G(u)[u] = IF u = {} THEN start ELSE step[<<pick[u], G(u)[Rest(u)]>>]
    <3>1. Folds(G(u), u)
      BY <1>2
    <3> HIDE DEF G
    <3>2. QED
      BY <3>1, Zenon DEF FoldRule
  <2>2. u # {} => G(u)[Rest(u)] = G(Rest(u))[Rest(u)]
    <3> SUFFICES ASSUME u # {} PROVE G(u)[Rest(u)] = G(Rest(u))[Rest(u)]
      OBVIOUS
    <3>1. /\ FoldRule(G(u), u, start, pick, step)
          /\ FoldRule(G(Rest(u)), Rest(u), start, pick, step)
      BY <1>2, <1>3
    <3>2. Rest(u) \subseteq u /\ u \subseteq U
      BY <1>3
    <3> DEFINE g == G(u)
               f == G(Rest(u))
               rest == Rest(u)
    <3>3. FoldRule(g, u, start, pick, step) /\ FoldRule(f, rest, start, pick, step)
      BY <3>1
    <3>4. rest \subseteq u
      BY <3>2
    <3> HIDE DEF g, f, rest
    <3>5. g[rest] = f[rest]
      BY <3>2, <3>3, <3>4, FoldsAgree
    <3>6. QED
      BY <3>5 DEF g, f, rest
  <2>3. h[u] = A(u)
    BY Zenon
  <2> HIDE DEF h, G, Rest
  <2>4. QED
    BY <2>1, <2>2, <2>3
<1>5. \A u \in SUBSET s : A(u) = B(u)
  <2> HIDE DEF h, G, Rest
  <2>1. QED
    BY <1>3, <1>4, Zenon
<1>6. h = [u \in SUBSET s |-> B(u)]
  <2>1. h = [u \in SUBSET s |-> A(u)]
    OBVIOUS
  <2> HIDE DEF A, B, h
  <2>2. QED
    BY <1>5, <2>1
<1>7. Folds(h, s)
  <2> HIDE DEF h
  <2>1. QED
    BY <1>6 DEF FoldRule
<1>8. QED
  BY <1>1, <1>7, Zenon

\* A fold stays within what its steps keep within.
LEMMA FoldType ==
  ASSUME NEW S, NEW start, NEW pick, NEW step, Picks(pick, S),
         NEW g, FoldRule(g, S, start, pick, step),
         NEW V, start \in V, Keeps(step, S, V)
  PROVE  \A s \in SUBSET S : g[s] \in V
<1> DEFINE Out == {s \in SUBSET S : g[s] \notin V}
<1> SUFFICES ASSUME Out # {} PROVE FALSE
  OBVIOUS
<1>0. IsFiniteSet(S) /\ \A s \in SUBSET S : s # {} => pick[s] \in s
  BY DEF Picks
<1>1. PICK s \in Out : \A y \in Out : y \subseteq s => y = s
  <2>1. Out \subseteq SUBSET S
    OBVIOUS
  <2> HIDE DEF Out
  <2>2. QED
    BY <1>0, <2>1, SmallestSet
<1>2. g[s] = IF s = {} THEN start ELSE step[<<pick[s], g[s \ {pick[s]}]>>]
  BY Zenon DEF FoldRule
<1>3. s # {}
  BY <1>1, <1>2
<1>4. pick[s] \in s /\ pick[s] \in S
  BY <1>0, <1>3
<1>5. g[s \ {pick[s]}] \in V
  BY <1>1, <1>4
<1>6. QED
  BY <1>1, <1>2, <1>3, <1>4, <1>5 DEF Keeps
-----------------------------------------------------------------------------
(***************************************************************************)
(* The cron breaker: the entries keep type and coherence.                  *)
(***************************************************************************)
\* What the calls put into an entry: a healed one, one with a failure more, or
\* one whose probe begins.  They keep type and coherence.
LEMMA HealedEntry ==
  ASSUME NEW entry \in CronEntry
  PROVE  Healed(entry) \in CronEntry /\ Coherent(Healed(entry))
<1>1. /\ Healed(entry).state = "HEALTHY"
      /\ Healed(entry).consecutive_failures = 0
      /\ Healed(entry).alert_sent = FALSE
  BY DEF Healed, CronEntry
<1>2. Coherent(Healed(entry))
  BY <1>1, CronConstants DEF Coherent
<1>3. Healed(entry) \in CronEntry
  BY DEF Healed, CronEntry
<1>4. QED
  BY <1>2, <1>3

\* One failure more takes a coherent entry to a coherent one.
LEMMA FailedEntry ==
  ASSUME cronClock \in Nat, NEW entry \in CronEntry
  PROVE  /\ Failed(entry) \in CronEntry
         /\ AlertDue(entry) \in BOOLEAN
         /\ Coherent(entry) => Coherent(Failed(entry))
<1> DEFINE failures == entry.consecutive_failures + 1
<1>1. CASE failures >= CronThreshold
  <2>1. Failed(entry) =
          [known |-> TRUE, consecutive_failures |-> failures,
           state |-> "DEGRADED_QUARANTINED", last_probe_time |-> cronClock,
           alert_sent |-> entry.alert_sent \/ AlertDue(entry)]
    BY <1>1 DEF Failed
  <2>2. entry.alert_sent \/ AlertDue(entry) \in BOOLEAN
    BY DEF CronEntry, AlertDue
  <2>3. Coherent(entry) => (entry.alert_sent \/ AlertDue(entry))
    BY <1>1, CronConstants DEF Coherent, AlertDue, CronEntry
  <2>4. failures \in Nat
    BY DEF CronEntry
  <2>5. Failed(entry) \in CronEntry
    BY <2>1, <2>2, <2>4 DEF CronEntry
  <2>6. /\ Failed(entry).state # "HEALTHY"
        /\ Failed(entry).consecutive_failures = failures
        /\ Failed(entry).alert_sent = (entry.alert_sent \/ AlertDue(entry))
    BY <2>1
  <2>7. Coherent(entry) => Coherent(Failed(entry))
    <3>1. SUFFICES ASSUME Coherent(entry) PROVE Coherent(Failed(entry))
      OBVIOUS
    <3>2. Failed(entry).alert_sent
      BY <2>3, <2>6, <3>1
    <3>3. QED
      BY <1>1, <2>6, <3>2 DEF Coherent
  <2>8. QED
    BY <2>5, <2>7, Zenon DEF AlertDue
<1>2. CASE ~(failures >= CronThreshold)
  <2>1. Failed(entry) =
          [entry EXCEPT !.known = TRUE, !.consecutive_failures = failures]
    BY <1>2 DEF Failed
  <2>2. Failed(entry) \in CronEntry
    <3>1. failures \in Nat
      BY DEF CronEntry
    <3> HIDE DEF failures
    <3>2. QED
      BY <2>1, <3>1 DEF CronEntry
  <2>3. /\ Failed(entry).state = entry.state
        /\ Failed(entry).consecutive_failures = failures
        /\ Failed(entry).alert_sent = entry.alert_sent
    BY <2>1 DEF CronEntry
  <2>4. ~(entry.consecutive_failures >= CronThreshold)
    BY <1>2, CronConstants DEF CronEntry
  <2>5. Coherent(entry) => Coherent(Failed(entry))
    BY <1>2, <2>3, <2>4, Zenon DEF Coherent
  <2>6. QED
    BY <2>2, <2>5, Zenon DEF AlertDue
<1>3. QED
  BY <1>1, <1>2

\* A probe that begins leaves an entry coherent.
LEMMA ProbedEntry ==
  ASSUME cronClock \in Nat, NEW entry \in CronEntry,
         entry.state = "DEGRADED_QUARANTINED"
  PROVE  LET probed == [entry EXCEPT !.state = "SLOW_PROBING",
                                     !.last_probe_time = cronClock]
         IN  probed \in CronEntry /\ (Coherent(entry) => Coherent(probed))
BY CronConstants DEF CronEntry, Coherent

\* An engine without entries has healthy ones.
LEMMA EmptyEntries ==
  NoEntries \in [Job -> CronEntry] /\ \A j \in Job : Coherent(NoEntries[j])
BY CronConstants DEF NoEntries, NoEntry, CronEntry, Coherent

-----------------------------------------------------------------------------
\* A call that changes one entry to one of its type keeps the types.
LEMMA ChangeKeepsTypes ==
  ASSUME CronTypeOK, NEW e \in Engine, NEW j \in Job, NEW entry \in CronEntry,
         NEW alert \in BOOLEAN, Change(e, j, entry, alert)
  PROVE  /\ cronMemory' \in [Engine -> [Job -> CronEntry]]
         /\ cronAt' \in [Engine -> {"down", "idle", "save", "return"}]
         /\ cronJob' \in [Engine -> Job]
         /\ cronAlert' \in [Engine -> BOOLEAN]
<1> DEFINE mine == [cronMemory[e] EXCEPT ![j] = entry]
<1>1. mine \in [Job -> CronEntry]
  BY DEF CronTypeOK
<1>2. cronMemory' = [cronMemory EXCEPT ![e] = mine]
  BY DEF Change
<1> HIDE DEF mine
<1>3. cronMemory' \in [Engine -> [Job -> CronEntry]]
  BY <1>1, <1>2 DEF CronTypeOK
<1>4. QED
  BY <1>3 DEF Change, CronGoto, CronTypeOK

\* The breaker keeps its types (every operation of CronCircuitBreakerEngine,
\* its loads and saves, the end of a process and the clock).
THEOREM CronTypeCorrect == CronSpec => []CronTypeOK
<1>1. CronInit => CronTypeOK
  <2> SUFFICES ASSUME CronInit PROVE CronTypeOK
    OBVIOUS
  <2>1. cronJob \in [Engine -> Job]
    BY DEF CronInit
  <2>2. QED
    BY <2>1, EmptyEntries, CronConstants DEF CronInit, CronTypeOK
<1>2. CronTypeOK /\ [CronNext]_cronVars => CronTypeOK'
  <2> SUFFICES ASSUME CronTypeOK, [CronNext]_cronVars PROVE CronTypeOK'
    OBVIOUS
  <2> USE DEF CronTypeOK
  <2>1. ASSUME NEW e \in Engine, CronLoad(e)
        PROVE  CronTypeOK'
    <3>1. crowded' \in BOOLEAN
      BY <2>1 DEF CronLoad
    <3>2. cronMemory' \in [Engine -> [Job -> CronEntry]]
      BY <2>1, EmptyEntries DEF CronLoad
    <3>3. QED
      BY <2>1, <3>1, <3>2 DEF CronLoad, CronGoto
  <2>2. ASSUME NEW e \in Engine, NEW j \in Job, AllowProbe(e, j)
        PROVE  CronTypeOK'
    <3> DEFINE entry == cronMemory[e][j]
               probed == [entry EXCEPT !.state = "SLOW_PROBING",
                                       !.last_probe_time = cronClock]
    <3>1. entry \in CronEntry /\ entry.state = "DEGRADED_QUARANTINED"
      BY <2>2 DEF AllowProbe
    <3>2. probed \in CronEntry
      BY <3>1, ProbedEntry
    <3>3. Change(e, j, probed, FALSE)
      BY <2>2 DEF AllowProbe
    <3> HIDE DEF probed
    <3>4. QED
      BY <2>2, <3>2, <3>3, ChangeKeepsTypes DEF AllowProbe
  <2>3. ASSUME NEW e \in Engine, NEW j \in Job,
               RecordSuccess(e, j) \/ ResetBreaker(e, j)
        PROVE  CronTypeOK'
    <3>1. Healed(cronMemory[e][j]) \in CronEntry
      BY HealedEntry
    <3>2. Change(e, j, Healed(cronMemory[e][j]), FALSE)
      BY <2>3 DEF RecordSuccess, ResetBreaker
    <3>3. /\ cronMemory' \in [Engine -> [Job -> CronEntry]]
          /\ cronAt' \in [Engine -> {"down", "idle", "save", "return"}]
          /\ cronJob' \in [Engine -> Job]
          /\ cronAlert' \in [Engine -> BOOLEAN]
      BY <3>1, <3>2, ChangeKeepsTypes
    <3>4. told' = [told EXCEPT ![j] = 0] /\ results' \in {results, results + 1}
      BY <2>3, Zenon DEF RecordSuccess, ResetBreaker
    <3>5. UNCHANGED <<cronClock, cronFile, cronFaults, crowded, cronCrashed>>
      BY <2>3, Zenon DEF RecordSuccess, ResetBreaker
    <3>6. QED
      BY <3>3, <3>4, <3>5
  <2>4. ASSUME NEW e \in Engine, NEW j \in Job, RecordFailure(e, j)
        PROVE  CronTypeOK'
    <3>1. /\ Failed(cronMemory[e][j]) \in CronEntry
          /\ AlertDue(cronMemory[e][j]) \in BOOLEAN
      BY FailedEntry
    <3>2. Change(e, j, Failed(cronMemory[e][j]), AlertDue(cronMemory[e][j]))
      BY <2>4 DEF RecordFailure
    <3>3. /\ cronMemory' \in [Engine -> [Job -> CronEntry]]
          /\ cronAt' \in [Engine -> {"down", "idle", "save", "return"}]
          /\ cronJob' \in [Engine -> Job]
          /\ cronAlert' \in [Engine -> BOOLEAN]
      BY <3>1, <3>2, ChangeKeepsTypes
    <3>4. results' = results + 1
      BY <2>4, Zenon DEF RecordFailure
    <3>5. UNCHANGED <<cronClock, cronFile, cronFaults, crowded, cronCrashed,
                      told>>
      BY <2>4, Zenon DEF RecordFailure
    <3>6. QED
      BY <3>3, <3>4, <3>5
  <2>5. ASSUME NEW e \in Engine, SaveState(e)
        PROVE  CronTypeOK'
    BY <2>5 DEF SaveState, WriteState, CronGoto
  <2>6. ASSUME NEW e \in Engine, CronReturn(e)
        PROVE  CronTypeOK'
    <3>1. told' \in {told, [told EXCEPT ![cronJob[e]] = @ + 1]}
      BY <2>6, Zenon DEF CronReturn
    <3>2. told' \in [Job -> Nat]
      BY <3>1
    <3>3. /\ CronGoto(e, "idle")
          /\ cronAlert' = [cronAlert EXCEPT ![e] = FALSE]
          /\ UNCHANGED <<cronClock, cronFile, cronMemory, cronJob, results,
                         cronFaults, crowded, cronCrashed>>
      BY <2>6, Zenon DEF CronReturn
    <3>4. QED
      BY <3>2, <3>3 DEF CronGoto
  <2>7. ASSUME NEW e \in Engine, CronStop(e)
        PROVE  CronTypeOK'
    <3>1. cronCrashed' \in BOOLEAN
      BY <2>7 DEF CronStop
    <3>2. QED
      BY <2>7, <3>1, EmptyEntries DEF CronStop, CronGoto
  <2>8. CASE CronTick
    BY <2>8 DEF CronTick
  <2>9. CASE UNCHANGED cronVars
    BY <2>9 DEF cronVars
  <2>10. QED
    BY <2>1, <2>2, <2>3, <2>4, <2>5, <2>6, <2>7, <2>8, <2>9 DEF CronNext
<1>3. QED
  BY <1>1, <1>2, PTL DEF CronSpec
-----------------------------------------------------------------------------
\* A call that changes one entry to a coherent one keeps the others.
LEMMA ChangeKeepsCoherence ==
  ASSUME CronTypeOK, EntriesCoherent, NEW e \in Engine, NEW j \in Job,
         NEW entry, Coherent(entry), NEW alert, Change(e, j, entry, alert),
         UNCHANGED cronFile
  PROVE  EntriesCoherent'
<1>1. ASSUME NEW d \in Engine, NEW i \in Job
      PROVE  Coherent(cronMemory'[d][i])
  <2>1. CASE d = e /\ i = j
    <3>1. cronMemory'[d][i] = entry
      BY <2>1 DEF Change, CronTypeOK
    <3>2. QED
      BY <3>1
  <2>2. CASE ~(d = e /\ i = j)
    <3>1. cronMemory'[d][i] = cronMemory[d][i]
      BY <2>2 DEF Change, CronTypeOK
    <3>2. QED
      BY <3>1 DEF EntriesCoherent
  <2>3. QED
    BY <2>1, <2>2
<1>2. QED
  BY <1>1 DEF EntriesCoherent, Coherent

\* However engines overlap, fail to load or to save, and die, nobody ever
\* decides from or loads an entry whose state, count and alert flag disagree.
THEOREM EntriesStayCoherent == CronSpec => []EntriesCoherent
<1>1. CronInit => EntriesCoherent
  BY EmptyEntries DEF CronInit, EntriesCoherent
<1>2. CronTypeOK /\ EntriesCoherent /\ [CronNext]_cronVars => EntriesCoherent'
  <2> SUFFICES ASSUME CronTypeOK, EntriesCoherent, [CronNext]_cronVars
               PROVE  EntriesCoherent'
    OBVIOUS
  <2>1. ASSUME NEW e \in Engine, CronLoad(e) \/ CronStop(e)
        PROVE  EntriesCoherent'
    <3>1. PICK loaded \in {cronFile, NoEntries} :
            cronMemory' = [cronMemory EXCEPT ![e] = loaded]
      BY <2>1 DEF CronLoad, CronStop
    <3>2. \A j \in Job : Coherent(loaded[j])
      BY EmptyEntries DEF EntriesCoherent
    <3>3. ASSUME NEW d \in Engine, NEW j \in Job
          PROVE  Coherent(cronMemory'[d][j])
      BY <3>1, <3>2 DEF CronTypeOK, EntriesCoherent
    <3>4. UNCHANGED cronFile
      BY <2>1 DEF CronLoad, CronStop
    <3>5. QED
      BY <3>3, <3>4 DEF EntriesCoherent, Coherent
  <2>2. ASSUME NEW e \in Engine, NEW j \in Job, AllowProbe(e, j)
        PROVE  EntriesCoherent'
    <3> DEFINE entry == cronMemory[e][j]
               probed == [entry EXCEPT !.state = "SLOW_PROBING",
                                       !.last_probe_time = cronClock]
    <3>1. /\ entry \in CronEntry /\ entry.state = "DEGRADED_QUARANTINED"
          /\ cronClock \in Nat
      BY <2>2 DEF AllowProbe, CronTypeOK
    <3>2. Coherent(probed)
      BY <3>1, ProbedEntry DEF EntriesCoherent
    <3>3. Change(e, j, probed, FALSE) /\ UNCHANGED cronFile
      BY <2>2 DEF AllowProbe
    <3> HIDE DEF probed
    <3>4. QED
      BY <3>2, <3>3, ChangeKeepsCoherence
  <2>3. ASSUME NEW e \in Engine, NEW j \in Job,
               RecordSuccess(e, j) \/ ResetBreaker(e, j)
        PROVE  EntriesCoherent'
    <3>1. Coherent(Healed(cronMemory[e][j]))
      BY HealedEntry DEF CronTypeOK
    <3>2. /\ Change(e, j, Healed(cronMemory[e][j]), FALSE)
          /\ UNCHANGED cronFile
      BY <2>3 DEF RecordSuccess, ResetBreaker
    <3>3. QED
      BY <3>1, <3>2, ChangeKeepsCoherence
  <2>4. ASSUME NEW e \in Engine, NEW j \in Job, RecordFailure(e, j)
        PROVE  EntriesCoherent'
    <3>1. Coherent(Failed(cronMemory[e][j]))
      BY FailedEntry DEF CronTypeOK, EntriesCoherent
    <3>2. /\ Change(e, j, Failed(cronMemory[e][j]), AlertDue(cronMemory[e][j]))
          /\ UNCHANGED cronFile
      BY <2>4 DEF RecordFailure
    <3>3. QED
      BY <3>1, <3>2, ChangeKeepsCoherence
  <2>5. ASSUME NEW e \in Engine, SaveState(e)
        PROVE  EntriesCoherent'
    <3>1. /\ cronFile' \in {cronFile, cronMemory[e]}
          /\ UNCHANGED cronMemory
      BY <2>5 DEF SaveState, WriteState
    <3>2. QED
      BY <3>1 DEF EntriesCoherent, Coherent
  <2>6. CASE UNCHANGED <<cronFile, cronMemory>>
    BY <2>6 DEF EntriesCoherent, Coherent
  <2>7. QED
    BY <2>1, <2>2, <2>3, <2>4, <2>5, <2>6
       DEF CronNext, CronReturn, CronTick, cronVars
<1>3. QED
  BY <1>1, <1>2, CronTypeCorrect, PTL DEF CronSpec
-----------------------------------------------------------------------------
(***************************************************************************)
(* While engines take turns and nothing fails, the copy of the only engine *)
(* is the file but for the entry of its call, and an alert that counts as  *)
(* sent has been told, is about to be, or died with its engine.            *)
(***************************************************************************)
Pending(e, j) == cronAlert[e] /\ cronJob[e] = j

CalmEngine(e) ==
  /\ cronAt[e] \in {"idle", "return"} => cronMemory[e] = cronFile
  /\ cronAt[e] = "save" =>
       \A j \in Job : j # cronJob[e] => cronMemory[e][j] = cronFile[j]
  /\ cronAlert[e] => /\ cronAt[e] \in {"save", "return"}
                     /\ told[cronJob[e]] = 0
                     /\ cronMemory[e][cronJob[e]].alert_sent
  /\ cronAt[e] # "down" =>
       \A j \in Job :
         /\ told[j] # 0 => cronMemory[e][j].alert_sent
         /\ ~cronCrashed /\ cronMemory[e][j].alert_sent => told[j] # 0 \/ Pending(e, j)

CalmJob(j) ==
  /\ told[j] <= 1
  /\ told[j] # 0 => cronFile[j].alert_sent
  /\ ~cronCrashed /\ cronFile[j].alert_sent =>
       \/ told[j] # 0
       \/ \E e \in Engine : cronAt[e] \in {"save", "return"} /\ cronJob[e] = j

Calm ==
  /\ \A e, d \in Engine : cronAt[e] # "down" /\ cronAt[d] # "down" => e = d
  /\ \A e \in Engine : CalmEngine(e)
  /\ \A j \in Job : CalmJob(j)

CalmInv == CronTypeOK /\ (~crowded /\ cronFaults = 0 => Calm)

\* An engine that is down holds no alert.
LEMMA CalmDown ==
  ASSUME NEW e \in Engine, cronAt[e] = "down", ~cronAlert[e]
  PROVE  CalmEngine(e)
BY DEF CalmEngine

\* Steps of one engine keep the others down.
LEMMA OthersDown ==
  ASSUME CronTypeOK, Calm, NEW e \in Engine,
         cronAt[e] # "down" \/ \A d \in Engine : cronAt[d] = "down",
         NEW stage, cronAt' = [cronAt EXCEPT ![e] = stage],
         \A d \in Engine : d # e => cronAlert'[d] = cronAlert[d]
  PROVE  /\ \A d \in Engine : d # e => /\ cronAt[d] = "down" /\ cronAt'[d] = "down"
                                       /\ CalmEngine(d)'
         /\ (\A d, c \in Engine : cronAt[d] # "down" /\ cronAt[c] # "down" => d = c)'
<1>1. ASSUME NEW d \in Engine, d # e
      PROVE  cronAt[d] = "down" /\ cronAt'[d] = "down" /\ CalmEngine(d)'
  <2>1. cronAt[d] = "down" /\ cronAt'[d] = "down"
    BY <1>1 DEF Calm, CronTypeOK
  <2>2. ~cronAlert[d]
    BY <2>1 DEF Calm, CalmEngine
  <2>3. QED
    BY <1>1, <2>1, <2>2 DEF CalmEngine
<1>2. QED
  BY <1>1

\* A call that changes an entry, by what it makes of the alert flag and of told.
LEMMA CalmChange ==
  ASSUME CronTypeOK, Calm, NEW e \in Engine, NEW j \in Job, NEW entry \in CronEntry,
         NEW alert \in BOOLEAN, cronAt[e] = "idle", Change(e, j, entry, alert),
         UNCHANGED <<cronFile, cronCrashed>>,
         \/ told' = [told EXCEPT ![j] = 0] /\ ~entry.alert_sent /\ ~alert
         \/ /\ told' = told
            /\ cronMemory[e][j].alert_sent => entry.alert_sent
            /\ entry.alert_sent => cronMemory[e][j].alert_sent \/ alert
            /\ alert => entry.alert_sent /\ ~cronMemory[e][j].alert_sent
  PROVE  Calm'
<1>1. /\ cronAt' = [cronAt EXCEPT ![e] = "save"]
      /\ cronAlert' = [cronAlert EXCEPT ![e] = alert]
      /\ cronJob' = [cronJob EXCEPT ![e] = j]
  BY DEF Change, CronGoto
<1>2. /\ \A d \in Engine : d # e => CalmEngine(d)'
      /\ (\A d, c \in Engine : cronAt[d] # "down" /\ cronAt[c] # "down" => d = c)'
  BY <1>1, OthersDown DEF CronTypeOK
<1>3. cronAt'[e] = "save" /\ cronAlert'[e] = alert /\ cronJob'[e] = j
  BY <1>1 DEF CronTypeOK
<1>4. /\ cronMemory'[e][j] = entry
      /\ \A i \in Job : i # j => cronMemory'[e][i] = cronMemory[e][i]
  BY DEF Change, CronTypeOK
<1>5. cronMemory[e] = cronFile /\ ~cronAlert[e]
  BY DEF Calm, CalmEngine
<1>6. told \in [Job -> Nat] /\ told' \in [Job -> Nat]
      /\ \A i \in Job : told'[i] \in {0, told[i]} /\ (i # j => told'[i] = told[i])
  BY DEF CronTypeOK
<1>7. \A i \in Job : /\ told[i] # 0 => cronFile[i].alert_sent
                     /\ told[i] <= 1
                     /\ ~cronCrashed /\ cronFile[i].alert_sent => told[i] # 0
  BY <1>5 DEF Calm, CalmEngine, CalmJob, Pending
<1>8. \/ told'[j] = 0 /\ ~entry.alert_sent /\ ~alert
      \/ /\ told'[j] = told[j]
         /\ cronFile[j].alert_sent => entry.alert_sent
         /\ entry.alert_sent => cronFile[j].alert_sent \/ alert
         /\ alert => entry.alert_sent /\ ~cronFile[j].alert_sent
  BY <1>5 DEF CronTypeOK
<1>9. alert => told'[j] = 0 /\ entry.alert_sent
  BY <1>6, <1>7, <1>8
<1>10. ASSUME NEW i \in Job
       PROVE  /\ told'[i] # 0 => cronMemory'[e][i].alert_sent
              /\ ~cronCrashed /\ cronMemory'[e][i].alert_sent => told'[i] # 0 \/ (alert /\ j = i)
  <2>1. CASE i = j
    BY <1>4, <1>7, <1>8, <2>1
  <2>2. CASE i # j
    BY <1>4, <1>5, <1>6, <1>7, <2>2
  <2>3. QED
    BY <2>1, <2>2
<1>11. CalmEngine(e)'
  BY <1>3, <1>4, <1>5, <1>9, <1>10 DEF CalmEngine, Pending
<1>12. ASSUME NEW i \in Job PROVE CalmJob(i)'
  <2>1. told'[i] <= 1 /\ (told'[i] # 0 => cronFile[i].alert_sent)
    BY <1>6, <1>7
  <2>2. CASE i = j
    BY <1>3, <2>1, <2>2 DEF CalmJob
  <2>3. CASE i # j
    BY <1>6, <1>7, <2>1, <2>3 DEF CalmJob
  <2>4. QED
    BY <2>2, <2>3
<1>13. QED
  BY <1>2, <1>11, <1>12 DEF Calm
\* The alert flag of the entries the calls put in.
LEMMA AlertFlags ==
  ASSUME cronClock \in Nat, NEW entry \in CronEntry
  PROVE  /\ ~Healed(entry).alert_sent
         /\ Failed(entry).alert_sent <=> entry.alert_sent \/ AlertDue(entry)
         /\ AlertDue(entry) => ~entry.alert_sent
         /\ [entry EXCEPT !.state = "SLOW_PROBING",
                          !.last_probe_time = cronClock].alert_sent = entry.alert_sent
<1>1. ~Healed(entry).alert_sent
  BY DEF Healed, CronEntry
<1>2. CASE entry.consecutive_failures + 1 >= CronThreshold
  <2>1. Failed(entry).alert_sent = (entry.alert_sent \/ AlertDue(entry))
    BY <1>2 DEF Failed
  <2>2. QED
    BY <1>1, <2>1 DEF AlertDue, CronEntry
<1>3. CASE ~(entry.consecutive_failures + 1 >= CronThreshold)
  <2>1. Failed(entry).alert_sent = entry.alert_sent /\ ~AlertDue(entry)
    BY <1>3 DEF Failed, AlertDue, CronEntry
  <2>2. QED
    BY <1>1, <2>1 DEF CronEntry
<1>4. QED
  BY <1>2, <1>3

\* No step disturbs engines that take turns.
LEMMA CalmStep ==
  ASSUME CronTypeOK, CronTypeOK', [CronNext]_cronVars, CalmInv, ~crowded', cronFaults' = 0
  PROVE  Calm'
<1>1. ~crowded /\ cronFaults = 0
  <2>1. ~crowded
    BY Zenon DEF CronNext, cronVars, CronLoad, SaveState, CronReturn, CronStop, AllowProbe,
       RecordSuccess, RecordFailure, ResetBreaker, CronTick
  <2>2. cronFaults' \in {cronFaults, cronFaults + 1}
    BY Zenon DEF CronNext, cronVars, CronLoad, SaveState, CronReturn, CronStop, AllowProbe,
       RecordSuccess, RecordFailure, ResetBreaker, CronTick
  <2>3. QED
    BY <2>1, <2>2 DEF CronTypeOK
<1>2. Calm
  BY <1>1 DEF CalmInv
<1>3. ASSUME NEW e \in Engine, CronLoad(e) PROVE Calm'
  <2>1. \A d \in Engine : cronAt[d] = "down"
    BY <1>3, Zenon DEF CronLoad
  <2>2. /\ cronAt' = [cronAt EXCEPT ![e] = "idle"] /\ cronMemory'[e] = cronFile
        /\ UNCHANGED <<cronFile, cronJob, cronAlert, cronCrashed, told>>
    BY <1>1, <1>3 DEF CronLoad, CronGoto, CronTypeOK
  <2>3. cronAt'[e] = "idle" /\ \A d \in Engine : ~cronAlert[d]
    BY <1>2, <2>1, <2>2 DEF CronTypeOK, Calm, CalmEngine
  <2>4. \A j \in Job : /\ told[j] <= 1 /\ (told[j] # 0 => cronFile[j].alert_sent)
                       /\ ~cronCrashed /\ cronFile[j].alert_sent => told[j] # 0
    BY <1>2, <2>1 DEF Calm, CalmJob
  <2>5. CalmEngine(e)' /\ \A j \in Job : CalmJob(j)'
    BY <2>2, <2>3, <2>4 DEF CalmEngine, CalmJob
  <2>6. QED
    BY <1>2, <2>1, <2>2, <2>5, OthersDown DEF Calm
<1>4. ASSUME NEW e \in Engine, NEW j \in Job,
             AllowProbe(e, j) \/ RecordSuccess(e, j) \/ RecordFailure(e, j) \/ ResetBreaker(e, j)
      PROVE  Calm'
  <2> DEFINE entry == cronMemory[e][j]
             probed == [entry EXCEPT !.state = "SLOW_PROBING",
                                     !.last_probe_time = cronClock]
  <2>1. entry \in CronEntry /\ cronClock \in Nat /\ cronAt[e] = "idle"
        /\ UNCHANGED <<cronFile, cronCrashed>>
    <3>1. entry \in CronEntry /\ cronClock \in Nat
      BY DEF CronTypeOK
    <3>2. cronAt[e] = "idle" /\ cronFile' = cronFile /\ cronCrashed' = cronCrashed
      BY <1>4, Zenon DEF AllowProbe, RecordSuccess, RecordFailure, ResetBreaker
    <3>3. QED
      BY <3>1, <3>2
  <2>2. CASE AllowProbe(e, j)
    <3>1. probed \in CronEntry /\ probed.alert_sent = entry.alert_sent
      BY <2>1, <2>2, ProbedEntry, AlertFlags DEF AllowProbe
    <3>2. Change(e, j, probed, FALSE) /\ told' = told
      BY <2>2 DEF AllowProbe
    <3> HIDE DEF probed
    <3>3. QED
      BY <1>2, <2>1, <3>1, <3>2, CalmChange
  <2>3. CASE RecordSuccess(e, j) \/ ResetBreaker(e, j)
    <3>1. Change(e, j, Healed(entry), FALSE) /\ told' = [told EXCEPT ![j] = 0]
      BY <2>3, Zenon DEF RecordSuccess, ResetBreaker
    <3>2. Healed(entry) \in CronEntry /\ ~Healed(entry).alert_sent
      BY <2>1, HealedEntry, AlertFlags
    <3>3. QED
      BY <1>2, <2>1, <3>1, <3>2, CalmChange
  <2>4. CASE RecordFailure(e, j)
    <3>1. Change(e, j, Failed(entry), AlertDue(entry)) /\ told' = told
      BY <2>4, Zenon DEF RecordFailure
    <3>2. Failed(entry) \in CronEntry /\ AlertDue(entry) \in BOOLEAN
      BY <2>1, FailedEntry
    <3>3. /\ Failed(entry).alert_sent <=> entry.alert_sent \/ AlertDue(entry)
          /\ AlertDue(entry) => ~entry.alert_sent
      BY <2>1, AlertFlags
    <3>4. QED
      BY <1>2, <2>1, <3>1, <3>2, <3>3, CalmChange
  <2>5. QED
    BY <1>4, <2>2, <2>3, <2>4
<1>5. ASSUME NEW e \in Engine, SaveState(e) PROVE Calm'
  <2>1. /\ cronAt[e] = "save" /\ cronAt' = [cronAt EXCEPT ![e] = "return"]
        /\ cronFile' = cronMemory[e]
        /\ UNCHANGED <<cronMemory, cronJob, cronAlert, cronCrashed, told>>
    BY <1>1, <1>5 DEF SaveState, WriteState, CronGoto, CronTypeOK
  <2>2. cronAt'[e] = "return" /\ CalmEngine(e)
    BY <1>2, <2>1 DEF CronTypeOK, Calm
  <2>3. CalmEngine(e)'
    BY <2>1, <2>2 DEF CalmEngine, Pending
  <2>4. ASSUME NEW j \in Job PROVE CalmJob(j)'
    <3>1. /\ told[j] # 0 => cronMemory[e][j].alert_sent
          /\ ~cronCrashed /\ cronMemory[e][j].alert_sent => told[j] # 0 \/ cronJob[e] = j
      BY <2>1, <2>2 DEF CalmEngine, Pending
    <3>2. told[j] <= 1
      BY <1>2 DEF Calm, CalmJob
    <3>3. QED
      BY <2>1, <2>2, <3>1, <3>2 DEF CalmJob
  <2>5. QED
    BY <1>2, <2>1, <2>3, <2>4, OthersDown DEF Calm
<1>6. ASSUME NEW e \in Engine, CronReturn(e) PROVE Calm'
  <2>1. /\ cronAt[e] = "return" /\ cronAt' = [cronAt EXCEPT ![e] = "idle"]
        /\ cronAlert' = [cronAlert EXCEPT ![e] = FALSE]
        /\ UNCHANGED <<cronFile, cronMemory, cronJob, cronCrashed>>
    BY <1>6, Zenon DEF CronReturn, CronGoto
  <2>2. /\ cronAt'[e] = "idle" /\ ~cronAlert'[e]
        /\ \A d \in Engine : d # e => cronAlert'[d] = cronAlert[d]
    BY <2>1 DEF CronTypeOK
  <2>3. CalmEngine(e) /\ cronMemory[e] = cronFile
    BY <1>2, <2>1 DEF Calm, CalmEngine
  <2>4. ASSUME NEW j \in Job
        PROVE  /\ told'[j] \in Nat /\ told'[j] <= 1
               /\ told'[j] # 0 => cronFile[j].alert_sent
               /\ ~cronCrashed /\ cronFile[j].alert_sent => told'[j] # 0
    <3>1. told \in [Job -> Nat] /\ told[j] <= 1 /\ cronJob[e] \in Job
      BY <1>2 DEF CronTypeOK, Calm, CalmJob
    <3>2. CASE Pending(e, j)
      <4>1. told[j] = 0 /\ cronFile[j].alert_sent
        BY <2>3, <3>2 DEF CalmEngine, Pending
      <4>2. told'[j] = 1
        BY <1>6, <3>1, <3>2, <4>1 DEF CronReturn, Pending
      <4>3. QED
        BY <4>1, <4>2
    <3>3. CASE ~Pending(e, j)
      <4>1. told'[j] = told[j]
        BY <1>6, <3>1, <3>3 DEF CronReturn, Pending
      <4>2. /\ told[j] # 0 => cronFile[j].alert_sent
            /\ ~cronCrashed /\ cronFile[j].alert_sent => told[j] # 0
        BY <2>1, <2>3, <3>3 DEF CalmEngine
      <4>3. QED
        BY <3>1, <4>1, <4>2
    <3>4. QED
      BY <3>2, <3>3
  <2>5. CalmEngine(e)' /\ \A j \in Job : CalmJob(j)'
    BY <2>1, <2>2, <2>3, <2>4 DEF CalmEngine, CalmJob
  <2>6. QED
    BY <1>2, <2>1, <2>2, <2>5, OthersDown DEF Calm
<1>7. ASSUME NEW e \in Engine, CronStop(e) PROVE Calm'
  <2>1. /\ cronAt[e] # "down" /\ cronAt' = [cronAt EXCEPT ![e] = "down"]
        /\ cronAlert' = [cronAlert EXCEPT ![e] = FALSE]
        /\ cronCrashed' = (cronCrashed \/ cronAt[e] # "idle")
        /\ UNCHANGED <<cronFile, cronJob, told>>
    BY <1>7, Zenon DEF CronStop, CronGoto
  <2>2. /\ cronAt'[e] = "down" /\ ~cronAlert'[e]
        /\ \A d \in Engine : d # e => cronAlert'[d] = cronAlert[d]
    BY <2>1 DEF CronTypeOK
  <2>3. CalmEngine(e)'
    BY <2>2 DEF CalmEngine
  <2>4. ASSUME NEW j \in Job PROVE CalmJob(j)'
    <3>1. CalmJob(j)
      BY <1>2 DEF Calm
    <3>2. ~cronCrashed' /\ cronFile[j].alert_sent => told[j] # 0
      <4>1. SUFFICES ASSUME ~cronCrashed', cronFile[j].alert_sent PROVE told[j] # 0
        OBVIOUS
      <4>2. cronAt[e] = "idle" /\ ~cronCrashed
        BY <2>1, <4>1, Zenon
      <4>3. CalmEngine(e)
        BY <1>2 DEF Calm
      <4>4. QED
        BY <4>1, <4>2, <4>3 DEF CalmEngine, Pending
    <3>3. QED
      BY <2>1, <3>1, <3>2 DEF CalmJob
  <2>5. QED
    BY <1>2, <2>1, <2>2, <2>3, <2>4, OthersDown DEF Calm
<1>8. CASE UNCHANGED <<cronFile, cronMemory, cronAt, cronJob, cronAlert, cronCrashed, told>>
  <2>1. \A e \in Engine : CalmEngine(e)'
    BY <1>2, <1>8 DEF Calm, CalmEngine, Pending
  <2>2. \A j \in Job : CalmJob(j)'
    BY <1>2, <1>8 DEF Calm, CalmJob
  <2>3. QED
    BY <1>2, <1>8, <2>1, <2>2 DEF Calm
<1>9. QED
  BY <1>3, <1>4, <1>5, <1>6, <1>7, <1>8 DEF CronNext, CronTick, cronVars

\* While engines take turns and the file can be read and written, an outage is
\* told at most once, and when no engine died in a call it has been told when
\* they rest ("Single Deduplicated Alert Trigger").
THEOREM OutagesToldOnce == CronSpec => []OutageToldOnce
<1>1. CronInit /\ CronTypeOK => CalmInv
  <2> SUFFICES ASSUME CronInit, CronTypeOK PROVE Calm
    BY DEF CalmInv
  <2>1. \A e \in Engine : cronAt[e] = "down" /\ ~cronAlert[e]
    BY DEF CronInit
  <2>2. \A j \in Job : told[j] = 0 /\ ~cronFile[j].alert_sent
    BY DEF CronInit, NoEntries, NoEntry
  <2>3. QED
    BY <2>1, <2>2 DEF Calm, CalmEngine, CalmJob
<1>2. CronTypeOK /\ CronTypeOK' /\ CalmInv /\ [CronNext]_cronVars => CalmInv'
  BY CalmStep DEF CalmInv
<1>3. CalmInv => OutageToldOnce
  <2> SUFFICES ASSUME CalmInv, ~crowded, cronFaults = 0, NEW j \in Job
               PROVE  /\ told[j] <= 1
                      /\ /\ ~cronCrashed
                         /\ cronFile[j].alert_sent
                         /\ \A e \in Engine : cronAt[e] \in {"down", "idle"}
                         => told[j] = 1
    BY DEF OutageToldOnce
  <2>1. CalmJob(j) /\ told[j] \in Nat
    BY DEF CalmInv, Calm, CronTypeOK
  <2>2. QED
    BY <2>1 DEF CalmJob
<1>4. QED
  BY <1>1, <1>2, <1>3, CronTypeCorrect, PTL DEF CronSpec
-----------------------------------------------------------------------------
(***************************************************************************)
(* The negative cache.                                                     *)
(***************************************************************************)
\* A cache may have no entry.
LEMMA NoEntryType == NoEntryAtAll \in Cache
BY DEF NoEntryAtAll, Cache

\* Pruning takes a cache to a cache.
LEMMA PrunedType ==
  ASSUME NegTypeOK, NEW cache \in Cache
  PROVE  /\ Pruned(cache) \in Cache
         /\ \A r \in Resource : Pruned(cache)[r] = IF cache[r] > negClock THEN cache[r] ELSE 0
BY DEF NegTypeOK, Pruned, Cache

\* A recorded entry: the key is one of the keys, the copy a cache.
LEMMA RecordType ==
  ASSUME NegTypeOK, NEW c \in Caller, NEW r \in Resource
  PROVE  LET k == Stored[r]
             until == Expiry(negCopy[c][k])
             copy == [Pruned(negCopy[c]) EXCEPT ![k] = until]
         IN /\ k \in Resource /\ until \in Nat /\ until = negClock + NegativeTTL
            /\ copy \in Cache
            /\ copy[k] = until
            /\ \A q \in Resource : q # k => copy[q] = Pruned(negCopy[c])[q]
<1> DEFINE k == Stored[r]
           until == Expiry(negCopy[c][k])
<1>1. k \in Resource /\ until \in Nat /\ until = negClock + NegativeTTL
  BY NegativeConstants DEF NegTypeOK, Expiry
<1>2. Pruned(negCopy[c]) \in Cache
  BY PrunedType DEF NegTypeOK
<1> HIDE DEF k, until
<1>3. /\ [Pruned(negCopy[c]) EXCEPT ![k] = until] \in Cache
      /\ [Pruned(negCopy[c]) EXCEPT ![k] = until][k] = until
      /\ \A q \in Resource : q # k =>
           [Pruned(negCopy[c]) EXCEPT ![k] = until][q] = Pruned(negCopy[c])[q]
  BY <1>1, <1>2 DEF Cache
<1>4. QED
  BY <1>1, <1>3 DEF k, until

\* A call that begins to save keeps the types.
LEMMA BeginSaveType ==
  ASSUME NegTypeOK, NEW c \in Caller, NEW copy \in Cache, NEW keys \in SUBSET Resource,
         NEW until \in Nat, BeginSave(c, copy, keys, until)
  PROVE  /\ negAt' \in [Caller -> {"idle", "change", "save"}]
         /\ negCopy' \in [Caller -> Cache]
         /\ negEffect' \in [Caller -> [keys : SUBSET Resource, until : Nat]]
         /\ negMixed' \in [Caller -> BOOLEAN]
         /\ \A d \in Caller : negMixed'[d] => negAt'[d] = "save"
<1>1. negMixed' \in [Caller -> BOOLEAN]
  BY Zenon DEF BeginSave
<1>2. \A d \in Caller : negMixed'[d] => negMixed[d] \/ negAt[d] = "save" \/ d = c
  BY DEF BeginSave
<1>3. negAt' = [negAt EXCEPT ![c] = "save"]
  BY DEF BeginSave, NegGoto
<1>4. QED
  BY <1>1, <1>2, <1>3 DEF BeginSave, NegTypeOK

\* A call that returns keeps the types.
LEMMA NegReturnType ==
  ASSUME NegTypeOK, NEW c \in Caller, NegReturn(c)
  PROVE  /\ negAt' \in [Caller -> {"idle", "change", "save"}]
         /\ negCopy' \in [Caller -> Cache]
         /\ negEffect' \in [Caller -> [keys : SUBSET Resource, until : Nat]]
         /\ negMixed' \in [Caller -> BOOLEAN]
         /\ \A d \in Caller : negMixed'[d] => negAt'[d] = "save"
<1>1. negMixed' \in [Caller -> BOOLEAN]
  BY Zenon DEF NegReturn, NegTypeOK
<1>2. \A d \in Caller : negMixed'[d] => negMixed[d] /\ d # c
  BY DEF NegReturn, NegTypeOK
<1>3. QED
  BY <1>1, <1>2, NoEntryType DEF NegReturn, NegGoto, NegTypeOK

\* Every step of the negative cache keeps its types.
LEMMA NegStepType == NegTypeOK /\ [NegNext]_negVars => NegTypeOK'
<1> SUFFICES ASSUME NegTypeOK, [NegNext]_negVars PROVE NegTypeOK'
  OBVIOUS
<1>1. ASSUME NEW c \in Caller, LoadCache(c) PROVE NegTypeOK'
  <2>1. negOverlap' \in BOOLEAN
    BY <1>1, Zenon DEF LoadCache, NegTypeOK
  <2>2. negCopy' \in [Caller -> Cache] /\ negFaults' \in Nat
    BY <1>1, NoEntryType DEF LoadCache, NegFault, NegTypeOK
  <2>3. QED
    BY <1>1, <2>1, <2>2 DEF LoadCache, NegGoto, NegTypeOK
<1>2. ASSUME NEW c \in Caller, ClearAll(c) PROVE NegTypeOK'
  <2>1. negOverlap' \in BOOLEAN
    BY <1>2, Zenon DEF ClearAll, NegTypeOK
  <2>2. BeginSave(c, NoEntryAtAll, Resource, 0)
    BY <1>2 DEF ClearAll
  <2>3. /\ negAt' \in [Caller -> {"idle", "change", "save"}]
        /\ negCopy' \in [Caller -> Cache]
        /\ negEffect' \in [Caller -> [keys : SUBSET Resource, until : Nat]]
        /\ negMixed' \in [Caller -> BOOLEAN]
        /\ \A d \in Caller : negMixed'[d] => negAt'[d] = "save"
    BY <2>2, BeginSaveType, NoEntryType
  <2>4. negCalls' = negCalls + 1 /\ UNCHANGED <<negClock, negFile, negFaults, recorded, due>>
    BY <1>2 DEF ClearAll
  <2>5. QED
    BY <2>1, <2>3, <2>4 DEF NegTypeOK
<1>3. ASSUME NEW c \in Caller, SaveCache(c) PROVE NegTypeOK'
  <2>1. negFile' \in Cache
    BY <1>3, NoEntryType DEF SaveCache, Saved, NegTypeOK
  <2>2. due' \in [Resource -> Nat]
    BY <1>3 DEF SaveCache, NegTypeOK
  <2>3. QED
    BY <1>3, <2>1, <2>2, NegReturnType DEF SaveCache, NegTypeOK
<1>4. ASSUME NEW c \in Caller, LoseCall(c) PROVE NegTypeOK'
  BY <1>4, NegReturnType DEF LoseCall, NegFault, NegTypeOK
<1>5. ASSUME NEW c \in Caller, NEW r \in Resource, RecordResource(c, r) PROVE NegTypeOK'
  <2> DEFINE k == Stored[r]
             until == Expiry(negCopy[c][k])
             copy == [Pruned(negCopy[c]) EXCEPT ![k] = until]
  <2>1. k \in Resource /\ until \in Nat /\ copy \in Cache
    BY RecordType
  <2>2. BeginSave(c, copy, {k}, until)
    BY <1>5 DEF RecordResource
  <2>3. recorded' = [recorded EXCEPT ![k] = negClock]
        /\ UNCHANGED <<negClock, negFile, negCalls, negFaults, negOverlap, due>>
    BY <1>5 DEF RecordResource
  <2> HIDE DEF k, until, copy
  <2>4. QED
    BY <2>1, <2>2, <2>3, BeginSaveType DEF NegTypeOK
<1>6. ASSUME NEW c \in Caller, NEW r \in Resource, ClearResource(c, r) PROVE NegTypeOK'
  <2>1. CASE NegGoto(c, "idle") /\ UNCHANGED <<negCopy, negEffect, negMixed>>
    <3>1. negAt[c] = "change" /\ negAt' = [negAt EXCEPT ![c] = "idle"]
      BY <1>6, <2>1 DEF ClearResource, NegGoto
    <3>2. \A d \in Caller : negMixed'[d] => negAt'[d] = "save"
      BY <2>1, <3>1 DEF NegTypeOK
    <3>3. QED
      BY <1>6, <2>1, <3>1, <3>2 DEF ClearResource, NegTypeOK
  <2>2. CASE BeginSave(c, [negCopy[c] EXCEPT ![r] = 0], {r}, 0)
    <3>1. [negCopy[c] EXCEPT ![r] = 0] \in Cache
      BY DEF NegTypeOK, Cache
    <3>2. QED
      BY <1>6, <2>2, <3>1, BeginSaveType DEF ClearResource, NegTypeOK
  <2>3. QED
    BY <1>6, <2>1, <2>2 DEF ClearResource
<1>7. CASE NegTick
  BY <1>7 DEF NegTick, NegTypeOK
<1>8. CASE UNCHANGED negVars
  BY <1>8 DEF negVars, NegTypeOK
<1>9. QED
  BY <1>1, <1>2, <1>3, <1>4, <1>5, <1>6, <1>7, <1>8 DEF NegNext

\* The negative cache begins with its types.
LEMMA NegInitType == NegInit => NegTypeOK
<1> SUFFICES ASSUME NegInit PROVE NegTypeOK
  OBVIOUS
<1>1. negMixed \in [Caller -> BOOLEAN] /\ \A c \in Caller : ~negMixed[c]
  BY Zenon DEF NegInit
<1>2. QED
  BY <1>1, NoEntryType DEF NegInit, NegTypeOK

\* The negative cache keeps its types.
THEOREM NegTypeCorrect == NegSpec => []NegTypeOK
BY NegInitType, NegStepType, PTL DEF NegSpec
-----------------------------------------------------------------------------
(***************************************************************************)
(* No copy of the cache lists an entry longer than the time to live of the *)
(* last record under its key.  And while callers take turns and nothing    *)
(* fails, the file lists what the finished calls left, but for entries     *)
(* that have run out.                                                      *)
(***************************************************************************)
Within(cache, times) ==
  \A r \in Resource :
    cache[r] > 0 => times[r] > 0 /\ cache[r] <= times[r] + NegativeTTL

NegEarned ==
  /\ negClock > 0
  /\ \A r \in Resource : recorded[r] <= negClock
  /\ Within(negFile, recorded)
  /\ \A c \in Caller : Within(negCopy[c], recorded)

\* Two times until which an entry is listed that no check at `time` or later
\* can tell apart.
Same(x, y, time) == x = y \/ (x <= time /\ y <= time)

\* What c's call will have made due when it has saved.
DueAfter(c, r) == IF r \in negEffect[c].keys THEN negEffect[c].until ELSE due[r]

TakingTurns(c) ==
  /\ ~negMixed[c]
  /\ negAt[c] = "change" => negCopy[c] = negFile
  /\ negAt[c] = "save" => \A r \in Resource : Same(negCopy[c][r], DueAfter(c, r), negClock)

NegTurns ==
  /\ \A c, d \in Caller : negAt[c] # "idle" /\ negAt[d] # "idle" => c = d
  /\ \A c \in Caller : TakingTurns(c)
  /\ \A r \in Resource : Same(negFile[r], due[r], negClock)

NegInv ==
  /\ NegTypeOK
  /\ NegEarned
  /\ ~negOverlap /\ negFaults = 0 => NegTurns

\* The invariant is at least the property.
LEMMA NegImplies == NegInv => BlocksAreEarned
<1> SUFFICES ASSUME NegInv, NEW r \in Resource
             PROVE  /\ Blocked(r) => recorded[r] > 0 /\ negClock < recorded[r] + NegativeTTL
                    /\ ~negOverlap /\ negFaults = 0 => (Blocked(r) <=> negClock < due[r])
  BY DEF BlocksAreEarned
<1>1. negClock \in Nat /\ negFile[r] \in Nat /\ recorded[r] \in Nat /\ due[r] \in Nat
      /\ NegativeTTL \in Nat
  BY NegativeConstants DEF NegInv, NegTypeOK, Cache
<1>2. negFile[r] > 0 => recorded[r] > 0 /\ negFile[r] <= recorded[r] + NegativeTTL
  BY DEF NegInv, NegEarned, Within
<1>3. ~negOverlap /\ negFaults = 0 => Same(negFile[r], due[r], negClock)
  BY DEF NegInv, NegTurns
<1>4. QED
  BY <1>1, <1>2, <1>3 DEF Blocked, Same

LEMMA NoEntryWithin == \A times : Within(NoEntryAtAll, times)
BY DEF Within, NoEntryAtAll

\* Listed no longer than the last record allowed, a cache stays so when a
\* resource is recorded anew.
LEMMA WithinStays ==
  ASSUME NegTypeOK, NegEarned, NEW k \in Resource, NEW m \in Cache, Within(m, recorded)
  PROVE  Within(m, [recorded EXCEPT ![k] = negClock])
<1> DEFINE times == [recorded EXCEPT ![k] = negClock]
<1>1. SUFFICES ASSUME NEW r \in Resource, m[r] > 0
               PROVE  times[r] > 0 /\ m[r] <= times[r] + NegativeTTL
  BY DEF Within
<1>2. recorded[r] > 0 /\ m[r] <= recorded[r] + NegativeTTL
  BY <1>1 DEF Within
<1>3. /\ recorded[r] \in Nat /\ negClock \in Nat /\ times[r] \in {recorded[r], negClock}
      /\ recorded[r] <= negClock /\ m[r] \in Nat /\ NegativeTTL \in Nat
  BY NegativeConstants DEF NegTypeOK, NegEarned, Cache
<1> HIDE DEF times
<1>4. QED
  BY <1>2, <1>3

\* No step, however calls overlap, puts an expiry into a copy or the file that no
\* record of its key earned.
LEMMA NegEarnedStep ==
  ASSUME NegTypeOK, NegEarned, [NegNext]_negVars
  PROVE  NegEarned'
<1>1. /\ negClock \in Nat /\ NegativeTTL \in Nat /\ negFile \in Cache
      /\ \A c \in Caller : negCopy[c] \in Cache
      /\ Within(negFile, recorded) /\ \A c \in Caller : Within(negCopy[c], recorded)
  BY NegativeConstants DEF NegTypeOK, NegEarned
<1>2. ASSUME recorded' = recorded, negClock' = negClock,
             \/ negFile' \in {negFile, NoEntryAtAll}
             \/ \E d \in Caller : negFile' = negCopy[d],
             \A c \in Caller : \/ negCopy'[c] \in {negCopy[c], negFile, NoEntryAtAll}
                               \/ \E r \in Resource : negCopy'[c] = [negCopy[c] EXCEPT ![r] = 0]
      PROVE  NegEarned'
  <2>1. Within(negFile', recorded)
    BY <1>1, <1>2, NoEntryWithin
  <2>2. ASSUME NEW c \in Caller PROVE Within(negCopy'[c], recorded)
    <3>1. CASE negCopy'[c] \in {negCopy[c], negFile, NoEntryAtAll}
      BY <1>1, <3>1, NoEntryWithin
    <3>2. ASSUME NEW r \in Resource, negCopy'[c] = [negCopy[c] EXCEPT ![r] = 0]
          PROVE  Within(negCopy'[c], recorded)
      BY <1>1, <3>2 DEF Within, Cache
    <3>3. QED
      BY <1>2, <3>1, <3>2
  <2>3. QED
    BY <1>2, <2>1, <2>2 DEF NegEarned
<1>3. ASSUME NEW c \in Caller, LoadCache(c) \/ ClearAll(c) \/ SaveCache(c) \/ LoseCall(c)
      PROVE  NegEarned'
  <2>1. recorded' = recorded /\ negClock' = negClock
    BY <1>3 DEF LoadCache, ClearAll, SaveCache, LoseCall
  <2>2. \/ negFile' \in {negFile, NoEntryAtAll}
        \/ \E d \in Caller : negFile' = negCopy[d]
    BY <1>3 DEF LoadCache, ClearAll, SaveCache, LoseCall, Saved
  <2>3. \E m \in {negFile, NoEntryAtAll} : negCopy' = [negCopy EXCEPT ![c] = m]
    BY <1>3 DEF LoadCache, ClearAll, SaveCache, LoseCall, NegReturn, BeginSave
  <2>4. \A d \in Caller : negCopy'[d] \in {negCopy[d], negFile, NoEntryAtAll}
    BY <2>3 DEF NegTypeOK
  <2>5. QED
    BY <1>2, <2>1, <2>2, <2>4
<1>4. ASSUME NEW c \in Caller, NEW r \in Resource, ClearResource(c, r) PROVE NegEarned'
  <2>1. \/ negCopy' = negCopy
        \/ negCopy' = [negCopy EXCEPT ![c] = [negCopy[c] EXCEPT ![r] = 0]]
    BY <1>4 DEF ClearResource, BeginSave
  <2>2. \A d \in Caller : \/ negCopy'[d] = negCopy[d]
                          \/ negCopy'[d] = [negCopy[d] EXCEPT ![r] = 0]
    BY <2>1 DEF NegTypeOK
  <2>3. UNCHANGED <<recorded, negClock, negFile>>
    BY <1>4 DEF ClearResource
  <2>4. QED
    BY <1>2, <2>2, <2>3
<1>5. ASSUME NEW c \in Caller, NEW r \in Resource, RecordResource(c, r) PROVE NegEarned'
  <2> DEFINE k == Stored[r]
             until == Expiry(negCopy[c][k])
             copy == [Pruned(negCopy[c]) EXCEPT ![k] = until]
             times == [recorded EXCEPT ![k] = negClock]
  <2>1. /\ k \in Resource /\ until = negClock + NegativeTTL
        /\ copy \in Cache /\ copy[k] = until
        /\ \A q \in Resource : q # k => copy[q] = Pruned(negCopy[c])[q]
    BY RecordType
  <2>2. /\ negCopy' = [negCopy EXCEPT ![c] = copy] /\ recorded' = times
        /\ negFile' = negFile /\ negClock' = negClock
    BY <1>5 DEF RecordResource, BeginSave
  <2>3. \A q \in Resource : Pruned(negCopy[c])[q] \in {0, negCopy[c][q]}
    BY <1>1, PrunedType
  <2> HIDE DEF k, until, copy
  <2>4. /\ times \in [Resource -> Nat] /\ times[k] = negClock
        /\ \A q \in Resource : q # k => times[q] = recorded[q]
    BY <2>1 DEF NegTypeOK
  <2>5. Within(negFile, times) /\ \A d \in Caller : Within(negCopy[d], times)
    BY <1>1, <2>1, WithinStays
  <2>6. Within(copy, times)
    <3>1. SUFFICES ASSUME NEW q \in Resource, copy[q] > 0
                   PROVE  times[q] > 0 /\ copy[q] <= times[q] + NegativeTTL
      BY DEF Within
    <3>2. CASE q = k
      BY <1>1, <2>1, <2>4, <3>2 DEF NegEarned
    <3>3. CASE q # k
      <4>1. copy[q] = negCopy[c][q]
        BY <2>1, <2>3, <3>1, <3>3
      <4>2. QED
        BY <2>5, <3>1, <4>1 DEF Within
    <3>4. QED
      BY <3>2, <3>3
  <2>7. \A d \in Caller : Within(negCopy'[d], times)
    BY <2>2, <2>5, <2>6 DEF NegTypeOK
  <2>8. \A q \in Resource : times[q] <= negClock
    BY <1>1, <2>1, <2>4 DEF NegEarned
  <2> HIDE DEF times
  <2>9. QED
    BY <2>2, <2>5, <2>7, <2>8 DEF NegEarned
<1>6. CASE NegTick
  BY <1>1, <1>6 DEF NegTick, NegEarned, NegTypeOK
<1>7. CASE UNCHANGED negVars
  BY <1>7 DEF negVars, NegEarned
<1>8. QED
  BY <1>3, <1>4, <1>5, <1>6, <1>7 DEF NegNext
\* A save that begins while every other caller is idle is not mixed up.
LEMMA LoneSave ==
  ASSUME NegTypeOK, NegTurns, NEW c \in Caller, NEW copy \in Cache,
         NEW keys \in SUBSET Resource, NEW until \in Nat,
         BeginSave(c, copy, keys, until),
         \A d \in Caller : d # c => negAt[d] = "idle",
         UNCHANGED <<negClock, negFile, due>>,
         \A r \in Resource : Same(copy[r], IF r \in keys THEN until ELSE due[r], negClock)
  PROVE  NegTurns'
<1>1. \A d \in Caller : ~negMixed[d]
  BY DEF NegTurns, TakingTurns
<1>2. \A d \in Caller : ~negMixed'[d]
  BY <1>1 DEF BeginSave
<1>3. negAt' = [negAt EXCEPT ![c] = "save"]
  BY DEF BeginSave, NegGoto
<1>4. \A d \in Caller : d # c => negAt'[d] = "idle"
  BY <1>3 DEF NegTypeOK
<1>5. negAt'[c] = "save" /\ negCopy'[c] = copy
      /\ negEffect'[c].keys = keys /\ negEffect'[c].until = until
  BY <1>3 DEF BeginSave, NegTypeOK
<1>6. TakingTurns(c)'
  BY <1>2, <1>5 DEF TakingTurns, DueAfter
<1>7. \A d \in Caller : d # c => TakingTurns(d)'
  BY <1>2, <1>4 DEF TakingTurns
<1>8. QED
  BY <1>4, <1>6, <1>7 DEF NegTurns

\* While callers take turns, copy and file hold what is due.
LEMMA NegTurnsStep ==
  ASSUME NegTypeOK, NegTypeOK', [NegNext]_negVars, ~negOverlap', negFaults' = 0,
         ~negOverlap /\ negFaults = 0 => NegTurns
  PROVE  NegTurns'
<1>1. NegTurns
  <2>1. ~negOverlap
    BY Zenon DEF NegNext, negVars, LoadCache, ClearAll, SaveCache, LoseCall, RecordResource,
       ClearResource, NegTick
  <2>2. negFaults' \in {negFaults, negFaults + 1}
    BY Zenon DEF NegNext, negVars, LoadCache, ClearAll, SaveCache, LoseCall, RecordResource,
       ClearResource, NegTick, NegFault
  <2>3. QED
    BY <2>1, <2>2 DEF NegTypeOK
<1>2. negClock \in Nat /\ negFile \in Cache /\ \A c \in Caller : negCopy[c] \in Cache
  BY DEF NegTypeOK
<1>3. ASSUME NEW c \in Caller, LoadCache(c) PROVE NegTurns'
  <2>1. \A d \in Caller : negAt[d] = "idle"
    BY <1>3, Zenon DEF LoadCache
  <2>2. negFaults' # negFaults + 1
    BY DEF NegTypeOK
  <2>3. /\ negCopy' = [negCopy EXCEPT ![c] = negFile]
        /\ negAt' = [negAt EXCEPT ![c] = "change"]
        /\ UNCHANGED <<negClock, negFile, negEffect, negMixed, due>>
    BY <1>3, <2>2 DEF LoadCache, NegFault, NegGoto
  <2>4. /\ negAt'[c] = "change" /\ negCopy'[c] = negFile
        /\ \A d \in Caller : d # c => negAt'[d] = "idle"
    BY <2>1, <2>3 DEF NegTypeOK
  <2>5. \A d \in Caller : ~negMixed'[d]
    BY <1>1, <2>3 DEF NegTurns, TakingTurns
  <2>6. \A d \in Caller : TakingTurns(d)'
    BY <2>3, <2>4, <2>5 DEF TakingTurns
  <2>7. QED
    BY <1>1, <2>3, <2>4, <2>6 DEF NegTurns
<1>4. ASSUME NEW c \in Caller, ClearAll(c) PROVE NegTurns'
  <2>1. \A d \in Caller : negAt[d] = "idle"
    BY <1>4, Zenon DEF ClearAll
  <2>2. BeginSave(c, NoEntryAtAll, Resource, 0) /\ UNCHANGED <<negClock, negFile, due>>
    BY <1>4 DEF ClearAll
  <2>3. \A r \in Resource : NoEntryAtAll[r] = 0
    BY DEF NoEntryAtAll
  <2>4. QED
    BY <1>1, <2>1, <2>2, <2>3, LoneSave, NoEntryType DEF Same
<1>5. ASSUME NEW c \in Caller, NEW r \in Resource, RecordResource(c, r) \/ ClearResource(c, r)
      PROVE  /\ negCopy[c] = negFile
             /\ \A d \in Caller : d # c => negAt[d] = "idle"
             /\ UNCHANGED <<negClock, negFile, due>>
  BY <1>1, <1>5 DEF RecordResource, ClearResource, NegTurns, TakingTurns
<1>6. ASSUME NEW c \in Caller, NEW r \in Resource, RecordResource(c, r) PROVE NegTurns'
  <2> DEFINE k == Stored[r]
             until == Expiry(negCopy[c][k])
             copy == [Pruned(negCopy[c]) EXCEPT ![k] = until]
  <2>1. /\ k \in Resource /\ until \in Nat /\ copy \in Cache /\ copy[k] = until
        /\ \A q \in Resource : q # k => copy[q] = Pruned(negCopy[c])[q]
    BY RecordType
  <2>2. BeginSave(c, copy, {k}, until)
    BY <1>6 DEF RecordResource
  <2>3. \A q \in Resource : Pruned(negCopy[c])[q] = IF negFile[q] > negClock THEN negFile[q] ELSE 0
    BY <1>2, <1>5, <1>6, PrunedType
  <2> HIDE DEF k, until, copy
  <2>4. ASSUME NEW q \in Resource
        PROVE  Same(copy[q], IF q \in {k} THEN until ELSE due[q], negClock)
    <3>1. CASE q = k
      BY <2>1, <3>1 DEF Same
    <3>2. CASE q # k
      <4>1. Same(negFile[q], due[q], negClock) /\ negFile[q] \in Nat /\ due[q] \in Nat
        BY <1>1, <1>2 DEF NegTurns, NegTypeOK, Cache
      <4>2. copy[q] = IF negFile[q] > negClock THEN negFile[q] ELSE 0
        BY <2>1, <2>3, <3>2
      <4>3. QED
        BY <1>2, <3>2, <4>1, <4>2 DEF Same
    <3>3. QED
      BY <3>1, <3>2
  <2>5. QED
    BY <1>1, <1>5, <1>6, <2>1, <2>2, <2>4, LoneSave
<1>7. ASSUME NEW c \in Caller, NEW r \in Resource, ClearResource(c, r) PROVE NegTurns'
  <2>1. CASE NegGoto(c, "idle") /\ UNCHANGED <<negCopy, negEffect, negMixed>>
    <3>1. \A d \in Caller : negAt'[d] = "idle"
      BY <1>5, <1>7, <2>1 DEF NegGoto, NegTypeOK
    <3>2. \A d \in Caller : TakingTurns(d)'
      BY <1>1, <2>1, <3>1 DEF NegTurns, TakingTurns
    <3>3. QED
      BY <1>1, <1>5, <1>7, <3>1, <3>2 DEF NegTurns
  <2>2. CASE BeginSave(c, [negCopy[c] EXCEPT ![r] = 0], {r}, 0)
    <3> DEFINE copy == [negCopy[c] EXCEPT ![r] = 0]
    <3>1. copy \in Cache /\ copy[r] = 0 /\ \A q \in Resource : q # r => copy[q] = negFile[q]
      BY <1>2, <1>5, <1>7 DEF Cache
    <3> HIDE DEF copy
    <3>2. \A q \in Resource : Same(copy[q], IF q \in {r} THEN 0 ELSE due[q], negClock)
      BY <1>1, <3>1 DEF Same, NegTurns
    <3>3. BeginSave(c, copy, {r}, 0)
      BY <2>2 DEF copy
    <3>4. QED
      BY <1>1, <1>5, <1>7, <3>1, <3>2, <3>3, LoneSave
  <2>3. QED
    BY <1>7, <2>1, <2>2 DEF ClearResource
<1>8. ASSUME NEW c \in Caller, SaveCache(c) PROVE NegTurns'
  <2>1. TakingTurns(c) /\ negAt[c] = "save"
        /\ \A d \in Caller : ~negMixed[d] /\ (d # c => negAt[d] = "idle")
    BY <1>1, <1>8 DEF SaveCache, NegTurns, TakingTurns
  <2>2. /\ negFile' = negCopy[c] /\ negClock' = negClock
        /\ \A r \in Resource : due'[r] = DueAfter(c, r)
    BY <1>8, <2>1 DEF SaveCache, Saved, DueAfter
  <2>3. \A d \in Caller : negAt'[d] = "idle" /\ ~negMixed'[d]
    BY <1>8, <2>1 DEF SaveCache, NegReturn, NegGoto, NegTypeOK
  <2>4. \A r \in Resource : Same(negFile'[r], due'[r], negClock')
    BY <2>1, <2>2 DEF TakingTurns
  <2>5. QED
    BY <2>3, <2>4 DEF NegTurns, TakingTurns
<1>9. ASSUME NEW c \in Caller, LoseCall(c) PROVE NegTurns'
  BY <1>9 DEF LoseCall, NegFault, NegTypeOK
<1>10. CASE NegTick \/ UNCHANGED negVars
  <2>1. negClock' >= negClock /\ negClock' \in Nat
        /\ UNCHANGED <<negFile, negAt, negCopy, negEffect, negMixed, due>>
    BY <1>2, <1>10 DEF NegTick, negVars
  <2>2. \A x, y \in Nat : Same(x, y, negClock) => Same(x, y, negClock')
    BY <1>2, <2>1 DEF Same
  <2>3. \A r \in Resource : Same(negFile'[r], due'[r], negClock')
    BY <1>1, <1>2, <2>1, <2>2 DEF NegTurns, NegTypeOK, Cache
  <2>4. ASSUME NEW c \in Caller PROVE TakingTurns(c)'
    <3>1. \A r \in Resource : negCopy[c][r] \in Nat /\ DueAfter(c, r) \in Nat
      BY DEF NegTypeOK, Cache, DueAfter
    <3>2. \A r \in Resource : Same(negCopy[c][r], DueAfter(c, r), negClock)
                              => Same(negCopy[c][r], DueAfter(c, r), negClock')
      BY <2>2, <3>1
    <3>3. TakingTurns(c)
      BY <1>1 DEF NegTurns
    <3>4. QED
      BY <2>1, <3>2, <3>3 DEF TakingTurns, DueAfter
  <2>5. QED
    BY <1>1, <2>1, <2>3, <2>4 DEF NegTurns
<1>11. QED
  BY <1>3, <1>4, <1>6, <1>7, <1>8, <1>9, <1>10 DEF NegNext

\* However callers overlap and fail, a resource is blocked only within the time
\* to live of a record under its key; and while they take turns and nothing
\* fails, what the finished calls recorded and cleared holds.
THEOREM BlocksEarned == NegSpec => []BlocksAreEarned
<1>1. NegInit => NegInv
  <2> SUFFICES ASSUME NegInit PROVE NegInv
    OBVIOUS
  <2>1. \A r \in Resource : negFile[r] = 0 /\ due[r] = 0 /\ recorded[r] = 0
    BY DEF NegInit, NoEntryAtAll
  <2>2. \A c \in Caller : negAt[c] = "idle" /\ ~negMixed[c]
    BY Zenon DEF NegInit
  <2>3. NegEarned
    BY <2>1, NoEntryWithin DEF NegInit, NegEarned
  <2>4. NegTurns
    BY <2>1, <2>2 DEF NegTurns, TakingTurns, Same
  <2>5. QED
    BY <2>3, <2>4, NegInitType DEF NegInv
<1>2. NegInv /\ [NegNext]_negVars => NegInv'
  BY NegStepType, NegEarnedStep, NegTurnsStep DEF NegInv
<1>3. QED
  BY <1>1, <1>2, NegImplies, PTL DEF NegSpec
-----------------------------------------------------------------------------
(***************************************************************************)
(* The spool directory: what the sizes of its files add up to.             *)
(***************************************************************************)
First(list) == CHOOSE f \in list : TRUE

SizeFold(sum, list) ==
  sum = [s \in SUBSET list |->
           IF s = {} THEN 0 ELSE First(s).size + sum[s \ {First(s)}]]

\* Bytes is the fold.
LEMMA BytesFold ==
  ASSUME NEW S
  PROVE  Bytes(S) = (CHOOSE sum : SizeFold(sum, S))[S]
BY DEF Bytes, MapThenSumSet, MapThenFoldSet, SizeFold, First

\* The element taken first is one of them.
LEMMA FirstIn ==
  ASSUME NEW S, S # {}
  PROVE  First(S) \in S
BY DEF First

\* Two sums agree wherever both are defined.
LEMMA SumsAgree ==
  ASSUME NEW S, NEW T, IsFiniteSet(S), S \subseteq T,
         NEW g, SizeFold(g, S), NEW h, SizeFold(h, T)
  PROVE  g[S] = h[S]
<1> DEFINE Differ == {s \in SUBSET S : g[s] # h[s]}
<1> SUFFICES ASSUME Differ # {} PROVE FALSE
  OBVIOUS
<1>1. PICK s \in Differ : \A y \in Differ : y \subseteq s => y = s
  <2>1. Differ \subseteq SUBSET S
    OBVIOUS
  <2> HIDE DEF Differ
  <2>2. QED
    BY <2>1, SmallestSet
<1>2. \A u \in SUBSET S :
        /\ g[u] = IF u = {} THEN 0 ELSE First(u).size + g[u \ {First(u)}]
        /\ h[u] = IF u = {} THEN 0 ELSE First(u).size + h[u \ {First(u)}]
  BY Zenon DEF SizeFold
<1>3. s # {}
  BY <1>2
<1>4. s \ {First(s)} \in SUBSET S /\ s \ {First(s)} \notin Differ
  BY <1>1, <1>3, FirstIn
<1>5. QED
  BY <1>2, <1>3, <1>4

\* Files whose sizes add up.
Sized(S) == IsFiniteSet(S) /\ \A f \in S : f.size \in Nat

\* The sum of a finite list of files exists.
LEMMA SumExists ==
  ASSUME NEW S, Sized(S)
  PROVE  \E g : SizeFold(g, S)
<1> DEFINE pick == [s \in SUBSET S |-> First(s)]
           step == [fn \in S \X Nat |-> fn[1].size + fn[2]]
<1>1. \A s \in SUBSET S : s # {} => First(s) \in s /\ pick[s] = First(s)
  BY FirstIn
<1>2. \A f \in S, n \in Nat : /\ step[<<f, n>>] = f.size + n
                             /\ step[<<f, n>>] \in Nat
  BY DEF Sized
<1>3. Keeps(step, S, Nat)
  BY <1>2 DEF Keeps
<1>4. Picks(pick, S)
  BY <1>1 DEF Picks, Sized
<1> HIDE DEF pick, step
<1>5. PICK g : FoldRule(g, S, 0, pick, step)
  <2>1. \A T \in SUBSET S : \E g : FoldRule(g, T, 0, pick, step)
    BY <1>4, FoldExists, Zenon
  <2>2. QED
    BY <2>1
<1>6. \A s \in SUBSET S : g[s] \in Nat
  <2>1. 0 \in Nat
    OBVIOUS
  <2>2. QED
    BY <1>3, <1>4, <1>5, <2>1, FoldType
<1> DEFINE A(s) == IF s = {} THEN 0 ELSE step[<<pick[s], g[s \ {pick[s]}]>>]
           B(s) == IF s = {} THEN 0 ELSE First(s).size + g[s \ {First(s)}]
<1>7. \A s \in SUBSET S : A(s) = B(s)
  <2> SUFFICES ASSUME NEW s \in SUBSET S, s # {}
               PROVE  step[<<pick[s], g[s \ {pick[s]}]>>] =
                        First(s).size + g[s \ {First(s)}]
    OBVIOUS
  <2>1. pick[s] = First(s) /\ First(s) \in S /\ g[s \ {First(s)}] \in Nat
    BY <1>1, <1>6
  <2>2. QED
    BY <1>2, <2>1
<1>8. g = [s \in SUBSET S |-> A(s)]
  BY <1>5 DEF FoldRule
<1> HIDE DEF A, B
<1>9. g = [s \in SUBSET S |-> B(s)]
  BY <1>7, <1>8
<1>10. QED
  BY <1>9, Zenon DEF SizeFold, B

\* What Bytes is: nothing is 0 bytes, and the files are one and the others.
LEMMA BytesOfNone == Bytes({}) = 0
<1>1. SizeFold(CHOOSE g : SizeFold(g, {}), {})
  <2>1. Sized({})
    BY FS_EmptySet DEF Sized
  <2>2. QED
    BY <2>1, SumExists, Zenon
<1>2. (CHOOSE g : SizeFold(g, {}))[{}] = 0
  BY <1>1, Zenon DEF SizeFold
<1>3. QED
  BY <1>2, BytesFold

\* One file and the others, the file being the one taken first.
LEMMA BytesFromFirst ==
  ASSUME NEW S, Sized(S), S # {}
  PROVE  Bytes(S) = First(S).size + Bytes(S \ {First(S)})
<1> DEFINE rest == S \ {First(S)}
           g == CHOOSE sum : SizeFold(sum, S)
           h == CHOOSE sum : SizeFold(sum, rest)
<1>1. rest \subseteq S /\ IsFiniteSet(rest) /\ Sized(rest)
  BY FS_Subset DEF Sized
<1>2. SizeFold(g, S)
  BY SumExists, Zenon
<1>3. SizeFold(h, rest)
  <2> HIDE DEF rest
  <2>1. \E sum : SizeFold(sum, rest)
    BY <1>1, SumExists
  <2>2. QED
    BY <2>1, Zenon
<1>4. Bytes(S) = g[S] /\ Bytes(rest) = h[rest]
  BY BytesFold, Zenon
<1> HIDE DEF g, h
<1>5. h[rest] = g[rest]
  <2> HIDE DEF rest
  <2>1. QED
    BY <1>1, <1>2, <1>3, SumsAgree, Zenon
<1>6. g[S] = First(S).size + g[rest]
  BY <1>2, Zenon DEF SizeFold
<1>7. QED
  BY <1>4, <1>5, <1>6

\* Sizes add up to a number.
LEMMA BytesType ==
  ASSUME NEW S, Sized(S)
  PROVE  Bytes(S) \in Nat
<1> DEFINE Wrong == {s \in SUBSET S : Bytes(s) \notin Nat}
<1> SUFFICES ASSUME Wrong # {} PROVE FALSE
  OBVIOUS
<1>0. IsFiniteSet(S)
  BY DEF Sized
<1>1. PICK s \in Wrong : \A y \in Wrong : y \subseteq s => y = s
  <2>1. Wrong \subseteq SUBSET S
    OBVIOUS
  <2> HIDE DEF Wrong
  <2>2. QED
    BY <1>0, <2>1, SmallestSet
<1>2. s # {}
  BY <1>1, BytesOfNone
<1>3. First(s) \in s /\ First(s).size \in Nat
  BY <1>2, FirstIn DEF Sized
<1>4. Bytes(s) = First(s).size + Bytes(s \ {First(s)})
  BY <1>2, BytesFromFirst, FS_Subset DEF Sized
<1>5. Bytes(s \ {First(s)}) \in Nat
  BY <1>1, <1>3
<1>6. QED
  BY <1>1, <1>3, <1>4, <1>5

\* Whichever file is taken from the list, the others are smaller by its size.
LEMMA BytesWithout ==
  ASSUME NEW S, Sized(S), NEW x \in S
  PROVE  Bytes(S) = x.size + Bytes(S \ {x})
<1> DEFINE Wrong == {s \in SUBSET S :
                      \E y \in s : Bytes(s) # y.size + Bytes(s \ {y})}
<1> SUFFICES ASSUME Wrong # {} PROVE FALSE
  OBVIOUS
<1>0. IsFiniteSet(S)
  BY DEF Sized
<1>1. PICK s \in Wrong : \A y \in Wrong : y \subseteq s => y = s
  <2>1. Wrong \subseteq SUBSET S
    OBVIOUS
  <2> HIDE DEF Wrong
  <2>2. QED
    BY <1>0, <2>1, SmallestSet
<1>2. PICK y \in s : Bytes(s) # y.size + Bytes(s \ {y})
  BY <1>1
<1> DEFINE z == First(s)
<1>3. z \in s /\ IsFiniteSet(s) /\ Sized(s)
  BY <1>0, FirstIn, FS_Subset DEF Sized
<1>4. Bytes(s) = z.size + Bytes(s \ {z})
  BY <1>3, BytesFromFirst
<1> HIDE DEF z
<1>5. y # z
  BY <1>2, <1>4
<1>6. /\ s \ {y} \in SUBSET S /\ s \ {y} \notin Wrong
      /\ s \ {z} \in SUBSET S /\ s \ {z} \notin Wrong
  BY <1>1, <1>3
<1>7. /\ Bytes(s \ {y}) = z.size + Bytes((s \ {y}) \ {z})
      /\ Bytes(s \ {z}) = y.size + Bytes((s \ {z}) \ {y})
  BY <1>3, <1>5, <1>6
<1>8. (s \ {y}) \ {z} = (s \ {z}) \ {y}
  OBVIOUS
<1>9. Bytes((s \ {y}) \ {z}) \in Nat
  BY <1>3, BytesType, FS_Subset DEF Sized
<1>10. y.size \in Nat /\ z.size \in Nat
  BY <1>3 DEF Sized
<1> DEFINE m == Bytes((s \ {y}) \ {z})
<1>11. /\ Bytes(s) = z.size + (y.size + m)
       /\ y.size + Bytes(s \ {y}) = y.size + (z.size + m)
  BY <1>4, <1>7, <1>8
<1> HIDE DEF m
<1>12. m \in Nat
  BY <1>9 DEF m
<1>13. z.size + (y.size + m) = y.size + (z.size + m)
  BY <1>10, <1>12
<1>14. QED
  BY <1>2, <1>11, <1>13

\* More files are not fewer bytes.
LEMMA BytesMonotone ==
  ASSUME NEW T, Sized(T), NEW S, S \subseteq T
  PROVE  Bytes(S) <= Bytes(T)
<1> DEFINE Wrong == {s \in SUBSET T : S \subseteq s /\ ~(Bytes(S) <= Bytes(s))}
<1> SUFFICES ASSUME Wrong # {} PROVE FALSE
  OBVIOUS
<1>0. IsFiniteSet(T)
  BY DEF Sized
<1>1. PICK s \in Wrong : \A y \in Wrong : y \subseteq s => y = s
  <2>1. Wrong \subseteq SUBSET T
    OBVIOUS
  <2> HIDE DEF Wrong
  <2>2. QED
    BY <1>0, <2>1, SmallestSet
<1>2. Sized(s) /\ Sized(S)
  BY <1>0, FS_Subset DEF Sized
<1>3. Bytes(S) \in Nat /\ Bytes(s) \in Nat
  BY <1>2, BytesType
<1>4. PICK x \in s : x \notin S
  BY <1>1, <1>3
<1>5. s \ {x} \in SUBSET T /\ S \subseteq s \ {x} /\ s \ {x} \notin Wrong
  BY <1>1, <1>4
<1>6. Bytes(s) = x.size + Bytes(s \ {x})
  BY <1>2, BytesWithout
<1>7. Bytes(s \ {x}) \in Nat
  BY <1>2, BytesType, FS_Subset DEF Sized
<1>8. x.size \in Nat
  BY <1>2 DEF Sized
<1>9. QED
  BY <1>1, <1>3, <1>5, <1>6, <1>7, <1>8
-----------------------------------------------------------------------------
(***************************************************************************)
(* The spool directory: types.                                             *)
(***************************************************************************)
\* The smaller of two numbers.
LEMMA MinOfTwo ==
  ASSUME NEW i \in Int, NEW j \in Int
  PROVE  Min({i, j}) = IF i <= j THEN i ELSE j
<1>1. \E x \in {i, j} : \A y \in {i, j} : x <= y
  BY DEF Min
<1>2. Min({i, j}) \in {i, j} /\ \A y \in {i, j} : Min({i, j}) <= y
  BY <1>1 DEF Min
<1>3. QED
  BY <1>2

\* A list names files of the directory, with their times and sizes.
LEMMA ListOfTypes ==
  ASSUME NEW dir, DOMAIN dir \subseteq Name, dir \in [DOMAIN dir -> SpoolFile]
  PROVE  ListOf(dir) \subseteq Listed
BY DEF ListOf, Listed, SpoolFile

\* A directory without some of its files is a directory.
LEMMA WithoutTypes ==
  ASSUME NEW dir, DOMAIN dir \subseteq Name, dir \in [DOMAIN dir -> SpoolFile],
         NEW names
  PROVE  /\ DOMAIN Without(dir, names) \subseteq Name
         /\ Without(dir, names) \in [DOMAIN Without(dir, names) -> SpoolFile]
BY DEF Without

\* The compactor keeps its types, and nobody keeps the lock after the call
\* (every step of compact_tool_output, its faults and the clock).
THEOREM SpoolTypeCorrect == SpoolSpec => []SpoolTypeOK
<1>1. SpoolInit => SpoolTypeOK
  <2> SUFFICES ASSUME SpoolInit PROVE SpoolTypeOK
    OBVIOUS
  <2>1. name \in [Writer -> Name]
    BY DEF SpoolInit
  <2>2. spool = [n \in {} |-> {}] /\ DOMAIN spool = {}
    BY DEF SpoolInit
  <2>3. spool \in [DOMAIN spool -> SpoolFile]
    BY <2>2
  <2>4. QED
    BY <2>1, <2>2, <2>3 DEF SpoolInit, SpoolTypeOK, SpoolStage, LockStage
<1>2. SpoolTypeOK /\ [SpoolNext]_spoolVars => SpoolTypeOK'
  <2> SUFFICES ASSUME SpoolTypeOK, [SpoolNext]_spoolVars PROVE SpoolTypeOK'
    OBVIOUS
  <2> USE SpoolConstants DEF SpoolTypeOK, SpoolStage, LockStage, SpoolGoto
  <2>1. ASSUME NEW w \in Writer, NEW n \in Name, Compact(w, n)
        PROVE  SpoolTypeOK'
    BY <2>1 DEF Compact
  <2>2. ASSUME NEW w \in Writer, LockSpool(w) PROVE SpoolTypeOK'
    BY <2>2 DEF LockSpool
  <2>3. ASSUME NEW w \in Writer, LockFails(w) PROVE SpoolTypeOK'
    BY <2>3 DEF LockFails, SpoolFault
  <2>4. ASSUME NEW w \in Writer, ScanSpool(w) PROVE SpoolTypeOK'
    <3>1. PICK skipped \in SUBSET ListOf(spool), old \in SUBSET ListOf(spool) :
            /\ \/ skipped = {} /\ UNCHANGED <<spoolFaults, stuck>>
               \/ skipped # {} /\ SpoolFault /\ stuck' = TRUE
            /\ spool' = Without(spool, NamesIn(old))
            /\ listing' = [listing EXCEPT ![w] = (ListOf(spool) \ skipped) \ old]
      BY <2>4 DEF ScanSpool
    <3>2. /\ DOMAIN spool' \subseteq Name
          /\ spool' \in [DOMAIN spool' -> SpoolFile]
      BY <3>1, WithoutTypes
    <3>3. spoolFaults' \in Nat /\ stuck' \in BOOLEAN
      <4>1. spoolFaults' \in Nat
        BY <3>1 DEF SpoolFault
      <4>2. stuck' \in BOOLEAN
        BY <3>1, Zenon
      <4>3. QED
        BY <4>1, <4>2
    <3>4. listing' \in [Writer -> SUBSET Listed]
      BY <3>1, ListOfTypes
    <3>5. QED
      BY <2>4, <3>2, <3>3, <3>4 DEF ScanSpool
  <2>16. ASSUME NEW w \in Writer, ScanAborts(w) PROVE SpoolTypeOK'
    <3>1. \E names : spool' = Without(spool, names)
      BY <2>16, Zenon DEF ScanAborts
    <3>2. /\ DOMAIN spool' \subseteq Name
          /\ spool' \in [DOMAIN spool' -> SpoolFile]
      BY <3>1, WithoutTypes
    <3>3. QED
      BY <2>16, <3>2 DEF ScanAborts, SpoolFault
  <2>5. ASSUME NEW w \in Writer, EvictSpool(w) PROVE SpoolTypeOK'
    <3>1. PICK gone \in SUBSET listing[w], kept \in SUBSET listing[w] :
            /\ \/ kept = {} /\ UNCHANGED <<spoolFaults, stuck>>
               \/ kept # {} /\ SpoolFault /\ stuck' = TRUE
            /\ spool' = Without(spool, NamesIn(gone))
      BY <2>5 DEF EvictSpool
    <3>2. /\ DOMAIN spool' \subseteq Name
          /\ spool' \in [DOMAIN spool' -> SpoolFile]
      BY <3>1, WithoutTypes
    <3>3. spoolFaults' \in Nat /\ stuck' \in BOOLEAN
      <4>1. spoolFaults' \in Nat
        BY <3>1 DEF SpoolFault
      <4>2. stuck' \in BOOLEAN
        BY <3>1, Zenon
      <4>3. QED
        BY <4>1, <4>2
    <3>4. listing' \in [Writer -> SUBSET Listed]
      BY <2>5 DEF EvictSpool
    <3>5. QED
      BY <2>5, <3>2, <3>3, <3>4 DEF EvictSpool
  <2>6. ASSUME NEW w \in Writer, CreateSpool(w) PROVE SpoolTypeOK'
    <3>1. DOMAIN spool' = DOMAIN spool \cup {name[w]}
      BY <2>6 DEF CreateSpool
    <3>2. \A n \in DOMAIN spool' : spool'[n] \in SpoolFile
      BY <2>6 DEF CreateSpool, SpoolFile
    <3>3. spool' \in [DOMAIN spool' -> SpoolFile]
      BY <2>6, <3>1, <3>2 DEF CreateSpool
    <3>4. QED
      BY <2>6, <3>1, <3>3 DEF CreateSpool
  <2>7. ASSUME NEW w \in Writer, ReuseSpool(w) PROVE SpoolTypeOK'
    BY <2>7 DEF ReuseSpool
  <2>8. ASSUME NEW w \in Writer, CreateFails(w) PROVE SpoolTypeOK'
    BY <2>8 DEF CreateFails, SpoolFault
  <2>9. ASSUME NEW w \in Writer, WriteSpool(w) PROVE SpoolTypeOK'
    <3>1. FileSize(name[w]) \in Nat
      <4>1. Text[name[w]].size \in Nat /\ MaxFileBytes \in Nat
        BY DEF TextMeasures
      <4> DEFINE size == Text[name[w]].size
      <4>2. FileSize(name[w]) = Min({size, MaxFileBytes})
        BY DEF FileSize
      <4> HIDE DEF size
      <4>3. Min({size, MaxFileBytes}) = IF size <= MaxFileBytes THEN size ELSE MaxFileBytes
        BY <4>1, MinOfTwo DEF size
      <4>4. QED
        BY <4>1, <4>2, <4>3 DEF size
    <3>2. /\ DOMAIN spool' = DOMAIN spool
          /\ spool' \in [DOMAIN spool -> SpoolFile]
      BY <2>9, <3>1 DEF WriteSpool, SpoolFile
    <3>3. answer' \in [Writer -> Name \cup {NoName}]
      BY <2>9 DEF WriteSpool
    <3>4. QED
      BY <2>9, <3>2, <3>3 DEF WriteSpool
  <2>10. ASSUME NEW w \in Writer, WriteFails(w) PROVE SpoolTypeOK'
    BY <2>10 DEF WriteFails, SpoolFault
  <2>11. ASSUME NEW w \in Writer, UnlockSpool(w) PROVE SpoolTypeOK'
    <3>1. spoolLock' \in {NoName, spoolLock} /\ spoolLock' # w
      BY <2>11 DEF UnlockSpool, Released
    <3>2. QED
      BY <2>11, <3>1 DEF UnlockSpool
  <2>17. ASSUME NEW w \in Writer, ReturnSpool(w) PROVE SpoolTypeOK'
    BY <2>17 DEF ReturnSpool
  <2>12. ASSUME NEW w \in Writer, SpoolCrash(w) PROVE SpoolTypeOK'
    <3>1. spoolLock' \in {NoName, spoolLock} /\ spoolLock' # w
      BY <2>12 DEF SpoolCrash, Released
    <3>2. torn' \subseteq Name
      BY <2>12 DEF SpoolCrash
    <3>3. listing' \in [Writer -> SUBSET Listed]
      BY <2>12 DEF SpoolCrash
    <3>4. QED
      BY <2>12, <3>1, <3>2, <3>3 DEF SpoolCrash, SpoolFault
  <2>13. ASSUME SpoolTick PROVE SpoolTypeOK'
    BY <2>13 DEF SpoolTick
  <2>14. CASE UNCHANGED spoolVars
    BY <2>14 DEF spoolVars
  <2>15. QED
    BY <2>1, <2>2, <2>3, <2>4, <2>5, <2>6, <2>7, <2>8, <2>9, <2>10, <2>11,
       <2>12, <2>13, <2>14, <2>16, <2>17 DEF SpoolNext
<1>3. QED
  BY <1>1, <1>2, PTL DEF SpoolSpec
-----------------------------------------------------------------------------
(***************************************************************************)
(* The spool directory: the shortened text.                                *)
(***************************************************************************)
\* What is cut to MaxChars fits.
LEMMA SlicedFits ==
  ASSUME NEW cut, cut.head \in Nat, cut.banner \in Nat, cut.tail \in Nat
  PROVE  /\ Sliced(cut).head \in Nat /\ Sliced(cut).head <= cut.head
         /\ Sliced(cut).banner \in Nat /\ Sliced(cut).tail \in Nat
         /\ Sliced(cut).head + Sliced(cut).banner + Sliced(cut).tail <= MaxChars
         /\ cut.head + cut.banner + cut.tail <= MaxChars =>
              /\ Sliced(cut).head = cut.head
              /\ Sliced(cut).banner = cut.banner
              /\ Sliced(cut).tail = cut.tail
<1> DEFINE head == Min({cut.head, MaxChars})
           banner == Min({cut.banner, MaxChars - head})
           tail == Min({cut.tail, MaxChars - head - banner})
<1>1. MaxChars \in Nat
  BY SpoolConstants
<1>2. head = IF cut.head <= MaxChars THEN cut.head ELSE MaxChars
  BY <1>1, MinOfTwo
<1>3. head \in Nat
  BY <1>1, <1>2
<1> HIDE DEF head
<1>4. banner = IF cut.banner <= MaxChars - head THEN cut.banner
                                                ELSE MaxChars - head
  BY <1>1, <1>3, MinOfTwo
<1>5. banner \in Nat /\ head + banner <= MaxChars
  BY <1>1, <1>2, <1>3, <1>4
<1> HIDE DEF banner
<1>6. tail = IF cut.tail <= MaxChars - head - banner
               THEN cut.tail ELSE MaxChars - head - banner
  BY <1>1, <1>3, <1>5, MinOfTwo
<1> HIDE DEF tail
<1>7. /\ Sliced(cut).head = head /\ Sliced(cut).banner = banner
      /\ Sliced(cut).tail = tail
  BY DEF Sliced, head, banner, tail
<1>8. QED
  <2> DEFINE cutHead == cut.head
             cutBanner == cut.banner
             cutTail == cut.tail
  <2>1. cutHead \in Nat /\ cutBanner \in Nat /\ cutTail \in Nat
    OBVIOUS
  <2>2. /\ head <= cutHead /\ tail \in Nat
        /\ head + banner + tail <= MaxChars
        /\ cutHead + cutBanner + cutTail <= MaxChars =>
             head = cutHead /\ banner = cutBanner /\ tail = cutTail
    <3> HIDE DEF cutHead, cutBanner, cutTail
    <3>1. head <= cutHead
      BY <1>1, <1>2, <2>1 DEF cutHead
    <3>2. tail \in Nat /\ head + banner + tail <= MaxChars
      BY <1>1, <1>3, <1>5, <1>6, <2>1 DEF cutTail
    <3>3. cutHead + cutBanner + cutTail <= MaxChars =>
             head = cutHead /\ banner = cutBanner /\ tail = cutTail
      <4> SUFFICES ASSUME cutHead + cutBanner + cutTail <= MaxChars
                   PROVE  head = cutHead /\ banner = cutBanner /\ tail = cutTail
        OBVIOUS
      <4>1. head = cutHead
        BY <1>1, <1>2, <2>1 DEF cutHead
      <4>2. banner = cutBanner
        BY <1>1, <1>4, <2>1, <4>1 DEF cutBanner
      <4>3. tail = cutTail
        BY <1>1, <1>6, <2>1, <4>1, <4>2 DEF cutTail
      <4>4. QED
        BY <4>1, <4>2, <4>3
    <3>4. QED
      BY <3>1, <3>2, <3>3
  <2>3. QED
    BY <1>3, <1>5, <1>7, <2>2, Zenon

\* The beginning gets at most half of the room.
LEMMA HeadRoomHalf ==
  ASSUME NEW measures \in TextMeasures, NEW banner \in Nat, banner < MaxChars
  PROVE  /\ Room(banner) \in Nat \ {0}
         /\ HeadRoom(measures, banner) \in Nat
         /\ HeadRoom(measures, banner) + HeadRoom(measures, banner)
              <= Room(banner)
<1>1. Room(banner) \in Nat \ {0}
  BY SpoolConstants DEF Room
<1> DEFINE room == Room(banner)
<1> HIDE DEF room
<1>2. room \in Nat
  BY <1>1 DEF room
<1>3. room \div 3 \in Nat /\ 3 * (room \div 3) <= room
  BY <1>2
<1>4. (room * 35) \div 100 \in Nat /\ 100 * ((room * 35) \div 100) <= room * 35
  BY <1>2
<1>5. HeadRoom(measures, banner) \in {room \div 3, (room * 35) \div 100}
  BY DEF HeadRoom, room
<1>6. QED
  BY <1>1, <1>2, <1>3, <1>4, <1>5 DEF room

\* The shortened text fits, and keeps the banner and the end of the output.
LEMMA CompactedFaithful ==
  ASSUME NEW measures \in TextMeasures, NEW banner \in Nat
  PROVE  LET out == Compacted(measures, banner)
         IN  /\ out.head + out.banner + out.tail <= MaxChars
             /\ banner < MaxChars =>
                  /\ out.banner = banner
                  /\ out.tail >= 1
                  /\ out.tail = measures.tail \/ out.tail >= out.head
<1> DEFINE whole == [head |-> measures.head, banner |-> banner,
                     tail |-> measures.tail]
           share == HeadRoom(measures, banner)
           fitted == [head |-> Min({measures.head, share}), banner |-> banner,
                      tail |-> Min({measures.tail, Room(banner) - share})]
           out == Compacted(measures, banner)
<1>1. measures.head \in Nat /\ measures.tail \in Nat \ {0} /\ MaxChars \in Nat
  BY SpoolConstants DEF TextMeasures
<1>2. CASE \/ measures.head + banner + measures.tail <= MaxChars
           \/ banner >= MaxChars
  <2>1. out = Sliced(whole)
    BY <1>2 DEF Compacted
  <2>2. /\ whole.head = measures.head /\ whole.banner = banner
        /\ whole.tail = measures.tail
    OBVIOUS
  <2> HIDE DEF whole, out
  <2>3. QED
    BY <1>1, <1>2, <2>1, <2>2, SlicedFits DEF out
<1>3. CASE /\ ~(measures.head + banner + measures.tail <= MaxChars)
           /\ ~(banner >= MaxChars)
  <2>1. out = Sliced(fitted)
    BY <1>3 DEF Compacted
  <2>2. banner < MaxChars
    BY <1>1, <1>3
  <2>3. /\ Room(banner) \in Nat \ {0} /\ share \in Nat
        /\ share + share <= Room(banner) /\ Room(banner) = MaxChars - banner
    BY <2>2, HeadRoomHalf DEF Room
  <2> HIDE DEF share
  <2>4. /\ fitted.head = IF measures.head <= share THEN measures.head ELSE share
        /\ fitted.banner = banner
        /\ fitted.tail = IF measures.tail <= Room(banner) - share
                           THEN measures.tail ELSE Room(banner) - share
    BY <1>1, <2>3, MinOfTwo
  <2> HIDE DEF fitted, out
  <2>5. /\ fitted.head \in Nat /\ fitted.tail \in Nat \ {0}
        /\ fitted.head + fitted.banner + fitted.tail <= MaxChars
        /\ fitted.tail = measures.tail \/ fitted.tail >= fitted.head
    BY <1>1, <2>3, <2>4
  <2>6. /\ Sliced(fitted).head = fitted.head
        /\ Sliced(fitted).banner = fitted.banner
        /\ Sliced(fitted).tail = fitted.tail
    BY <2>4, <2>5, SlicedFits
  <2>7. QED
    BY <2>1, <2>4, <2>5, <2>6 DEF out
<1>4. QED
  BY <1>2, <1>3
-----------------------------------------------------------------------------
(***************************************************************************)
(* The spool directory: who holds the lock, whose file is whose, and what  *)
(* the references lead to.                                                 *)
(***************************************************************************)
\* Only the holder of the lock is between the scan and the end of its call.
OneHolds == \A w \in Writer : spoolAt[w] \in LockStage => spoolLock = w

\* A file that is not complete is being written, or its writer failed.
HalvesKnown ==
  \A n \in DOMAIN spool :
    \/ spool[n].written
    \/ n \in torn
    \/ \E w \in Writer : spoolAt[w] = "write" /\ name[w] = n

\* What is being written is in the directory.
BeingWritten == \A w \in Writer : spoolAt[w] = "write" => StillThere(w)

\* A reference is held only until the call returns, and what it leads to is
\* complete as long as the call has the lock, unless an earlier writer of it
\* failed.
Referred ==
  \A w \in Writer : answer[w] # NoName =>
    /\ spoolAt[w] \in {"unlock", "return"}
    /\ spoolAt[w] = "unlock" => answer[w] \in torn \/ Written(answer[w])

Orderly == OneHolds /\ HalvesKnown /\ BeingWritten /\ Referred

\* With a step of the call under way nobody else is past the lock.
LEMMA Alone ==
  ASSUME SpoolTypeOK, OneHolds, NEW w \in Writer, spoolAt[w] \in LockStage,
         NEW v \in Writer, spoolAt[v] \in LockStage
  PROVE  v = w
BY DEF OneHolds

\* No step disturbs the order, as long as every call gets the lock.
LEMMA OrderlyStays ==
  ASSUME SpoolTypeOK, Orderly, [SpoolNext]_spoolVars, ~unlocked'
  PROVE  Orderly'
<1> USE SpoolConstants DEF Orderly, SpoolTypeOK, LockStage, SpoolGoto
<1>1. ASSUME NEW w \in Writer, NEW n \in Name, Compact(w, n)
      PROVE  Orderly'
  <2>1. /\ spoolAt' = [spoolAt EXCEPT ![w] = "lock"] /\ spoolAt[w] = "idle"
        /\ name' = [name EXCEPT ![w] = n]
        /\ UNCHANGED <<spool, spoolLock, answer, torn>>
    BY <1>1 DEF Compact
  <2>2. OneHolds'
    BY <2>1 DEF OneHolds
  <2>3. HalvesKnown'
    BY <2>1 DEF HalvesKnown
  <2>4. BeingWritten'
    BY <2>1 DEF BeingWritten, StillThere
  <2>5. Referred'
    BY <2>1 DEF Referred, Written
  <2>6. QED
    BY <2>2, <2>3, <2>4, <2>5
<1>2. ASSUME NEW w \in Writer, LockSpool(w) PROVE Orderly'
  <2>1. /\ spoolAt' = [spoolAt EXCEPT ![w] = "scan"] /\ spoolAt[w] = "lock"
        /\ spoolLock = NoName /\ spoolLock' = w
        /\ UNCHANGED <<spool, name, answer, torn>>
    BY <1>2 DEF LockSpool
  <2>2. \A v \in Writer : spoolAt[v] \notin LockStage
    BY <2>1 DEF OneHolds
  <2>3. OneHolds'
    BY <2>1, <2>2 DEF OneHolds
  <2>4. HalvesKnown'
    BY <2>1 DEF HalvesKnown
  <2>5. BeingWritten'
    BY <2>1 DEF BeingWritten, StillThere
  <2>6. Referred'
    BY <2>1 DEF Referred, Written
  <2>7. QED
    BY <2>3, <2>4, <2>5, <2>6
<1>3. ASSUME NEW w \in Writer, LockFails(w) PROVE Orderly'
  BY <1>3 DEF LockFails
<1>4. ASSUME NEW w \in Writer, spoolAt[w] \in {"scan", "evict"},
             SpoolGoto(w, "evict") \/ SpoolGoto(w, "create"),
             \E names : spool' = Without(spool, names),
             UNCHANGED <<spoolLock, name, answer, torn>>
      PROVE  Orderly'
  <2>1. \A v \in Writer : spoolAt[v] \in LockStage => v = w
    BY <1>4, Alone
  <2>2. /\ \A v \in Writer \ {w} : spoolAt'[v] = spoolAt[v]
        /\ \A v \in Writer : spoolAt'[v] \notin {"write", "unlock"}
        /\ answer' = answer /\ answer[w] = NoName
    BY <1>4, <2>1 DEF Referred
  <2>3. /\ DOMAIN spool' \subseteq DOMAIN spool
        /\ \A n \in DOMAIN spool' : spool'[n] = spool[n]
    BY <1>4 DEF Without
  <2>4. OneHolds'
    BY <1>4, <2>2 DEF OneHolds
  <2>5. HalvesKnown'
    BY <1>4, <2>1, <2>3 DEF HalvesKnown
  <2>6. BeingWritten' /\ Referred'
    BY <1>4, <2>2 DEF BeingWritten, Referred
  <2>7. QED
    BY <2>4, <2>5, <2>6
<1>5. ASSUME NEW w \in Writer, ScanSpool(w) PROVE Orderly'
  <2>1. /\ spoolAt[w] = "scan" /\ SpoolGoto(w, "evict")
        /\ UNCHANGED <<spoolLock, name, answer, torn>>
    BY <1>5 DEF ScanSpool
  <2>2. \E names : spool' = Without(spool, names)
    BY <1>5, Zenon DEF ScanSpool
  <2>3. QED
    BY <1>4, <2>1, <2>2
<1>16. ASSUME NEW w \in Writer, ScanAborts(w) PROVE Orderly'
  <2>1. /\ spoolAt[w] = "scan" /\ SpoolGoto(w, "create")
        /\ UNCHANGED <<spoolLock, name, answer, torn>>
    BY <1>16 DEF ScanAborts
  <2>2. \E names : spool' = Without(spool, names)
    BY <1>16, Zenon DEF ScanAborts
  <2>3. QED
    BY <1>4, <2>1, <2>2
<1>6. ASSUME NEW w \in Writer, EvictSpool(w) PROVE Orderly'
  <2>1. /\ spoolAt[w] = "evict" /\ SpoolGoto(w, "create")
        /\ UNCHANGED <<spoolLock, name, answer, torn>>
    BY <1>6 DEF EvictSpool
  <2>2. \E names : spool' = Without(spool, names)
    BY <1>6, Zenon DEF EvictSpool
  <2>3. QED
    BY <1>4, <2>1, <2>2
<1>7. ASSUME NEW w \in Writer, CreateSpool(w) PROVE Orderly'
  <2>1. /\ spoolAt' = [spoolAt EXCEPT ![w] = "write"] /\ spoolAt[w] = "create"
        /\ DOMAIN spool' = DOMAIN spool \cup {name[w]}
        /\ spool'[name[w]].by = w
        /\ \A n \in DOMAIN spool \ {name[w]} : spool'[n] = spool[n]
        /\ UNCHANGED <<spoolLock, name, answer, torn>>
    BY <1>7 DEF CreateSpool
  <2>2. \A v \in Writer : spoolAt[v] \in LockStage => v = w
    BY <2>1, Alone
  <2>3. OneHolds'
    BY <2>1 DEF OneHolds
  <2>4. HalvesKnown'
    BY <2>1 DEF HalvesKnown
  <2>5. BeingWritten'
    BY <2>1, <2>2 DEF BeingWritten, StillThere
  <2>6. Referred'
    BY <2>1, <2>2 DEF Referred
  <2>7. QED
    BY <2>3, <2>4, <2>5, <2>6
<1>8. ASSUME NEW w \in Writer, ReuseSpool(w) PROVE Orderly'
  <2>1. /\ spoolAt' = [spoolAt EXCEPT ![w] = "unlock"] /\ spoolAt[w] = "create"
        /\ name[w] \in DOMAIN spool
        /\ answer' = [answer EXCEPT ![w] = name[w]]
        /\ UNCHANGED <<spool, spoolLock, name, torn>>
    BY <1>8 DEF ReuseSpool
  <2>2. \A v \in Writer : spoolAt[v] \in LockStage => v = w
    BY <2>1, Alone
  <2>3. name[w] \in torn \/ Written(name[w])
    BY <2>1, <2>2 DEF HalvesKnown, Written
  <2>4. OneHolds'
    BY <2>1 DEF OneHolds
  <2>5. HalvesKnown'
    BY <2>1 DEF HalvesKnown
  <2>6. BeingWritten'
    BY <2>1, <2>2 DEF BeingWritten
  <2>7. Referred'
    BY <2>1, <2>2, <2>3 DEF Referred, Written
  <2>8. QED
    BY <2>4, <2>5, <2>6, <2>7
<1>9. ASSUME NEW w \in Writer, CreateFails(w) PROVE Orderly'
  <2>1. /\ spoolAt' = [spoolAt EXCEPT ![w] = "unlock"] /\ spoolAt[w] = "create"
        /\ UNCHANGED <<spool, spoolLock, name, answer, torn>>
    BY <1>9 DEF CreateFails
  <2>2. OneHolds'
    BY <2>1 DEF OneHolds
  <2>3. HalvesKnown'
    BY <2>1 DEF HalvesKnown
  <2>4. BeingWritten'
    BY <2>1 DEF BeingWritten, StillThere
  <2>5. Referred'
    BY <2>1 DEF Referred, Written
  <2>6. QED
    BY <2>2, <2>3, <2>4, <2>5
<1>10. ASSUME NEW w \in Writer, WriteSpool(w) PROVE Orderly'
  <2>1. /\ spoolAt' = [spoolAt EXCEPT ![w] = "unlock"] /\ spoolAt[w] = "write"
        /\ answer' = [answer EXCEPT ![w] = name[w]]
        /\ UNCHANGED <<spoolLock, name, torn>>
    BY <1>10 DEF WriteSpool
  <2>2. \A v \in Writer : spoolAt[v] \in LockStage => v = w
    BY <2>1, Alone
  <2>3. StillThere(w)
    BY <2>1 DEF BeingWritten
  <2>4. /\ DOMAIN spool' = DOMAIN spool /\ name[w] \in DOMAIN spool
        /\ spool'[name[w]].written
        /\ \A n \in DOMAIN spool \ {name[w]} : spool'[n] = spool[n]
    BY <1>10, <2>3 DEF WriteSpool, StillThere
  <2>5. OneHolds'
    BY <2>1 DEF OneHolds
  <2>6. HalvesKnown'
    BY <2>1, <2>2, <2>4 DEF HalvesKnown
  <2>7. BeingWritten'
    BY <2>1, <2>2 DEF BeingWritten
  <2>8. Referred'
    BY <2>1, <2>2, <2>4 DEF Referred, Written
  <2>9. QED
    BY <2>5, <2>6, <2>7, <2>8
<1>11. ASSUME NEW w \in Writer, WriteFails(w) PROVE Orderly'
  <2>1. /\ spoolAt' = [spoolAt EXCEPT ![w] = "unlock"] /\ spoolAt[w] = "write"
        /\ torn' = torn \cup {name[w]}
        /\ UNCHANGED <<spool, spoolLock, name, answer>>
    BY <1>11 DEF WriteFails
  <2>2. OneHolds'
    BY <2>1 DEF OneHolds
  <2>3. HalvesKnown'
    BY <2>1 DEF HalvesKnown
  <2>4. BeingWritten'
    BY <2>1 DEF BeingWritten, StillThere
  <2>5. Referred'
    BY <2>1 DEF Referred, Written
  <2>6. QED
    BY <2>2, <2>3, <2>4, <2>5
<1>17. ASSUME NEW w \in Writer, ReturnSpool(w) PROVE Orderly'
  <2>1. /\ spoolAt' = [spoolAt EXCEPT ![w] = "idle"] /\ spoolAt[w] = "return"
        /\ answer' = [answer EXCEPT ![w] = NoName]
        /\ UNCHANGED <<spool, spoolLock, name, torn>>
    BY <1>17 DEF ReturnSpool
  <2>2. OneHolds' /\ HalvesKnown'
    BY <2>1 DEF OneHolds, HalvesKnown
  <2>3. BeingWritten' /\ Referred'
    BY <2>1 DEF BeingWritten, StillThere, Referred, Written
  <2>4. QED
    BY <2>2, <2>3
<1>12. ASSUME NEW w \in Writer, UnlockSpool(w) PROVE Orderly'
  <2>1. /\ spoolAt' = [spoolAt EXCEPT ![w] = "return"] /\ spoolAt[w] = "unlock"
        /\ UNCHANGED <<spool, name, answer, torn>>
    BY <1>12 DEF UnlockSpool
  <2>2. \A v \in Writer : spoolAt[v] \in LockStage => v = w
    BY <2>1, Alone
  <2>3. OneHolds'
    BY <2>1, <2>2 DEF OneHolds
  <2>4. HalvesKnown'
    BY <2>1 DEF HalvesKnown
  <2>5. BeingWritten'
    BY <2>1 DEF BeingWritten, StillThere
  <2>6. Referred'
    BY <2>1 DEF Referred, Written
  <2>7. QED
    BY <2>3, <2>4, <2>5, <2>6
<1>13. ASSUME NEW w \in Writer, SpoolCrash(w) PROVE Orderly'
  <2>1. /\ spoolAt' = [spoolAt EXCEPT ![w] = "idle"]
        /\ spoolLock' = Released(w)
        /\ answer' = [answer EXCEPT ![w] = NoName]
        /\ torn' = IF spoolAt[w] = "write" THEN torn \cup {name[w]} ELSE torn
        /\ UNCHANGED <<spool, name>>
    BY <1>13 DEF SpoolCrash
  <2>2. OneHolds'
    BY <2>1 DEF OneHolds, Released
  <2>3. HalvesKnown'
    BY <2>1 DEF HalvesKnown
  <2>4. BeingWritten'
    BY <2>1 DEF BeingWritten, StillThere
  <2>5. Referred'
    BY <2>1 DEF Referred, Written
  <2>6. QED
    BY <2>2, <2>3, <2>4, <2>5
<1>14. CASE SpoolTick \/ UNCHANGED spoolVars
  <2>1. UNCHANGED <<spool, spoolLock, spoolAt, name, answer, torn>>
    BY <1>14 DEF SpoolTick, spoolVars
  <2>2. QED
    BY <2>1 DEF OneHolds, HalvesKnown, BeingWritten, StillThere, Referred,
                Written
<1>15. QED
  BY <1>1, <1>2, <1>3, <1>5, <1>6, <1>7, <1>8, <1>9, <1>10, <1>11, <1>12,
     <1>13, <1>14, <1>16, <1>17 DEF SpoolNext

\* The order holds as long as every call got the lock.
OrderInv == SpoolTypeOK /\ (~unlocked => Orderly)

\* The lock orders what the calls do to the directory (_safe_spool_write).
THEOREM OrderStays == SpoolSpec => []OrderInv
<1>1. SpoolInit => (~unlocked => Orderly)
  BY DEF SpoolInit, Orderly, OneHolds, HalvesKnown, BeingWritten, Referred,
         LockStage
<1>2. OrderInv /\ SpoolTypeOK' /\ [SpoolNext]_spoolVars
        => (~unlocked => Orderly)'
  <2>1. [SpoolNext]_spoolVars => (unlocked => unlocked')
    BY DEF SpoolNext, spoolVars, Compact, LockSpool, LockFails, ScanSpool, ScanAborts,
           EvictSpool, CreateSpool, ReuseSpool, CreateFails, WriteSpool,
           WriteFails, UnlockSpool, ReturnSpool, SpoolCrash, SpoolTick
  <2>2. QED
    BY <2>1, OrderlyStays DEF OrderInv
<1>3. QED
  BY <1>1, <1>2, SpoolTypeCorrect, PTL DEF SpoolSpec, OrderInv

\* What a call answers is faithful to the output: it fits, keeps the banner and
\* the end, and, until the lock is given up and unless a writer of that name
\* failed halfway, refers to a file with all that is written of the output
\* (compact_tool_output and _safe_spool_write).
THEOREM AnswersFaithful == SpoolSpec => []AnswerIsFaithful
<1>1. OrderInv => AnswerIsFaithful
  <2> SUFFICES ASSUME OrderInv, NEW w \in Writer
               PROVE  LET banner == Banner(answer[w])
                          out == Compacted(Text[name[w]], banner)
                      IN  /\ out.head + out.banner + out.tail <= MaxChars
                          /\ banner < MaxChars =>
                               /\ out.banner = banner
                               /\ out.tail >= 1
                               /\ out.tail = Text[name[w]].tail
                                    \/ out.tail >= out.head
                          /\ spoolAt[w] = "unlock" /\ ~unlocked
                               /\ answer[w] \notin torn \cup {NoName} =>
                               Written(answer[w])
    BY DEF AnswerIsFaithful
  <2>1. Text[name[w]] \in TextMeasures
    BY SpoolConstants DEF OrderInv, SpoolTypeOK
  <2>2. Banner(answer[w]) \in Nat
    BY SpoolConstants DEF Banner
  <2>3. spoolAt[w] = "unlock" /\ ~unlocked
          /\ answer[w] \notin torn \cup {NoName} => Written(answer[w])
    BY DEF OrderInv, Orderly, Referred
  <2>4. QED
    BY <2>1, <2>2, <2>3, CompactedFaithful
<1>2. QED
  BY <1>1, OrderStays, PTL
-----------------------------------------------------------------------------
(***************************************************************************)
(* The spool directory: its quota.                                         *)
(***************************************************************************)
\* A list has as many entries as the directory has files.
LEMMA ListOfSize ==
  ASSUME NEW dir, IsFiniteSet(DOMAIN dir)
  PROVE  /\ IsFiniteSet(ListOf(dir))
         /\ Cardinality(ListOf(dir)) = Cardinality(DOMAIN dir)
<1> DEFINE entry == [n \in DOMAIN dir |->
                       [name |-> n, size |-> dir[n].size,
                        mtime |-> dir[n].mtime]]
<1>1. entry \in Bijection(DOMAIN dir, ListOf(dir))
  <2>1. entry \in [DOMAIN dir -> ListOf(dir)]
    BY DEF ListOf
  <2>2. \A m, n \in DOMAIN dir : entry[m] = entry[n] => m = n
    OBVIOUS
  <2>3. \A f \in ListOf(dir) : \E n \in DOMAIN dir : entry[n] = f
    BY DEF ListOf
  <2> HIDE DEF entry
  <2>4. QED
    BY <2>1, <2>2, <2>3 DEF Bijection, Injection, Surjection, IsInjective
<1> HIDE DEF entry
<1>2. ExistsBijection(DOMAIN dir, ListOf(dir))
  BY <1>1 DEF ExistsBijection
<1>3. QED
  BY <1>2, FS_Bijection

\* The list of a finite directory has sizes that add up.
LEMMA ListOfSized ==
  ASSUME SpoolTypeOK, IsFiniteSet(DOMAIN spool)
  PROVE  Sized(ListOf(spool))
<1>1. ListOf(spool) \subseteq Listed
  BY ListOfTypes DEF SpoolTypeOK
<1>2. QED
  BY <1>1, ListOfSize DEF Sized, Listed

\* What exceeds the quota exceeds it with more files.
LEMMA QuotaMonotone ==
  ASSUME NEW T, Sized(T), NEW S, S \subseteq T, OverQuota(S)
  PROVE  OverQuota(T)
<1>1. Cardinality(S) <= Cardinality(T)
  BY FS_Subset DEF Sized
<1>2. Bytes(S) <= Bytes(T)
  BY BytesMonotone
<1>3. Sized(S)
  BY FS_Subset DEF Sized
<1>4. /\ Cardinality(S) \in Nat /\ Cardinality(T) \in Nat
      /\ Bytes(S) \in Nat /\ Bytes(T) \in Nat
  BY <1>3, BytesType, FS_CardinalityType DEF Sized
<1>5. MaxFiles \in Nat /\ MaxBytes \in Nat
  BY SpoolConstants
<1>6. QED
  BY <1>1, <1>2, <1>4, <1>5 DEF OverQuota

\* An empty directory is within the quota.
LEMMA EmptyFits == ~OverQuota({})
BY BytesOfNone, FS_EmptySet, SpoolConstants DEF OverQuota

\* The list after deletions.
LEMMA ListOfWithout ==
  ASSUME NEW dir, NEW gone, gone \subseteq ListOf(dir)
  PROVE  ListOf(Without(dir, NamesIn(gone))) = ListOf(dir) \ gone
<1> DEFINE Entry(n) == [name |-> n, size |-> dir[n].size,
                        mtime |-> dir[n].mtime]
<1>1. \A n \in DOMAIN dir : n \in NamesIn(gone) <=> Entry(n) \in gone
  BY DEF NamesIn, ListOf
<1>2. /\ DOMAIN Without(dir, NamesIn(gone)) = DOMAIN dir \ NamesIn(gone)
      /\ \A n \in DOMAIN dir \ NamesIn(gone) :
           Without(dir, NamesIn(gone))[n] = dir[n]
  BY DEF Without
<1>3. ListOf(Without(dir, NamesIn(gone))) =
        {Entry(n) : n \in DOMAIN dir \ NamesIn(gone)}
  BY <1>2 DEF ListOf
<1>4. ListOf(dir) = {Entry(n) : n \in DOMAIN dir}
  BY DEF ListOf
<1> HIDE DEF Entry
<1>5. QED
  BY <1>1, <1>3, <1>4

\* The sweep leaves what is within the quota, if it could delete all it passed.
LEMMA SweptFits ==
  ASSUME NEW list, NEW gone \in SUBSET list, Sweep(list, gone, {})
  PROVE  ~OverQuota(list \ gone)
<1>1. OverQuota(list \ gone) => gone = list
  BY DEF Sweep
<1>2. gone = list => list \ gone = {}
  OBVIOUS
<1>3. QED
  BY <1>1, <1>2, EmptyFits
-----------------------------------------------------------------------------
\* Under the lock, and with no file skipped, the list a sweep works on is what
\* the directory holds.
ListingTrue == \A w \in Writer : spoolAt[w] = "evict" => listing[w] = ListOf(spool)

\* Where a file is about to be created there is room, and while it is written
\* the others are within the quota.
RoomMade == \A w \in Writer : spoolAt[w] = "create" => ~OverQuota(ListOf(spool))

OthersFit ==
  \A w \in Writer : spoolAt[w] = "write" =>
    \E f \in ListOf(spool) :
      f.name = name[w] /\ Bytes(ListOf(spool) \ {f}) <= MaxBytes

WithinOneMore ==
  /\ Cardinality(DOMAIN spool) <= MaxFiles + 1
  /\ \/ Bytes(ListOf(spool)) <= MaxBytes
     \/ \E last \in ListOf(spool) : Bytes(ListOf(spool) \ {last}) <= MaxBytes

Roomy == RoomMade /\ OthersFit /\ WithinOneMore

\* The directory stays finite.
LEMMA SpoolFinite ==
  ASSUME IsFiniteSet(DOMAIN spool), [SpoolNext]_spoolVars, SpoolTypeOK
  PROVE  IsFiniteSet(DOMAIN spool)'
<1>1. ASSUME NEW w \in Writer, CreateSpool(w)
      PROVE  IsFiniteSet(DOMAIN spool)'
  <2>1. DOMAIN spool' = DOMAIN spool \cup {name[w]}
    BY <1>1 DEF CreateSpool
  <2>2. QED
    BY <2>1, FS_AddElement
<1>2. ASSUME NEW w \in Writer, ScanSpool(w) \/ ScanAborts(w) \/ EvictSpool(w)
      PROVE  IsFiniteSet(DOMAIN spool)'
  <2>1. \E names : spool' = Without(spool, names)
    <3>1. CASE ScanSpool(w)
      BY <3>1, Zenon DEF ScanSpool
    <3>2. CASE EvictSpool(w)
      BY <3>2, Zenon DEF EvictSpool
    <3>3. CASE ScanAborts(w)
      BY <3>3, Zenon DEF ScanAborts
    <3>4. QED
      BY <1>2, <3>1, <3>2, <3>3
  <2>2. DOMAIN spool' \subseteq DOMAIN spool
    BY <2>1 DEF Without
  <2>3. QED
    BY <2>2, FS_Subset
<1>3. ASSUME NEW w \in Writer, WriteSpool(w)
      PROVE  IsFiniteSet(DOMAIN spool)'
  <2>1. DOMAIN spool' = DOMAIN spool
    BY <1>3 DEF WriteSpool
  <2>2. QED
    BY <2>1
<1>4. CASE UNCHANGED spool
  BY <1>4
<1>5. QED
  BY <1>1, <1>2, <1>3, <1>4
     DEF SpoolNext, spoolVars, Compact, LockSpool, LockFails, ReuseSpool,
         CreateFails, WriteFails, UnlockSpool, ReturnSpool, SpoolCrash, SpoolTick

\* A scan in which nothing fails.
LEMMA CleanScan ==
  ASSUME NEW w \in Writer, ScanSpool(w), ~stuck'
  PROVE  LET old == {f \in ListOf(spool) : Expired(f)}
         IN  /\ spoolAt[w] = "scan" /\ SpoolGoto(w, "evict")
             /\ spool' = Without(spool, NamesIn(old))
             /\ listing' = [listing EXCEPT ![w] = ListOf(spool) \ old]
<1>1. PICK skipped \in SUBSET ListOf(spool) :
        LET old == {f \in ListOf(spool) \ skipped : Expired(f)}
        IN  /\ spoolAt[w] = "scan"
            /\ \/ skipped = {} /\ UNCHANGED <<spoolFaults, stuck>>
               \/ skipped # {} /\ SpoolFault /\ stuck' = TRUE
            /\ spool' = Without(spool, NamesIn(old))
            /\ listing' = [listing EXCEPT ![w] = (ListOf(spool) \ skipped) \ old]
            /\ SpoolGoto(w, "evict")
  BY Zenon DEF ScanSpool
<1>2. skipped = {}
  BY <1>1
<1>3. /\ {f \in ListOf(spool) \ skipped : Expired(f)} = {f \in ListOf(spool) : Expired(f)}
      /\ ListOf(spool) \ skipped = ListOf(spool)
  BY <1>2
<1>4. QED
  BY <1>1, <1>3

\* Under the lock nobody else changes what was listed.
LEMMA ListingStaysTrue ==
  ASSUME SpoolTypeOK, OneHolds, ListingTrue, [SpoolNext]_spoolVars, ~unlocked',
         ~stuck'
  PROVE  ListingTrue'
<1> USE SpoolConstants DEF SpoolTypeOK, LockStage, SpoolGoto, ListingTrue
<1>1. ASSUME NEW w \in Writer, NEW n \in Name, Compact(w, n)
      PROVE  ListingTrue'
  BY <1>1 DEF Compact, ListOf
<1>2. ASSUME NEW w \in Writer,
             \/ LockSpool(w) \/ ReuseSpool(w) \/ CreateFails(w)
             \/ WriteFails(w) \/ UnlockSpool(w) \/ ReturnSpool(w)
             \/ SpoolCrash(w)
      PROVE  ListingTrue'
  BY <1>2 DEF LockSpool, ReuseSpool, CreateFails, WriteFails, UnlockSpool,
              ReturnSpool, SpoolCrash, ListOf
<1>3. ASSUME NEW w \in Writer, LockFails(w) PROVE ListingTrue'
  BY <1>3 DEF LockFails
<1>8. ASSUME NEW w \in Writer, ScanAborts(w) PROVE ListingTrue'
  BY <1>8 DEF ScanAborts
<1>4. ASSUME NEW w \in Writer, ScanSpool(w) PROVE ListingTrue'
  <2> DEFINE old == {f \in ListOf(spool) : Expired(f)}
  <2>1. /\ spoolAt' = [spoolAt EXCEPT ![w] = "evict"] /\ spoolAt[w] = "scan"
        /\ listing' = [listing EXCEPT ![w] = ListOf(spool) \ old]
        /\ spool' = Without(spool, NamesIn(old))
    BY <1>4, CleanScan DEF SpoolGoto
  <2>2. \A v \in Writer : spoolAt[v] \in LockStage => v = w
    BY <2>1, Alone
  <2>3. ListOf(spool) \ old = ListOf(spool')
    BY <2>1, ListOfWithout
  <2>4. ListOf(spool)' = ListOf(spool')
    BY DEF ListOf
  <2> HIDE DEF old
  <2>5. QED
    BY <2>1, <2>2, <2>3, <2>4
<1>5. ASSUME NEW w \in Writer,
             EvictSpool(w) \/ CreateSpool(w) \/ WriteSpool(w)
      PROVE  ListingTrue'
  <2>1. spoolAt[w] \in LockStage /\ spoolAt'[w] # "evict"
        /\ \A v \in Writer : v # w => spoolAt'[v] = spoolAt[v]
    BY <1>5 DEF EvictSpool, CreateSpool, WriteSpool
  <2>2. \A v \in Writer : spoolAt'[v] # "evict"
    BY <2>1, Alone
  <2>3. QED
    BY <2>2
<1>6. CASE SpoolTick \/ UNCHANGED spoolVars
  BY <1>6 DEF SpoolTick, spoolVars, ListOf
<1>7. QED
  BY <1>1, <1>2, <1>3, <1>4, <1>5, <1>6, <1>8 DEF SpoolNext

\* Deletions leave the directory within its quota and one file more.
LEMMA DeletionsKeepRoom ==
  ASSUME SpoolTypeOK, IsFiniteSet(DOMAIN spool), WithinOneMore,
         NEW gone, gone \subseteq ListOf(spool),
         spool' = Without(spool, NamesIn(gone))
  PROVE  WithinOneMore'
<1> DEFINE before == ListOf(spool)
           after == ListOf(spool)'
<1>1. after = before \ gone
  <2>1. after = ListOf(spool')
    BY DEF ListOf
  <2>2. QED
    BY <2>1, ListOfWithout
<1>2. Sized(before) /\ \A S \in SUBSET before : Sized(S) /\ Bytes(S) \in Nat
  <2>1. Sized(before)
    BY ListOfSized
  <2>2. \A S \in SUBSET before : Sized(S)
    BY <2>1, FS_Subset DEF Sized
  <2>3. QED
    BY <2>1, <2>2, BytesType
<1>3. Cardinality(DOMAIN spool') <= MaxFiles + 1
  <2>1. DOMAIN spool' \subseteq DOMAIN spool
    BY DEF Without
  <2>2. /\ Cardinality(DOMAIN spool') <= Cardinality(DOMAIN spool)
        /\ IsFiniteSet(DOMAIN spool')
    BY <2>1, FS_Subset
  <2>3. Cardinality(DOMAIN spool') \in Nat /\ Cardinality(DOMAIN spool) \in Nat
    BY <2>2, FS_CardinalityType
  <2>4. QED
    BY <2>2, <2>3, SpoolConstants DEF WithinOneMore
<1>4. MaxBytes \in Nat
  BY SpoolConstants
<1>5. CASE Bytes(before) <= MaxBytes
  <2>1. Bytes(after) <= Bytes(before)
    BY <1>1, <1>2, BytesMonotone
  <2>2. Bytes(after) <= MaxBytes
    BY <1>1, <1>2, <1>4, <1>5, <2>1
  <2>3. QED
    BY <1>3, <2>2 DEF WithinOneMore
<1>6. ASSUME NEW last \in before, Bytes(before \ {last}) <= MaxBytes
      PROVE  WithinOneMore'
  <2>1. Sized(before \ {last}) /\ Bytes(before \ {last}) \in Nat
    BY <1>2
  <2>2. CASE last \in after
    <3>1. after \ {last} \subseteq before \ {last}
      BY <1>1
    <3>2. Bytes(after \ {last}) <= Bytes(before \ {last})
      BY <2>1, <3>1, BytesMonotone
    <3>3. Bytes(after \ {last}) \in Nat
      BY <1>1, <1>2
    <3>4. Bytes(after \ {last}) <= MaxBytes
      BY <1>4, <1>6, <2>1, <3>2, <3>3
    <3>5. QED
      BY <1>3, <2>2, <3>4 DEF WithinOneMore
  <2>3. CASE last \notin after
    <3>1. after \subseteq before \ {last}
      BY <1>1, <2>3
    <3>2. Bytes(after) <= Bytes(before \ {last})
      BY <2>1, <3>1, BytesMonotone
    <3>3. Bytes(after) \in Nat
      BY <1>1, <1>2
    <3>4. Bytes(after) <= MaxBytes
      BY <1>4, <1>6, <2>1, <3>2, <3>3
    <3>5. QED
      BY <1>3, <3>4 DEF WithinOneMore
  <2>4. QED
    BY <2>2, <2>3
<1>7. QED
  BY <1>5, <1>6 DEF WithinOneMore
\* Within the quota the directory is within the quota and one file more.
LEMMA FitsWithinOneMore ==
  ASSUME IsFiniteSet(DOMAIN spool), ~OverQuota(ListOf(spool)), SpoolTypeOK
  PROVE  /\ Cardinality(DOMAIN spool) \in Nat /\ Bytes(ListOf(spool)) \in Nat
         /\ Cardinality(DOMAIN spool) <= MaxFiles
         /\ Bytes(ListOf(spool)) <= MaxBytes
<1>1. /\ Cardinality(ListOf(spool)) = Cardinality(DOMAIN spool)
      /\ Cardinality(DOMAIN spool) \in Nat
  BY ListOfSize, FS_CardinalityType
<1>2. Bytes(ListOf(spool)) \in Nat
  BY ListOfSized, BytesType
<1>3. QED
  BY <1>1, <1>2, SpoolConstants DEF OverQuota

\* Every step of a call that got the lock leaves the room there was or makes it.
LEMMA RoomyStays ==
  ASSUME SpoolTypeOK, IsFiniteSet(DOMAIN spool), Orderly, ListingTrue, Roomy,
         [SpoolNext]_spoolVars, ~unlocked', ~stuck', (SpoolTypeOK)'
  PROVE  Roomy'
<1> USE SpoolConstants DEF Orderly, Roomy, LockStage
<1>1. spoolAt \in [Writer -> SpoolStage] /\ name \in [Writer -> Name]
  BY DEF SpoolTypeOK
<1>2. ASSUME NEW w \in Writer, UNCHANGED spool,
             \A v \in Writer \ {w} : spoolAt'[v] = spoolAt[v]
                                     /\ name'[v] = name[v],
             spoolAt'[w] \notin {"create", "write"}
      PROVE  Roomy'
  <2> DEFINE list == ListOf(spool)
  <2>0. ListOf(spool)' = list
    BY <1>2 DEF ListOf
  <2> HIDE DEF list
  <2>1. RoomMade'
    BY <1>2, <2>0 DEF RoomMade, OverQuota, list
  <2>2. OthersFit'
    BY <1>2, <2>0 DEF OthersFit, list
  <2>3. WithinOneMore'
    BY <1>2, <2>0 DEF WithinOneMore, list
  <2>4. QED
    BY <2>1, <2>2, <2>3
<1>3. ASSUME NEW w \in Writer,
             \/ \E n \in Name : Compact(w, n)
             \/ LockSpool(w) \/ LockFails(w) \/ ReuseSpool(w) \/ CreateFails(w)
             \/ WriteFails(w) \/ UnlockSpool(w) \/ ReturnSpool(w)
             \/ SpoolCrash(w)
      PROVE  Roomy'
  <2>1. UNCHANGED spool
    BY <1>3 DEF Compact, LockSpool, LockFails, ReuseSpool, CreateFails,
                WriteFails, UnlockSpool, ReturnSpool, SpoolCrash
  <2>2. \A v \in Writer \ {w} : spoolAt'[v] = spoolAt[v] /\ name'[v] = name[v]
    BY <1>1, <1>3 DEF Compact, LockSpool, LockFails, ReuseSpool, CreateFails,
                WriteFails, UnlockSpool, ReturnSpool, SpoolCrash, SpoolGoto
  <2>3. spoolAt'[w] \notin {"create", "write"}
    BY <1>1, <1>3 DEF Compact, LockSpool, LockFails, ReuseSpool, CreateFails,
                WriteFails, UnlockSpool, ReturnSpool, SpoolCrash, SpoolGoto
  <2>4. QED
    BY <1>2, <2>1, <2>2, <2>3
<1>10. ASSUME NEW w \in Writer, ScanAborts(w) PROVE Roomy'
  BY <1>10 DEF ScanAborts
<1>4. ASSUME NEW w \in Writer, ScanSpool(w) PROVE Roomy'
  <2> DEFINE old == {f \in ListOf(spool) : Expired(f)}
  <2>1. /\ spoolAt' = [spoolAt EXCEPT ![w] = "evict"] /\ spoolAt[w] = "scan"
        /\ spool' = Without(spool, NamesIn(old))
    BY <1>4, CleanScan DEF SpoolGoto
  <2>2. \A v \in Writer : spoolAt'[v] \notin {"create", "write"}
    BY <1>1, <2>1, Alone
  <2>3. old \subseteq ListOf(spool)
    OBVIOUS
  <2> HIDE DEF old
  <2>4. WithinOneMore'
    BY <2>1, <2>3, DeletionsKeepRoom
  <2>5. QED
    BY <2>2, <2>4 DEF RoomMade, OthersFit
<1>5. ASSUME NEW w \in Writer, EvictSpool(w) PROVE Roomy'
  <2>1. PICK gone \in SUBSET listing[w], kept \in SUBSET listing[w] :
          /\ Sweep(listing[w], gone, kept)
          /\ \/ kept = {} /\ UNCHANGED <<spoolFaults, stuck>>
             \/ kept # {} /\ SpoolFault /\ stuck' = TRUE
          /\ spool' = Without(spool, NamesIn(gone))
    BY <1>5 DEF EvictSpool
  <2>2. /\ spoolAt' = [spoolAt EXCEPT ![w] = "create"] /\ spoolAt[w] = "evict"
    BY <1>5 DEF EvictSpool, SpoolGoto
  <2>3. listing[w] = ListOf(spool) /\ kept = {}
    BY <2>1, <2>2 DEF ListingTrue
  <2>4. ~OverQuota(ListOf(spool) \ gone)
    BY <2>1, <2>3, SweptFits
  <2>5. ListOf(spool)' = ListOf(spool) \ gone
    <3>1. ListOf(spool)' = ListOf(spool')
      BY DEF ListOf
    <3>2. QED
      BY <2>1, <2>3, <3>1, ListOfWithout
  <2>6. RoomMade'
    BY <2>4, <2>5 DEF RoomMade, OverQuota
  <2>7. \A v \in Writer : spoolAt'[v] # "write"
    BY <1>1, <2>2, Alone
  <2>8. WithinOneMore'
    BY <2>1, <2>3, DeletionsKeepRoom
  <2>9. QED
    BY <2>6, <2>7, <2>8 DEF OthersFit
<1>6. ASSUME NEW w \in Writer, CreateSpool(w) PROVE Roomy'
  <2> DEFINE new == [name |-> name[w], size |-> 0, mtime |-> spoolClock]
  <2>1. /\ spoolAt' = [spoolAt EXCEPT ![w] = "write"] /\ spoolAt[w] = "create"
        /\ name[w] \notin DOMAIN spool /\ name' = name
        /\ DOMAIN spool' = DOMAIN spool \cup {name[w]}
        /\ spool'[name[w]].size = 0 /\ spool'[name[w]].mtime = spoolClock
        /\ \A n \in DOMAIN spool : spool'[n] = spool[n]
    BY <1>6 DEF CreateSpool, SpoolGoto
  <2>2. ListOf(spool)' = ListOf(spool) \cup {new} /\ new \notin ListOf(spool)
    <3>1. \A f \in ListOf(spool)' : f \in ListOf(spool) \cup {new}
      BY <2>1 DEF ListOf
    <3>2. \A f \in ListOf(spool) \cup {new} : f \in ListOf(spool)'
      BY <2>1 DEF ListOf
    <3>3. new \notin ListOf(spool)
      BY <2>1 DEF ListOf
    <3>4. QED
      BY <3>1, <3>2, <3>3
  <2>3. ListOf(spool)' \ {new} = ListOf(spool)
    BY <2>2
  <2>4. ~OverQuota(ListOf(spool))
    BY <2>1 DEF RoomMade
  <2>5. /\ Cardinality(DOMAIN spool) <= MaxFiles
        /\ Cardinality(DOMAIN spool) \in Nat
        /\ Bytes(ListOf(spool)) <= MaxBytes
    BY <2>4, FitsWithinOneMore
  <2>6. Cardinality(DOMAIN spool') = Cardinality(DOMAIN spool) + 1
    BY <2>1, FS_AddElement
  <2>7. new.name = name[w]
    OBVIOUS
  <2> HIDE DEF new
  <2>8. \A v \in Writer : spoolAt'[v] \in {"create", "write"} =>
          v = w /\ spoolAt'[v] = "write"
    BY <1>1, <2>1, Alone
  <2>9. Bytes(ListOf(spool)' \ {new}) <= MaxBytes /\ new \in ListOf(spool)'
    BY <2>2, <2>3, <2>5
  <2>10. WithinOneMore'
    <3>1. Cardinality(DOMAIN spool') <= MaxFiles + 1
      BY <2>5, <2>6
    <3>2. QED
      BY <2>9, <3>1 DEF WithinOneMore
  <2>11. OthersFit'
    BY <2>1, <2>7, <2>8, <2>9 DEF OthersFit
  <2>12. RoomMade'
    BY <2>8 DEF RoomMade
  <2>13. QED
    BY <2>10, <2>11, <2>12
<1>7. ASSUME NEW w \in Writer, WriteSpool(w) PROVE Roomy'
  <2> DEFINE new == [name |-> name[w], size |-> FileSize(name[w]),
                     mtime |-> spoolClock]
  <2>1. spoolAt' = [spoolAt EXCEPT ![w] = "unlock"] /\ spoolAt[w] = "write"
    BY <1>7 DEF WriteSpool, SpoolGoto
  <2>2. StillThere(w)
    BY <2>1 DEF BeingWritten
  <2>3. /\ DOMAIN spool' = DOMAIN spool /\ name[w] \in DOMAIN spool
        /\ spool'[name[w]].size = FileSize(name[w])
        /\ spool'[name[w]].mtime = spoolClock
        /\ \A n \in DOMAIN spool \ {name[w]} : spool'[n] = spool[n]
    BY <1>7, <2>2 DEF WriteSpool, StillThere
  <2>4. PICK f \in ListOf(spool) :
          f.name = name[w] /\ Bytes(ListOf(spool) \ {f}) <= MaxBytes
    BY <2>1 DEF OthersFit
  <2>5. ListOf(spool)' \ {new} = ListOf(spool) \ {f} /\ new \in ListOf(spool)'
    BY <2>3, <2>4 DEF ListOf
  <2> HIDE DEF new
  <2>6. WithinOneMore'
    BY <2>3, <2>4, <2>5 DEF WithinOneMore
  <2>7. \A v \in Writer : spoolAt'[v] \notin {"create", "write"}
    BY <1>1, <2>1, Alone
  <2>8. QED
    BY <2>6, <2>7 DEF RoomMade, OthersFit
<1>8. CASE SpoolTick \/ UNCHANGED spoolVars
  <2>1. UNCHANGED <<spool, spoolAt, name>>
    BY <1>8 DEF SpoolTick, spoolVars
  <2>2. ListOf(spool)' = ListOf(spool)
    BY <2>1 DEF ListOf
  <2>3. QED
    BY <2>1, <2>2 DEF RoomMade, OthersFit, WithinOneMore, OverQuota
<1>9. QED
  BY <1>3, <1>4, <1>5, <1>6, <1>7, <1>8, <1>10 DEF SpoolNext

\* No file is larger than one file may be.
SmallFiles == \A n \in DOMAIN spool : spool[n].size <= MaxFileBytes

LEMMA FilesStaySmall ==
  ASSUME SpoolTypeOK, SmallFiles, [SpoolNext]_spoolVars
  PROVE  SmallFiles'
<1> USE SpoolConstants
<1>1. CASE UNCHANGED spool
  BY <1>1 DEF SmallFiles
<1>2. ASSUME NEW names, spool' = Without(spool, names) PROVE SmallFiles'
  BY <1>2 DEF SmallFiles, Without
<1>3. ASSUME NEW w \in Writer, ScanSpool(w) \/ ScanAborts(w) \/ EvictSpool(w)
      PROVE  SmallFiles'
  <2>1. \E names : spool' = Without(spool, names)
    <3>1. CASE ScanSpool(w)
      BY <3>1, Zenon DEF ScanSpool
    <3>2. CASE EvictSpool(w)
      BY <3>2, Zenon DEF EvictSpool
    <3>3. CASE ScanAborts(w)
      BY <3>3, Zenon DEF ScanAborts
    <3>4. QED
      BY <1>3, <3>1, <3>2, <3>3
  <2>2. QED
    BY <1>2, <2>1
<1>4. ASSUME NEW w \in Writer, CreateSpool(w) PROVE SmallFiles'
  BY <1>4 DEF CreateSpool, SmallFiles
<1>5. ASSUME NEW w \in Writer, WriteSpool(w) PROVE SmallFiles'
  <2>1. Text[name[w]].size \in Nat
    BY DEF SpoolTypeOK, TextMeasures
  <2>2. FileSize(name[w]) <= MaxFileBytes
    BY <2>1, MinOfTwo DEF FileSize
  <2>3. QED
    BY <1>5, <2>2 DEF WriteSpool, SmallFiles
<1>6. QED
  BY <1>1, <1>3, <1>4, <1>5
     DEF SpoolNext, spoolVars, Compact, LockSpool, LockFails, ReuseSpool,
         CreateFails, WriteFails, UnlockSpool, ReturnSpool, SpoolCrash, SpoolTick

QuotaInv ==
  /\ OrderInv
  /\ IsFiniteSet(DOMAIN spool)
  /\ SmallFiles
  /\ ~unlocked /\ ~stuck => ListingTrue /\ Roomy

\* With the lock and working deletions there is room wherever a file is created
\* (_clean_spool_dir_quota).
THEOREM QuotaStays == SpoolSpec => []QuotaInv
<1>1. SpoolInit => /\ IsFiniteSet(DOMAIN spool)
                   /\ SmallFiles
                   /\ ~unlocked /\ ~stuck => ListingTrue /\ Roomy
  <2> SUFFICES ASSUME SpoolInit
               PROVE  IsFiniteSet(DOMAIN spool) /\ SmallFiles /\ ListingTrue /\ Roomy
    OBVIOUS
  <2>1. DOMAIN spool = {} /\ ListOf(spool) = {}
    BY DEF SpoolInit, ListOf
  <2>2. Cardinality(DOMAIN spool) = 0 /\ IsFiniteSet(DOMAIN spool)
    BY <2>1, FS_EmptySet
  <2>3. WithinOneMore
    BY <2>1, <2>2, BytesOfNone, SpoolConstants DEF WithinOneMore
  <2>4. QED
    BY <2>1, <2>2, <2>3 DEF SpoolInit, SmallFiles, ListingTrue, Roomy, RoomMade, OthersFit
<1>2. [SpoolNext]_spoolVars => (unlocked => unlocked')
  BY DEF SpoolNext, spoolVars, Compact, LockSpool, LockFails, ScanSpool, ScanAborts,
         EvictSpool, CreateSpool, ReuseSpool, CreateFails, WriteSpool,
         WriteFails, UnlockSpool, ReturnSpool, SpoolCrash, SpoolTick
<1>3. [SpoolNext]_spoolVars => (stuck => stuck')
  <2>1. ASSUME NEW w \in Writer, EvictSpool(w) PROVE stuck => stuck'
    <3>1. stuck' = stuck \/ stuck' = TRUE
      BY <2>1 DEF EvictSpool
    <3>2. QED
      BY <3>1, Zenon
  <2>2. ASSUME NEW w \in Writer, ScanSpool(w) \/ ScanAborts(w) PROVE stuck => stuck'
    <3>1. stuck' = stuck \/ stuck' = TRUE
      BY <2>2 DEF ScanSpool, ScanAborts
    <3>2. QED
      BY <3>1, Zenon
  <2>3. CASE stuck' = stuck
    BY <2>3
  <2>4. QED
    BY <2>1, <2>2, <2>3 DEF SpoolNext, spoolVars, Compact, LockSpool, LockFails,
       CreateSpool, ReuseSpool, CreateFails, WriteSpool, WriteFails,
       UnlockSpool, ReturnSpool, SpoolCrash, SpoolTick
<1>4. /\ QuotaInv /\ OrderInv' /\ [SpoolNext]_spoolVars
      => QuotaInv'
  <2> SUFFICES ASSUME QuotaInv, OrderInv', [SpoolNext]_spoolVars
               PROVE  QuotaInv'
    OBVIOUS
  <2>1. SpoolTypeOK /\ SpoolTypeOK'
    BY DEF QuotaInv, OrderInv
  <2>2. IsFiniteSet(DOMAIN spool)'
    BY <2>1, SpoolFinite DEF QuotaInv
  <2>3. ~unlocked' /\ ~stuck' => ListingTrue'
    BY <1>2, <1>3, <2>1, ListingStaysTrue DEF QuotaInv, OrderInv, Orderly
  <2>4. ~unlocked' /\ ~stuck' => Roomy'
    BY <1>2, <1>3, <2>1, RoomyStays DEF QuotaInv, OrderInv
  <2>5. SmallFiles'
    BY <2>1, FilesStaySmall DEF QuotaInv
  <2>6. QED
    BY <2>2, <2>3, <2>4, <2>5 DEF QuotaInv
<1>5. QED
  BY <1>1, <1>4, OrderStays, PTL DEF SpoolSpec, QuotaInv

\* The lock and the sweep before every creation keep the directory within its
\* quota and one file of the largest size more, when every call got the lock and
\* every file could be listed and deleted (_clean_spool_dir_quota,
\* _safe_spool_write).
THEOREM SpoolStaysBounded == SpoolSpec => []SpoolBounded
<1>1. QuotaInv => SpoolBounded
  <2> SUFFICES ASSUME QuotaInv PROVE SpoolBounded
    OBVIOUS
  <2>1. \A f \in ListOf(spool) : f.size <= MaxFileBytes
    BY DEF QuotaInv, SmallFiles, ListOf
  <2>2. QED
    BY <2>1 DEF QuotaInv, Roomy, WithinOneMore, SpoolBounded
<1>2. QED
  BY <1>1, QuotaStays, PTL

\* With the lock, a file younger than the time to live goes only for files at
\* least as new that need its room (_clean_spool_dir_quota).
THEOREM FreshStay == SpoolSpec => FreshFilesStay
<1>1. QuotaInv /\ [SpoolNext]_spoolVars =>
        [~unlocked /\ ~stuck' =>
           \A f \in ListOf(spool) :
             f.name \in DOMAIN spool' \/ Expired(f)
               \/ OverQuota({g \in ListOf(spool) : g.mtime >= f.mtime})]_spoolVars
  <2> SUFFICES ASSUME QuotaInv, SpoolNext, ~unlocked, ~stuck',
                      NEW f \in ListOf(spool), f.name \notin DOMAIN spool',
                      ~Expired(f)
               PROVE  OverQuota({g \in ListOf(spool) : g.mtime >= f.mtime})
    OBVIOUS
  <2> DEFINE newer == {g \in ListOf(spool) : g.mtime >= f.mtime}
  <2>0. SpoolTypeOK /\ IsFiniteSet(DOMAIN spool) /\ (~stuck => ListingTrue)
    BY DEF QuotaInv, OrderInv
  <2>1. f.name \in DOMAIN spool
    BY DEF ListOf
  <2>2. \A f1, f2 \in ListOf(spool) : f1.name = f2.name => f1 = f2
    BY DEF ListOf
  <2>3. ASSUME NEW w \in Writer, ScanSpool(w) PROVE FALSE
    <3>1. spool' = Without(spool, NamesIn({g \in ListOf(spool) : Expired(g)}))
      BY <2>3, CleanScan
    <3>2. f.name \in NamesIn({g \in ListOf(spool) : Expired(g)})
      BY <2>1, <3>1 DEF Without
    <3>3. PICK g \in ListOf(spool) : Expired(g) /\ g.name = f.name
      BY <3>2 DEF NamesIn
    <3>4. QED
      BY <2>2, <3>3
  <2>4. ASSUME NEW w \in Writer, EvictSpool(w) PROVE OverQuota(newer)
    <3>1. PICK gone \in SUBSET listing[w], kept \in SUBSET listing[w] :
            /\ Sweep(listing[w], gone, kept)
            /\ \/ kept = {} /\ UNCHANGED <<spoolFaults, stuck>>
               \/ kept # {} /\ SpoolFault /\ stuck' = TRUE
            /\ spool' = Without(spool, NamesIn(gone))
      BY <2>4 DEF EvictSpool
    <3>2. listing[w] = ListOf(spool) /\ kept = {}
      <4>1. kept = {} /\ stuck' = stuck
        BY <3>1
      <4>2. QED
        BY <2>0, <2>4, <4>1 DEF ListingTrue, EvictSpool
    <3>3. f \in gone
      <4>1. f.name \in NamesIn(gone)
        BY <2>1, <3>1 DEF Without
      <4>2. PICK g \in gone : g.name = f.name
        BY <4>1 DEF NamesIn
      <4>3. QED
        BY <2>2, <3>2, <4>2
    <3>4. PICK last \in gone :
            /\ \A p \in gone : p.mtime <= last.mtime
            /\ OverQuota((ListOf(spool) \ gone) \cup {last})
      BY <3>1, <3>2, <3>3 DEF Sweep
    <3>5. \A p \in gone, r \in ListOf(spool) \ gone : p.mtime <= r.mtime
      BY <3>1, <3>2 DEF Sweep, OldestFirst
    <3>6. (ListOf(spool) \ gone) \cup {last} \subseteq newer
      <4>1. \A g \in ListOf(spool) : g.mtime \in Nat
        BY <2>0, ListOfTypes DEF SpoolTypeOK, Listed
      <4>2. last \in newer
        BY <3>2, <3>3, <3>4, <4>1
      <4>3. ListOf(spool) \ gone \subseteq newer
        BY <3>2, <3>3, <3>5, <4>1
      <4>4. QED
        BY <4>2, <4>3
    <3>7. Sized(newer)
      BY <2>0, ListOfSized, FS_Subset DEF Sized
    <3> HIDE DEF newer
    <3>8. QED
      BY <3>4, <3>6, <3>7, QuotaMonotone
  <2>5. ASSUME NEW w \in Writer, CreateSpool(w) \/ WriteSpool(w) \/ ScanAborts(w)
        PROVE  FALSE
    BY <2>1, <2>5 DEF CreateSpool, WriteSpool, ScanAborts
  <2>6. spool' # spool
    BY <2>1
  <2>7. QED
    BY <2>3, <2>4, <2>5, <2>6
       DEF SpoolNext, Compact, LockSpool, LockFails, ReuseSpool, CreateFails,
           WriteFails, UnlockSpool, ReturnSpool, SpoolCrash, SpoolTick
<1>2. QED
  BY <1>1, QuotaStays, PTL DEF SpoolSpec, FreshFilesStay
-----------------------------------------------------------------------------
(***************************************************************************)
(* The inline patch: the loop computes what the replacement should be.     *)
(***************************************************************************)
\* A set of numbers has a least one.
LEMMA LeastNat ==
  ASSUME NEW T, T \subseteq Nat, T # {}
  PROVE  \E m \in T : \A k \in T : m <= k
<1>1. PICK m \in T : \A k \in T : ~(<<k, m>> \in OpToRel(<, Nat))
  BY NatLessThanWellFounded, WFMin
<1>2. \A k \in T : ~(k < m)
  BY <1>1 DEF OpToRel
<1>3. QED
  BY <1>2

\* The last of some places.
LEMMA MaxOfInterval ==
  ASSUME NEW n \in Nat, NEW S, S \subseteq 1 .. n, S # {}
  PROVE  Max(S) \in S /\ \A i \in S : i <= Max(S)
<1> DEFINE T == {n - i : i \in S}
<1>1. T \subseteq Nat /\ T # {}
  <2>1. PICK i \in S : TRUE
    OBVIOUS
  <2>2. n - i \in T
    OBVIOUS
  <2>3. \A j \in S : n - j \in Nat
    OBVIOUS
  <2>4. QED
    BY <2>2, <2>3
<1>2. PICK m \in T : \A k \in T : m <= k
  BY <1>1, LeastNat
<1>3. PICK i \in S : m = n - i
  OBVIOUS
<1>4. \A j \in S : j <= i
  <2> SUFFICES ASSUME NEW j \in S PROVE j <= i
    OBVIOUS
  <2>1. n - i <= n - j
    BY <1>2, <1>3
  <2>2. i \in Int /\ j \in Int
    OBVIOUS
  <2>3. QED
    BY <2>1, <2>2
<1>5. \E x \in S : \A y \in S : x >= y
  <2>1. \A j \in S : i >= j
    BY <1>4
  <2>2. QED
    BY <2>1
<1>6. Max(S) \in S /\ \A y \in S : Max(S) >= y
  BY <1>5 DEF Max
<1>7. QED
  BY <1>6

\* What the loop of apply_inline_patch adds at one match, and its fold.
PutAt(lines, request, start, done) ==
  [lines |-> done.lines \o SubSeq(lines, done.last + 1, start - 1)
               \o request.replacement,
   last |-> start - 1 + Len(request.target)]

Nothing == [lines |-> <<>>, last |-> 0]

PatchFold(g, lines, starts, request) ==
  g = [s \in SUBSET starts |->
         IF s = {} THEN Nothing
                   ELSE PutAt(lines, request, Max(s), g[s \ {Max(s)}])]

FoldState == [lines : Seq(Line), last : Nat]

\* Applied is that fold, and the lines after the last match.
LEMMA AppliedIsFold ==
  ASSUME NEW lines, NEW starts, NEW request
  PROVE  LET end == (CHOOSE g : PatchFold(g, lines, starts, request))[starts]
         IN  Applied(lines, starts, request) =
               end.lines \o SubSeq(lines, end.last + 1, Len(lines))
BY DEF Applied, Folded, MapThenFoldSet, PatchFold, PutAt, Nothing

\* Texts joined in any order of joining.
LEMMA CatAssociates ==
  \A s, t, u \in Seq(Line) : (s \o t) \o u = s \o (t \o u)
BY ConcatAssociative

\* What is added at a match is lines.
LEMMA PutAtType ==
  ASSUME NEW lines \in Seq(Line), NEW request \in PatchType,
         NEW start \in 1 .. Len(lines) + 1, NEW done \in FoldState
  PROVE  PutAt(lines, request, start, done) \in FoldState
<1>1. done.lines \in Seq(Line) /\ done.last \in Nat
  BY DEF FoldState
<1>2. request.replacement \in Seq(Line) /\ Len(request.target) \in Nat
  BY LenProperties DEF PatchType
<1>3. Len(lines) \in Nat /\ \A i \in 1 .. Len(lines) : lines[i] \in Line
  BY LenProperties
<1>4. SubSeq(lines, done.last + 1, start - 1) \in Seq(Line)
  <2>1. done.last + 1 \in Int /\ start - 1 \in Int
    BY <1>1, <1>3
  <2>2. \A i \in done.last + 1 .. start - 1 : lines[i] \in Line
    BY <1>1, <1>3
  <2>3. QED
    BY <2>1, <2>2, SubSeqProperties
<1>5. done.lines \o SubSeq(lines, done.last + 1, start - 1) \in Seq(Line)
  BY <1>1, <1>4, ConcatProperties
<1>6. done.lines \o SubSeq(lines, done.last + 1, start - 1)
        \o request.replacement \in Seq(Line)
  BY <1>2, <1>5, ConcatProperties
<1>7. start - 1 + Len(request.target) \in Nat
  BY <1>2, <1>3
<1>8. QED
  BY <1>6, <1>7 DEF PutAt, FoldState

\* What is added at a match, part by part.
LEMMA PutAtParts ==
  ASSUME NEW lines \in Seq(Line), NEW request \in PatchType,
         NEW k \in 0 .. Len(lines), NEW done \in FoldState
  PROVE  LET after == PutAt(lines, request, k + 1, done)
         IN  /\ after \in FoldState
             /\ after.last = k + Len(request.target)
             /\ after.lines = done.lines \o SubSeq(lines, done.last + 1, k)
                                \o request.replacement
<1>1. Len(lines) \in Nat /\ Len(request.target) \in Nat
  BY LenProperties DEF PatchType
<1>2. /\ k + 1 \in 1 .. Len(lines) + 1 /\ k + 1 - 1 = k
      /\ k + 1 - 1 + Len(request.target) = k + Len(request.target)
  BY <1>1
<1>3. PutAt(lines, request, k + 1, done) \in FoldState
  BY <1>2, PutAtType
<1> DEFINE start == k + 1
<1>4. start - 1 = k /\ start - 1 + Len(request.target) = k + Len(request.target)
  BY <1>2
<1> HIDE DEF start
<1>5. /\ PutAt(lines, request, start, done).lines =
           done.lines \o SubSeq(lines, done.last + 1, start - 1)
             \o request.replacement
      /\ PutAt(lines, request, start, done).last =
           start - 1 + Len(request.target)
  BY DEF PutAt
<1>6. /\ PutAt(lines, request, start, done).lines =
           done.lines \o SubSeq(lines, done.last + 1, k)
             \o request.replacement
      /\ PutAt(lines, request, start, done).last = k + Len(request.target)
  BY <1>4, <1>5
<1>7. QED
  BY <1>3, <1>6 DEF start

\* The fold exists for every text and every set of places in it.
LEMMA PatchFoldExists ==
  ASSUME NEW lines \in Seq(Line), NEW request \in PatchType,
         NEW starts, starts \subseteq 1 .. Len(lines) + 1
  PROVE  \E g : PatchFold(g, lines, starts, request)
<1> DEFINE pick == [s \in SUBSET starts |-> Max(s)]
           step == [sd \in starts \X FoldState |->
                      PutAt(lines, request, sd[1], sd[2])]
<1>1. Len(lines) + 1 \in Nat
  BY LenProperties
<1>2. IsFiniteSet(starts)
  <2>1. IsFiniteSet(1 .. Len(lines) + 1)
    BY <1>1, FS_Interval
  <2>2. QED
    BY <2>1, FS_Subset
<1>3. \A s \in SUBSET starts : s # {} => Max(s) \in s /\ pick[s] = Max(s)
  <2> SUFFICES ASSUME NEW s \in SUBSET starts, s # {}
               PROVE  Max(s) \in s /\ pick[s] = Max(s)
    OBVIOUS
  <2>1. s \subseteq 1 .. Len(lines) + 1
    OBVIOUS
  <2>2. QED
    BY <1>1, <2>1, MaxOfInterval
<1>4. \A start \in starts, done \in FoldState :
        /\ step[<<start, done>>] = PutAt(lines, request, start, done)
        /\ step[<<start, done>>] \in FoldState
  BY PutAtType
<1>5. Nothing \in FoldState
  BY EmptySeq DEF Nothing, FoldState
<1>6. Picks(pick, starts) /\ Keeps(step, starts, FoldState)
  BY <1>2, <1>3, <1>4 DEF Picks, Keeps
<1> HIDE DEF pick, step
<1>7. PICK g : FoldRule(g, starts, Nothing, pick, step)
  <2>1. \A S \in SUBSET starts : \E g : FoldRule(g, S, Nothing, pick, step)
    BY <1>6, FoldExists, Zenon
  <2>2. QED
    BY <2>1
<1>8. \A s \in SUBSET starts : g[s] \in FoldState
  BY <1>5, <1>6, <1>7, FoldType
<1> DEFINE A(s) == IF s = {} THEN Nothing
                             ELSE step[<<pick[s], g[s \ {pick[s]}]>>]
           B(s) == IF s = {} THEN Nothing
                      ELSE PutAt(lines, request, Max(s), g[s \ {Max(s)}])
<1>9. \A s \in SUBSET starts : A(s) = B(s)
  <2> SUFFICES ASSUME NEW s \in SUBSET starts, s # {} PROVE A(s) = B(s)
    OBVIOUS
  <2>1. pick[s] = Max(s) /\ Max(s) \in starts
    BY <1>3
  <2>2. g[s \ {Max(s)}] \in FoldState
    BY <1>8
  <2>3. QED
    BY <1>4, <2>1, <2>2
<1>10. g = [s \in SUBSET starts |-> A(s)]
  BY <1>7 DEF FoldRule
<1> HIDE DEF A, B
<1>11. g = [s \in SUBSET starts |-> B(s)]
  BY <1>9, <1>10
<1>12. QED
  BY <1>11 DEF PatchFold, B

\* Concatenating from the left.
FlattenRule(f, seqs, n) ==
  f = [i \in 1 .. n |-> IF i = 1 THEN seqs[i] ELSE f[i - 1] \o seqs[i]]

\* The pieces joined from the left exist.
LEMMA FlattenExists ==
  ASSUME NEW seqs, NEW n \in Nat
  PROVE  \E f : FlattenRule(f, seqs, n)
<1> DEFINE Stuck == {m \in Nat : ~ \E f : FlattenRule(f, seqs, m)}
<1> SUFFICES ASSUME Stuck # {} PROVE FALSE
  OBVIOUS
<1>1. PICK m \in Stuck : \A k \in Stuck : m <= k
  <2>1. Stuck \subseteq Nat
    OBVIOUS
  <2> HIDE DEF Stuck
  <2>2. QED
    BY <2>1, LeastNat
<1>2. m # 0
  <2>1. FlattenRule([i \in 1 .. 0 |-> <<>>], seqs, 0)
    BY DEF FlattenRule
  <2>2. QED
    BY <1>1, <2>1
<1>3. m - 1 \in Nat /\ m - 1 \notin Stuck
  BY <1>1, <1>2
<1>4. PICK f : FlattenRule(f, seqs, m - 1)
  BY <1>3
<1> DEFINE At(i) == IF i = 1 THEN seqs[i] ELSE f[i - 1] \o seqs[i]
           g == [i \in 1 .. m |-> At(i)]
<1>5. \A i \in 1 .. m - 1 : f[i] = At(i)
  BY <1>4, Zenon DEF FlattenRule
<1>6. \A i \in 1 .. m : i # 1 => i - 1 \in 1 .. m - 1 /\ i - 1 \in 1 .. m
  BY <1>3
<1>7. \A i \in 1 .. m : i # 1 => g[i - 1] = f[i - 1]
  <2> HIDE DEF At
  <2>1. QED
    BY <1>5, <1>6
<1> DEFINE Then(i) == IF i = 1 THEN seqs[i] ELSE g[i - 1] \o seqs[i]
<1>8. \A i \in 1 .. m : At(i) = Then(i)
  <2> HIDE DEF g
  <2>1. QED
    BY <1>7, Zenon
<1>9. g = [i \in 1 .. m |-> Then(i)]
  <2>1. g = [i \in 1 .. m |-> At(i)]
    OBVIOUS
  <2> HIDE DEF At, Then, g
  <2>2. QED
    BY <1>8, <2>1
<1>10. FlattenRule(g, seqs, m)
  <2> HIDE DEF g
  <2>1. QED
    BY <1>9 DEF FlattenRule
<1>11. QED
  BY <1>1, <1>10, Zenon
-----------------------------------------------------------------------------
\* A stretch of lines, and the stretch with one line more.
LEMMA Stretch ==
  ASSUME NEW lines \in Seq(Line), NEW last \in Nat, NEW k \in 0 .. Len(lines)
  PROVE  /\ SubSeq(lines, last + 1, k) \in Seq(Line)
         /\ k <= last => SubSeq(lines, last + 1, k) = <<>>
         /\ k + 1 <= Len(lines) =>
              SubSeq(lines, last + 1, k + 1) =
                IF k + 1 <= last THEN <<>>
                  ELSE SubSeq(lines, last + 1, k) \o <<lines[k + 1]>>
<1>1. Len(lines) \in Nat /\ \A i \in 1 .. Len(lines) : lines[i] \in Line
  BY LenProperties
<1>2. last + 1 \in Int /\ k \in Int /\ k + 1 \in Int
  BY <1>1
<1>3. SubSeq(lines, last + 1, k) \in Seq(Line)
  <2>1. \A i \in last + 1 .. k : lines[i] \in Line
    BY <1>1
  <2>2. QED
    BY <1>2, <2>1, SubSeqProperties
<1>4. k <= last => SubSeq(lines, last + 1, k) = <<>>
  <2> SUFFICES ASSUME k <= last PROVE SubSeq(lines, last + 1, k) = <<>>
    OBVIOUS
  <2>1. k < last + 1
    BY <1>2
  <2>2. QED
    BY <1>2, <2>1, SubSeqEmpty
<1>5. ASSUME k + 1 <= Len(lines), k + 1 <= last
      PROVE  SubSeq(lines, last + 1, k + 1) = <<>>
  <2>1. k + 1 < last + 1
    BY <1>2, <1>5
  <2>2. QED
    BY <1>2, <2>1, SubSeqEmpty
<1>6. ASSUME k + 1 <= Len(lines), ~(k + 1 <= last)
      PROVE  SubSeq(lines, last + 1, k + 1) =
               SubSeq(lines, last + 1, k) \o <<lines[k + 1]>>
  <2> DEFINE m == last + 1
             n == k + 1
  <2>1. m \in 1 .. Len(lines) /\ n \in m .. Len(lines) /\ n - 1 = k
    BY <1>1, <1>2, <1>6
  <2> HIDE DEF m, n
  <2>2. SubSeq(lines, m, n) = SubSeq(lines, m, n - 1) \o <<lines[n]>>
    BY <2>1, SubSeqRecursiveSecond
  <2>3. QED
    BY <2>1, <2>2 DEF m, n
<1>7. QED
  BY <1>3, <1>4, <1>5, <1>6

Covered(starts, request, i) ==
  \E s \in starts : i \in s .. s + Len(request.target) - 1

LineKept(lines, starts, request, i) ==
  IF i > Len(lines) \/ Covered(starts, request, i) THEN <<>> ELSE <<lines[i]>>

PieceAt(lines, starts, request, i) ==
  (IF i \in starts THEN request.replacement ELSE <<>>)
    \o LineKept(lines, starts, request, i)

Pieces(lines, starts, request) ==
  [i \in 1 .. Len(lines) + 1 |-> PieceAt(lines, starts, request, i)]

\* Expected is the pieces of all lines, joined.
LEMMA ExpectedIsFlat ==
  ASSUME NEW lines \in Seq(Line), NEW starts, NEW request
  PROVE  Expected(lines, starts, request) =
           (CHOOSE f : FlattenRule(f, Pieces(lines, starts, request),
                                   Len(lines) + 1))[Len(lines) + 1]
<1> DEFINE pieces == Pieces(lines, starts, request)
<1>1. Len(lines) \in Nat
  BY LenProperties
<1>2. Len(pieces) = Len(lines) + 1
  BY <1>1 DEF Pieces
<1>3. Expected(lines, starts, request) = FlattenSeq(pieces)
  BY DEF Expected, Pieces, PieceAt, LineKept, Covered
<1> HIDE DEF pieces
<1>4. FlattenSeq(pieces) =
        (CHOOSE f : FlattenRule(f, pieces, Len(pieces)))[Len(pieces)]
  <2>1. Len(pieces) # 0
    BY <1>1, <1>2
  <2>2. QED
    BY <2>1 DEF FlattenSeq, FlattenRule
<1>5. QED
  BY <1>2, <1>3, <1>4 DEF pieces

\* Up to a line: the matches that begin there or before, and what their fold
\* and the lines since add up to.
UpTo(starts, k) == {s \in starts : s <= k}

Cap(lines, k) == IF k <= Len(lines) THEN k ELSE Len(lines)

Joined(f, k) == IF k = 0 THEN <<>> ELSE f[k]

InStep(lines, starts, request, g, f, k) ==
  LET done == g[UpTo(starts, k)]
  IN  /\ done \in FoldState
      /\ done.last = IF UpTo(starts, k) = {} THEN 0
                     ELSE Max(UpTo(starts, k)) - 1 + Len(request.target)
      /\ Joined(f, k) = done.lines
                          \o SubSeq(lines, done.last + 1, Cap(lines, k))

\* The lines kept at a place are lines.
LEMMA RestType ==
  ASSUME NEW lines \in Seq(Line), NEW starts, NEW request,
         NEW i \in 1 .. Len(lines) + 1
  PROVE  LineKept(lines, starts, request, i) \in Seq(Line)
<1>1. Len(lines) \in Nat /\ \A j \in 1 .. Len(lines) : lines[j] \in Line
  BY LenProperties
<1>2. CASE i > Len(lines) \/ Covered(starts, request, i)
  BY <1>2, EmptySeq DEF LineKept
<1>3. CASE ~(i > Len(lines) \/ Covered(starts, request, i))
  <2>1. lines[i] \in Line
    BY <1>1, <1>3
  <2>2. <<lines[i]>> \in Seq(Line)
    BY <2>1
  <2>3. QED
    BY <1>3, <2>2 DEF LineKept
<1>4. QED
  BY <1>2, <1>3

\* One line on where no match begins: the fold is the same, the line is kept
\* unless the last match covers it.
LEMMA LineInStep ==
  ASSUME NEW lines \in Seq(Line), NEW request \in PatchType,
         NEW starts, starts \subseteq 1 .. Len(lines) + 1,
         NEW g, NEW f, NEW k \in 0 .. Len(lines),
         k + 1 \notin starts,
         Joined(f, k + 1) =
           Joined(f, k) \o PieceAt(lines, starts, request, k + 1),
         InStep(lines, starts, request, g, f, k)
  PROVE  InStep(lines, starts, request, g, f, k + 1)
<1> DEFINE done == g[UpTo(starts, k)]
           rest == LineKept(lines, starts, request, k + 1)
           size == Len(request.target)
<1>1. Len(lines) \in Nat /\ size \in Nat
  BY LenProperties DEF PatchType
<1>2. UpTo(starts, k + 1) = UpTo(starts, k)
  <2>1. \A s \in starts : s \in Int /\ s # k + 1
    BY <1>1
  <2>2. \A s \in starts : s <= k + 1 <=> s <= k
    BY <1>1, <2>1
  <2>3. QED
    BY <2>2 DEF UpTo
<1>3. done \in FoldState /\ done.lines \in Seq(Line) /\ done.last \in Nat
  BY DEF InStep, FoldState
<1>4. Joined(f, k) = done.lines \o SubSeq(lines, done.last + 1, k)
  <2>1. Cap(lines, k) = k
    BY <1>1 DEF Cap
  <2>2. QED
    BY <2>1 DEF InStep
<1>5. rest \in Seq(Line)
  <2>1. k + 1 \in 1 .. Len(lines) + 1
    BY <1>1
  <2>2. QED
    BY <2>1, RestType
<1>6. PieceAt(lines, starts, request, k + 1) = rest
  <2>1. PieceAt(lines, starts, request, k + 1) = <<>> \o rest
    BY DEF PieceAt
  <2> HIDE DEF rest
  <2>2. QED
    BY <1>5, <2>1, ConcatEmptySeq
<1>7. Joined(f, k + 1) =
        done.lines \o (SubSeq(lines, done.last + 1, k) \o rest)
  <2> DEFINE stretch == SubSeq(lines, done.last + 1, k)
  <2>1. stretch \in Seq(Line)
    BY <1>3, Stretch
  <2>2. Joined(f, k + 1) = (done.lines \o stretch) \o rest
    BY <1>4, <1>6
  <2> DEFINE opening == done.lines
  <2>3. opening \in Seq(Line)
    BY <1>3
  <2> HIDE DEF stretch, rest, opening
  <2>4. (opening \o stretch) \o rest = opening \o (stretch \o rest)
    BY <1>5, <2>1, <2>3, ConcatAssociative
  <2>5. QED
    BY <2>2, <2>4 DEF stretch, opening
<1>8. SubSeq(lines, done.last + 1, k) \o rest =
        SubSeq(lines, done.last + 1, Cap(lines, k + 1))
  <2> DEFINE stretch == SubSeq(lines, done.last + 1, k)
  <2>1. stretch \in Seq(Line)
    BY <1>3, Stretch
  <2>2. CASE k + 1 > Len(lines)
    <3>1. rest = <<>> /\ Cap(lines, k + 1) = k
      BY <1>1, <2>2 DEF LineKept, Cap
    <3> HIDE DEF rest
    <3>2. stretch \o <<>> = stretch
      BY <2>1, ConcatEmptySeq
    <3>3. QED
      BY <3>1, <3>2
  <2>3. CASE ~(k + 1 > Len(lines))
    <3>1. k + 1 <= Len(lines) /\ Cap(lines, k + 1) = k + 1
      BY <1>1, <2>3 DEF Cap
    <3>2. Covered(starts, request, k + 1) <=> k + 1 <= done.last
      <4>1. ASSUME NEW s \in starts, k + 1 \in s .. s + size - 1
            PROVE  k + 1 <= done.last
        <5>1. s \in Int
          BY <1>1
        <5>2. s <= k /\ k + 1 <= s + size - 1
          BY <1>1, <4>1, <5>1
        <5>3. s \in UpTo(starts, k)
          BY <5>2 DEF UpTo
        <5>4. UpTo(starts, k) \subseteq 1 .. Len(lines) + 1
          BY DEF UpTo
        <5>5. /\ s <= Max(UpTo(starts, k))
              /\ Max(UpTo(starts, k)) \in UpTo(starts, k)
          BY <1>1, <5>3, <5>4, MaxOfInterval
        <5> DEFINE top == Max(UpTo(starts, k))
        <5>6. top \in Int
          BY <5>4, <5>5, <1>1
        <5>7. done.last = top - 1 + size
          BY <5>3 DEF InStep
        <5> HIDE DEF top, size
        <5>8. s <= top
          BY <5>5 DEF top
        <5>9. QED
          BY <1>1, <5>1, <5>2, <5>6, <5>7, <5>8
      <4>2. ASSUME k + 1 <= done.last PROVE Covered(starts, request, k + 1)
        <5>1. UpTo(starts, k) # {}
          BY <4>2 DEF InStep
        <5>2. UpTo(starts, k) \subseteq 1 .. Len(lines) + 1
          BY DEF UpTo
        <5> DEFINE top == Max(UpTo(starts, k))
        <5>3. top \in UpTo(starts, k)
          BY <1>1, <5>1, <5>2, MaxOfInterval
        <5> HIDE DEF top
        <5>4. top \in starts /\ top <= k /\ top \in Int
          BY <1>1, <5>3 DEF UpTo
        <5>5. done.last = top - 1 + size
          BY <5>1 DEF InStep, top
        <5> HIDE DEF size
        <5>6. k + 1 \in top .. top + size - 1
          BY <1>1, <4>2, <5>4, <5>5
        <5>7. QED
          BY <5>4, <5>6 DEF Covered, size
      <4>3. QED
        BY <4>1, <4>2 DEF Covered
    <3>3. rest = IF k + 1 <= done.last THEN <<>> ELSE <<lines[k + 1]>>
      BY <1>1, <2>3, <3>2 DEF LineKept
    <3> HIDE DEF rest, done
    <3>4. CASE k + 1 <= done.last
      <4>1. SubSeq(lines, done.last + 1, k + 1) = <<>>
        BY <1>3, <3>1, <3>4, Stretch
      <4>2. SubSeq(lines, done.last + 1, k) = <<>>
        <5>1. k <= done.last
          BY <1>1, <1>3, <3>4
        <5>2. QED
          BY <1>3, <5>1, Stretch
      <4>3. <<>> \o <<>> = <<>>
        BY EmptySeq, ConcatEmptySeq
      <4>4. QED
        BY <3>1, <3>3, <3>4, <4>1, <4>2, <4>3
    <3>5. CASE ~(k + 1 <= done.last)
      <4>1. SubSeq(lines, done.last + 1, k + 1) =
              SubSeq(lines, done.last + 1, k) \o <<lines[k + 1]>>
        BY <1>3, <3>1, <3>5, Stretch
      <4>2. QED
        BY <3>1, <3>3, <3>5, <4>1
    <3>6. QED
      BY <3>4, <3>5
  <2>4. QED
    BY <2>2, <2>3
<1>9. QED
  BY <1>2, <1>7, <1>8 DEF InStep

\* One line on where a match begins: the loop adds the lines since the last
\* match and the replacement.
LEMMA MatchInStep ==
  ASSUME NEW lines \in Seq(Line), NEW request \in PatchType,
         NEW starts, starts \subseteq 1 .. Len(lines) + 1,
         NEW g, PatchFold(g, lines, starts, request),
         NEW f, NEW k \in 0 .. Len(lines), k + 1 \in starts,
         Joined(f, k + 1) =
           Joined(f, k) \o PieceAt(lines, starts, request, k + 1),
         InStep(lines, starts, request, g, f, k)
  PROVE  InStep(lines, starts, request, g, f, k + 1)
<1> DEFINE done == g[UpTo(starts, k)]
           after == g[UpTo(starts, k + 1)]
           kept == LineKept(lines, starts, request, k + 1)
           size == Len(request.target)
           stretch == SubSeq(lines, done.last + 1, k)
           opening == done.lines
           put == request.replacement
<1>1. Len(lines) \in Nat /\ size \in Nat /\ put \in Seq(Line)
  BY LenProperties DEF PatchType
<1>2. done \in FoldState /\ opening \in Seq(Line) /\ done.last \in Nat
  BY DEF InStep, FoldState
<1>3. Joined(f, k) = opening \o stretch
  <2>1. Cap(lines, k) = k
    BY <1>1 DEF Cap
  <2>2. QED
    BY <2>1 DEF InStep
<1>4. /\ UpTo(starts, k + 1) # {} /\ Max(UpTo(starts, k + 1)) = k + 1
      /\ UpTo(starts, k + 1) \ {k + 1} = UpTo(starts, k)
  <2>1. \A s \in starts : s \in Int
    BY <1>1
  <2>2. \A s \in starts : s <= k + 1 /\ s # k + 1 <=> s <= k
    BY <1>1, <2>1
  <2>3. k + 1 \in UpTo(starts, k + 1)
    BY <1>1 DEF UpTo
  <2>4. UpTo(starts, k + 1) \subseteq 1 .. Len(lines) + 1
    BY DEF UpTo
  <2>5. /\ Max(UpTo(starts, k + 1)) \in UpTo(starts, k + 1)
        /\ k + 1 <= Max(UpTo(starts, k + 1))
    BY <1>1, <2>3, <2>4, MaxOfInterval
  <2> DEFINE top == Max(UpTo(starts, k + 1))
  <2> HIDE DEF top
  <2>6. top <= k + 1 /\ top \in Int /\ k + 1 <= top
    BY <2>1, <2>5 DEF UpTo, top
  <2>7. top = k + 1
    BY <1>1, <2>6
  <2>8. UpTo(starts, k + 1) \ {k + 1} = UpTo(starts, k)
    BY <2>2 DEF UpTo
  <2>9. QED
    BY <2>3, <2>7, <2>8 DEF top
<1>5. after = PutAt(lines, request, k + 1, done)
  <2>1. UpTo(starts, k + 1) \in SUBSET starts
    BY DEF UpTo
  <2>2. after = PutAt(lines, request, Max(UpTo(starts, k + 1)),
                      g[UpTo(starts, k + 1) \ {Max(UpTo(starts, k + 1))}])
    BY <1>4, <2>1, Zenon DEF PatchFold
  <2>3. QED
    BY <1>4, <2>2
<1>6. after \in FoldState
  <2> HIDE DEF done, after
  <2>1. QED
    BY <1>2, <1>5, PutAtParts
<1>7. after.last = k + size /\ after.lines = opening \o stretch \o put
  <2> HIDE DEF done, after
  <2>1. QED
    BY <1>2, <1>5, PutAtParts
<1>8. kept \in Seq(Line) /\ stretch \in Seq(Line)
  <2>1. k + 1 \in 1 .. Len(lines) + 1
    BY <1>1
  <2>2. kept \in Seq(Line)
    BY <2>1, RestType
  <2> HIDE DEF done
  <2>3. QED
    BY <1>2, <2>2, Stretch
<1>9. Joined(f, k + 1) = after.lines \o kept
  <2>1. PieceAt(lines, starts, request, k + 1) = put \o kept
    BY DEF PieceAt
  <2>2. Joined(f, k + 1) = (opening \o stretch) \o (put \o kept)
    BY <1>3, <2>1
  <2> HIDE DEF opening, stretch, put, kept, after
  <2>3. opening \o stretch \in Seq(Line)
    BY <1>2, <1>8, ConcatProperties
  <2>4. (opening \o stretch) \o (put \o kept) =
          ((opening \o stretch) \o put) \o kept
    <3> DEFINE before == opening \o stretch
    <3> HIDE DEF before
    <3>1. before \in Seq(Line)
      BY <2>3 DEF before
    <3>2. (before \o put) \o kept = before \o (put \o kept)
      <4>1. put \in Seq(Line) /\ kept \in Seq(Line)
        BY <1>1, <1>8
      <4>2. \A s, t, u \in Seq(Line) : (s \o t) \o u = s \o (t \o u)
        BY CatAssociates
      <4>3. QED
        BY <3>1, <4>1, <4>2, Zenon
    <3>3. QED
      BY <3>2 DEF before
  <2>5. QED
    BY <1>7, <2>2, <2>4
<1>10. kept = SubSeq(lines, after.last + 1, Cap(lines, k + 1))
  <2>1. CASE size # 0
    <3>1. k + 1 \in k + 1 .. k + 1 + size - 1
      <4> HIDE DEF size
      <4>1. QED
        BY <1>1, <2>1
    <3>2. kept = <<>>
      BY <3>1 DEF LineKept, Covered
    <3>3. /\ Cap(lines, k + 1) < k + size + 1 /\ Cap(lines, k + 1) \in Int
          /\ k + size + 1 \in Int
      BY <1>1, <2>1 DEF Cap
    <3> HIDE DEF kept, after, size
    <3>4. SubSeq(lines, k + size + 1, Cap(lines, k + 1)) = <<>>
      BY <3>3, SubSeqEmpty
    <3>5. QED
      BY <1>7, <3>2, <3>4
  <2>2. CASE size = 0
    <3>1. ~Covered(starts, request, k + 1)
      <4> SUFFICES ASSUME NEW s \in starts, k + 1 \in s .. s + size - 1
                   PROVE  FALSE
        BY DEF Covered
      <4>1. s \in Int
        BY <1>1
      <4> HIDE DEF size
      <4>2. QED
        BY <1>1, <2>2, <4>1
    <3>2. after.last = k
      BY <1>1, <1>7, <2>2
    <3>3. CASE k + 1 > Len(lines)
      <4>1. kept = <<>> /\ Cap(lines, k + 1) = k
        BY <1>1, <3>3 DEF LineKept, Cap
      <4> HIDE DEF kept, after
      <4>2. SubSeq(lines, k + 1, k) = <<>>
        BY <1>1, Stretch
      <4>3. QED
        BY <3>2, <4>1, <4>2
    <3>4. CASE ~(k + 1 > Len(lines))
      <4>1. kept = <<lines[k + 1]>>
        BY <3>1, <3>4 DEF LineKept
      <4>2. Cap(lines, k + 1) = k + 1 /\ k + 1 <= Len(lines) /\ ~(k + 1 <= k)
        BY <1>1, <3>4 DEF Cap
      <4> HIDE DEF kept, after
      <4>3. /\ SubSeq(lines, k + 1, k) = <<>>
            /\ SubSeq(lines, k + 1, k + 1) =
                 SubSeq(lines, k + 1, k) \o <<lines[k + 1]>>
        BY <1>1, <4>2, Stretch
      <4>4. <<lines[k + 1]>> \in Seq(Line)
        BY <1>8, <4>1
      <4>5. <<>> \o <<lines[k + 1]>> = <<lines[k + 1]>>
        BY <4>4, ConcatEmptySeq
      <4>6. QED
        BY <3>2, <4>1, <4>2, <4>3, <4>5
    <3>5. QED
      BY <3>3, <3>4
  <2>3. QED
    BY <2>1, <2>2
<1>11. after.last = k + 1 - 1 + size
  <2>1. k + 1 - 1 + size = k + size
    BY <1>1
  <2> HIDE DEF after
  <2>2. QED
    BY <1>7, <2>1
<1>12. QED
  <2>1. Joined(f, k + 1) =
          after.lines \o SubSeq(lines, after.last + 1, Cap(lines, k + 1))
    <3> HIDE DEF kept, after
    <3>1. QED
      BY <1>9, <1>10
  <2>2. after.last = IF UpTo(starts, k + 1) = {} THEN 0
                     ELSE Max(UpTo(starts, k + 1)) - 1 + Len(request.target)
    <3> HIDE DEF after
    <3>1. QED
      BY <1>4, <1>11
  <2>3. QED
    BY <1>6, <2>1, <2>2, Zenon DEF InStep

\* The pieces of Expected add up line after line.
LEMMA ExpectedGrows ==
  ASSUME NEW lines \in Seq(Line), NEW request \in PatchType,
         NEW starts, starts \subseteq 1 .. Len(lines) + 1,
         NEW f, FlattenRule(f, Pieces(lines, starts, request), Len(lines) + 1),
         NEW k \in 0 .. Len(lines)
  PROVE  Joined(f, k + 1) =
           Joined(f, k) \o PieceAt(lines, starts, request, k + 1)
<1> DEFINE size == Len(lines) + 1
           pieces == Pieces(lines, starts, request)
<1>0. Len(lines) \in Nat /\ size \in Nat
  BY LenProperties
<1>1. k + 1 \in 1 .. size
  BY <1>0
<1>2. pieces[k + 1] = PieceAt(lines, starts, request, k + 1)
  BY <1>1 DEF Pieces
<1>3. f[k + 1] = IF k + 1 = 1 THEN pieces[k + 1]
                              ELSE f[k + 1 - 1] \o pieces[k + 1]
  <2>1. FlattenRule(f, pieces, size)
    OBVIOUS
  <2> HIDE DEF size, pieces
  <2>2. \A i \in 1 .. size :
          f[i] = IF i = 1 THEN pieces[i] ELSE f[i - 1] \o pieces[i]
    BY <2>1, Zenon DEF FlattenRule
  <2>3. QED
    BY <1>1, <2>2
<1> HIDE DEF pieces
<1>4. CASE k = 0
  <2>1. PieceAt(lines, starts, request, k + 1) \in Seq(Line)
    <3>1. LineKept(lines, starts, request, k + 1) \in Seq(Line)
      BY <1>1, RestType
    <3>2. request.replacement \in Seq(Line) /\ <<>> \in Seq(Line)
      BY EmptySeq DEF PatchType
    <3>3. QED
      BY <3>1, <3>2, ConcatProperties DEF PieceAt
  <2>2. f[k + 1] = PieceAt(lines, starts, request, k + 1)
    BY <1>2, <1>3, <1>4
  <2>3. <<>> \o PieceAt(lines, starts, request, k + 1) =
          PieceAt(lines, starts, request, k + 1)
    BY <2>1, ConcatEmptySeq
  <2>4. QED
    BY <1>4, <2>2, <2>3 DEF Joined
<1>5. CASE k # 0
  <2>1. k + 1 # 1 /\ k + 1 - 1 = k /\ k + 1 # 0
    BY <1>0, <1>5
  <2>2. QED
    BY <1>2, <1>3, <1>5, <2>1 DEF Joined
<1>6. QED
  BY <1>4, <1>5

\* For every text, every set of places and every request, the loop of
\* apply_inline_patch computes the text the matches and the replacement define
\* line by line.
THEOREM AppliedAsExpected ==
  ASSUME NEW lines \in Seq(Line), NEW request \in PatchType,
         NEW starts, starts \subseteq 1 .. Len(lines) + 1
  PROVE  /\ Applied(lines, starts, request) = Expected(lines, starts, request)
         /\ Applied(lines, starts, request) \in Seq(Line)
<1> DEFINE size == Len(lines) + 1
           g == CHOOSE h : PatchFold(h, lines, starts, request)
           pieces == Pieces(lines, starts, request)
           f == CHOOSE h : FlattenRule(h, pieces, size)
<1>1. Len(lines) \in Nat /\ size \in Nat
  BY LenProperties
<1>2. PatchFold(g, lines, starts, request)
  BY PatchFoldExists, Zenon
<1>3. FlattenRule(f, pieces, size)
  BY <1>1, FlattenExists, Zenon
<1>4. /\ Applied(lines, starts, request) =
           g[starts].lines \o SubSeq(lines, g[starts].last + 1, Len(lines))
      /\ Expected(lines, starts, request) = f[size]
  BY AppliedIsFold, ExpectedIsFlat
<1> HIDE DEF g, f
<1>5. ASSUME NEW k \in 0 .. Len(lines)
      PROVE  Joined(f, k + 1) =
               Joined(f, k) \o PieceAt(lines, starts, request, k + 1)
  BY <1>3, ExpectedGrows
<1>6. InStep(lines, starts, request, g, f, 0)
  <2>1. UpTo(starts, 0) = {}
    <3>1. \A s \in starts : s \in Int /\ ~(s <= 0)
      BY <1>1
    <3>2. QED
      BY <3>1 DEF UpTo
  <2>2. g[{}] = Nothing
    BY <1>2, Zenon DEF PatchFold
  <2>3. Nothing \in FoldState /\ Nothing.last = 0 /\ Nothing.lines = <<>>
    BY EmptySeq DEF Nothing, FoldState
  <2>4. Cap(lines, 0) = 0
    BY <1>1 DEF Cap
  <2>5. SubSeq(lines, 0 + 1, 0) = <<>>
    BY <1>1, Stretch
  <2>6. <<>> \o <<>> = <<>>
    BY EmptySeq, ConcatEmptySeq
  <2>7. QED
    BY <2>1, <2>2, <2>3, <2>4, <2>5, <2>6 DEF InStep, Joined
<1> DEFINE Off == {k \in Nat : k <= size
                                 /\ ~InStep(lines, starts, request, g, f, k)}
<1>7. Off = {}
  <2> SUFFICES ASSUME Off # {} PROVE FALSE
    OBVIOUS
  <2>1. PICK k \in Off : \A m \in Off : k <= m
    <3>1. Off \subseteq Nat
      OBVIOUS
    <3> HIDE DEF Off
    <3>2. QED
      BY <3>1, LeastNat
  <2>2. k # 0 /\ k \in Nat /\ k <= size
    BY <1>6, <2>1
  <2> DEFINE m == k - 1
  <2>3. m \in 0 .. Len(lines) /\ m + 1 = k /\ ~(k <= m) /\ m <= size
    BY <1>1, <2>2
  <2>4. InStep(lines, starts, request, g, f, m)
    BY <2>1, <2>3
  <2> HIDE DEF m
  <2>5. Joined(f, m + 1) =
          Joined(f, m) \o PieceAt(lines, starts, request, m + 1)
    BY <1>5, <2>3
  <2>6. InStep(lines, starts, request, g, f, m + 1)
    <3>1. CASE m + 1 \in starts
      BY <1>2, <2>3, <2>4, <2>5, <3>1, MatchInStep
    <3>2. CASE m + 1 \notin starts
      BY <2>3, <2>4, <2>5, <3>2, LineInStep
    <3>3. QED
      BY <3>1, <3>2
  <2>7. QED
    BY <2>1, <2>3, <2>6
<1>8. InStep(lines, starts, request, g, f, size)
  BY <1>1, <1>7
<1>9. UpTo(starts, size) = starts
  <2>1. \A s \in starts : s <= size
    BY <1>1
  <2> HIDE DEF size
  <2>2. QED
    BY <2>1 DEF UpTo
<1>10. Cap(lines, size) = Len(lines)
  BY <1>1 DEF Cap
<1>11. f[size] = g[starts].lines
                   \o SubSeq(lines, g[starts].last + 1, Len(lines))
  <2>1. size # 0
    BY <1>1
  <2>2. Joined(f, size) = f[size]
    BY <2>1 DEF Joined
  <2> HIDE DEF size
  <2>3. QED
    BY <1>8, <1>9, <1>10, <2>2 DEF InStep
<1>12. g[starts].lines \o SubSeq(lines, g[starts].last + 1, Len(lines))
         \in Seq(Line)
  <2>1. g[starts].lines \in Seq(Line) /\ g[starts].last \in Nat
    BY <1>8, <1>9 DEF InStep, FoldState
  <2> DEFINE last == g[starts].last
             opening == g[starts].lines
             stretch == SubSeq(lines, last + 1, Len(lines))
  <2> HIDE DEF last, opening
  <2>2. last \in Nat /\ opening \in Seq(Line)
    BY <2>1 DEF last, opening
  <2>3. stretch \in Seq(Line)
    BY <1>1, <2>2, Stretch
  <2> HIDE DEF stretch
  <2>4. opening \o stretch \in Seq(Line)
    BY <2>2, <2>3, ConcatProperties
  <2>5. QED
    BY <2>4 DEF opening, stretch, last
<1>13. QED
  BY <1>4, <1>11, <1>12
-----------------------------------------------------------------------------
(***************************************************************************)
(* The inline patch: types, and the file.                                  *)
(***************************************************************************)
\* What str.splitlines makes of a text that was read: lines with a line feed,
\* or the last without one.
ReadLines ==
  {lines \in Seq(Line) :
     AsSplit(lines) /\ \A i \in 1 .. Len(lines) : lines[i].end # "crlf"}

ReadLine == {line \in Line : line.end # "crlf"}

\* Lines read one after the other, each running on from one without an end.
LEMMA RunTogetherKeeps ==
  ASSUME NEW done \in ReadLines, NEW line \in ReadLine
  PROVE  RunTogether(done, line) \in ReadLines
<1> DEFINE n == Len(done)
<1>1. /\ done \in Seq(Line) /\ n \in Nat /\ AsSplit(done)
      /\ \A i \in 1 .. n : done[i] \in Line /\ done[i].end # "crlf"
      /\ line \in Line /\ line.end # "crlf"
  BY LenProperties DEF ReadLines, ReadLine
<1>2. CASE done = <<>> \/ Ended(Last(done))
  <2> DEFINE all == Append(done, line)
  <2>1. /\ all \in Seq(Line) /\ Len(all) = n + 1 /\ all[n + 1] = line
        /\ \A i \in 1 .. n : all[i] = done[i]
    BY <1>1, AppendProperties
  <2> HIDE DEF all
  <2>2. ASSUME NEW i \in 1 .. n PROVE Ended(done[i])
    <3>1. done # <<>>
      BY <1>1, <2>2
    <3>2. CASE i = n
      BY <1>2, <3>1, <3>2 DEF Last
    <3>3. CASE i # n
      BY <1>1, <3>3 DEF AsSplit
    <3>4. QED
      BY <3>2, <3>3
  <2>3. AsSplit(all)
    BY <1>1, <2>1, <2>2 DEF AsSplit
  <2>4. \A i \in 1 .. Len(all) : all[i].end # "crlf"
    BY <1>1, <2>1
  <2>5. QED
    BY <1>2, <2>1, <2>3, <2>4 DEF RunTogether, ReadLines, all
<1>3. CASE ~(done = <<>> \/ Ended(Last(done)))
  <2> DEFINE front == Front(done)
             joined == [line EXCEPT !.words = Last(done).words \o @]
             all == Append(front, joined)
  <2>1. n # 0 /\ n - 1 \in Nat /\ n \in 1 .. n
    <3>1. n # 0
      BY <1>1, <1>3, EmptySeq
    <3>2. QED
      BY <1>1, <3>1
  <2>2. Last(done) \in Line /\ Last(done).end = "none"
    BY <1>1, <1>3, <2>1 DEF Last, Ended
  <2>3. joined \in Line /\ joined.end # "crlf"
    <3>1. /\ line \in [words : Seq(Word), end : {"none", "lf", "crlf"}]
          /\ Last(done).words \in Seq(Word) /\ line.words \in Seq(Word)
          /\ Last(done).words # <<>>
      BY <1>1, <2>2 DEF Line
    <3> DEFINE opening == Last(done).words
               words == opening \o line.words
    <3>2. opening \in Seq(Word) /\ opening # <<>>
      BY <3>1
    <3> HIDE DEF opening
    <3>3. words \in Seq(Word) /\ words # <<>>
      <4>1. words \in Seq(Word) /\ Len(words) = Len(opening) + Len(line.words)
        BY <3>1, <3>2, ConcatProperties
      <4>2. Len(opening) \in Nat \ {0} /\ Len(line.words) \in Nat
        BY <3>1, <3>2, EmptySeq, LenProperties
      <4>3. Len(words) # 0
        BY <4>1, <4>2
      <4>4. QED
        BY <4>1, <4>3, EmptySeq
    <3> HIDE DEF words
    <3>4. joined = [line EXCEPT !.words = words]
      BY DEF words, opening
    <3>5. QED
      BY <1>1, <3>1, <3>3, <3>4 DEF Line
  <2>4. /\ front \in Seq(Line) /\ Len(front) = n - 1
        /\ \A i \in 1 .. n - 1 : front[i] = done[i]
    <3>1. \A i \in 1 .. n - 1 : done[i] \in Line
      BY <1>1
    <3>2. front = SubSeq(done, 1, n - 1)
      BY DEF Front
    <3>3. /\ SubSeq(done, 1, n - 1) \in Seq(Line)
          /\ Len(SubSeq(done, 1, n - 1)) = n - 1
      <4> DEFINE m == n - 1
      <4>1. m \in Nat /\ m \in Int /\ \A i \in 1 .. m : done[i] \in Line
        BY <2>1, <3>1
      <4> HIDE DEF m
      <4>2. /\ SubSeq(done, 1, m) \in Seq(Line)
            /\ Len(SubSeq(done, 1, m)) = IF 1 <= m THEN m - 1 + 1 ELSE 0
        BY <4>1, SubSeqProperties
      <4>3. Len(SubSeq(done, 1, m)) = m
        BY <4>1, <4>2
      <4>4. QED
        BY <4>2, <4>3 DEF m
    <3>4. \A i \in 1 .. n - 1 : SubSeq(done, 1, n - 1)[i] = done[i]
      BY <1>1, <2>1
    <3>5. QED
      BY <3>2, <3>3, <3>4
  <2> HIDE DEF front, joined
  <2>5. /\ all \in Seq(Line) /\ Len(all) = n /\ all[n] = joined
        /\ \A i \in 1 .. n - 1 : all[i] = done[i]
    <3>1. /\ all \in Seq(Line) /\ Len(all) = Len(front) + 1
          /\ all[Len(front) + 1] = joined
          /\ \A i \in 1 .. Len(front) : all[i] = front[i]
      BY <2>3, <2>4, AppendProperties
    <3>2. n - 1 + 1 = n
      BY <2>1
    <3>3. QED
      BY <2>4, <3>1, <3>2
  <2> HIDE DEF all
  <2>6. AsSplit(all)
    BY <1>1, <2>5 DEF AsSplit
  <2>7. \A i \in 1 .. Len(all) : all[i].end # "crlf"
    <3>1. \A i \in 1 .. n : i = n \/ i \in 1 .. n - 1
      BY <2>1
    <3>2. QED
      BY <1>1, <2>3, <2>5, <3>1
  <2>8. QED
    BY <1>3, <2>5, <2>6, <2>7 DEF RunTogether, ReadLines, all, front, joined
<1>4. QED
  BY <1>2, <1>3

\* How the lines of a file end once they are read.
LineFeeds(lines) ==
  [i \in DOMAIN lines |->
     [lines[i] EXCEPT !.end = IF @ = "crlf" THEN "lf" ELSE @]]

\* What reading the lines of each set of places gives, last place last.
ReadFold(g, seq) ==
  g = [s \in SUBSET DOMAIN seq |->
         IF s = {} THEN <<>> ELSE RunTogether(g[s \ {Max(s)}], seq[Max(s)])]

\* Reading a file is that fold over its lines.
LEMMA RereadIsFold ==
  ASSUME NEW lines
  PROVE  LET seq == LineFeeds(lines)
         IN  Reread(lines) = (CHOOSE g : ReadFold(g, seq))[DOMAIN seq]
BY DEF Reread, FoldLeft, MapThenFoldSet, ReadFold, LineFeeds

\* A file that is read is lines, of which only the last may have no end, with
\* line feeds, whatever was written (open in text mode, str.splitlines).
LEMMA RereadType ==
  ASSUME NEW lines \in Seq(Line)
  PROVE  Reread(lines) \in ReadLines
<1> DEFINE seq == LineFeeds(lines)
           D == DOMAIN seq
<1>1. D = 1 .. Len(lines) /\ Len(lines) \in Nat
  BY LenProperties DEF LineFeeds
<1>2. \A i \in D : seq[i] \in ReadLine
  <2> SUFFICES ASSUME NEW i \in D PROVE seq[i] \in ReadLine
    OBVIOUS
  <2>1. lines[i] \in Line
    BY <1>1, LenProperties
  <2>2. seq[i] = [lines[i] EXCEPT !.end = IF @ = "crlf" THEN "lf" ELSE @]
    BY <1>1 DEF LineFeeds
  <2> HIDE DEF seq
  <2>3. QED
    BY <2>1, <2>2 DEF Line, ReadLine
<1> HIDE DEF seq
<1> DEFINE pick == [s \in SUBSET D |-> Max(s)]
           step == [xv \in D \X ReadLines |-> RunTogether(xv[2], seq[xv[1]])]
<1>3. IsFiniteSet(D)
  BY <1>1, FS_Interval
<1>4. \A s \in SUBSET D : s # {} => Max(s) \in s /\ pick[s] = Max(s)
  BY <1>1, MaxOfInterval
<1>5. \A i \in D, done \in ReadLines :
        /\ step[<<i, done>>] = RunTogether(done, seq[i])
        /\ step[<<i, done>>] \in ReadLines
  BY <1>2, RunTogetherKeeps
<1>6. <<>> \in ReadLines
  BY EmptySeq DEF ReadLines, AsSplit
<1>7. Picks(pick, D) /\ Keeps(step, D, ReadLines)
  BY <1>3, <1>4, <1>5 DEF Picks, Keeps
<1> HIDE DEF pick, step
<1>8. PICK h : FoldRule(h, D, <<>>, pick, step)
  <2>1. \A S \in SUBSET D : \E h : FoldRule(h, S, <<>>, pick, step)
    BY <1>7, FoldExists, Zenon
  <2>2. QED
    BY <2>1
<1>9. \A s \in SUBSET D : h[s] \in ReadLines
  BY <1>6, <1>7, <1>8, FoldType
<1> DEFINE A(s) == IF s = {} THEN <<>> ELSE step[<<pick[s], h[s \ {pick[s]}]>>]
           B(s) == IF s = {} THEN <<>>
                             ELSE RunTogether(h[s \ {Max(s)}], seq[Max(s)])
<1>10. \A s \in SUBSET D : A(s) = B(s)
  <2> SUFFICES ASSUME NEW s \in SUBSET D, s # {} PROVE A(s) = B(s)
    OBVIOUS
  <2>1. pick[s] = Max(s) /\ Max(s) \in D
    BY <1>4
  <2>2. h[s \ {Max(s)}] \in ReadLines
    BY <1>9
  <2>3. QED
    BY <1>5, <2>1, <2>2
<1>11. h = [s \in SUBSET D |-> A(s)]
  BY <1>8 DEF FoldRule
<1> HIDE DEF A, B
<1>12. h = [s \in SUBSET D |-> B(s)]
  BY <1>10, <1>11
<1>13. ReadFold(h, seq)
  BY <1>12 DEF ReadFold, B
<1> DEFINE g == CHOOSE k : ReadFold(k, seq)
<1>14. ReadFold(g, seq)
  BY <1>13, Zenon
<1> HIDE DEF g
<1> DEFINE Out == {s \in SUBSET D : g[s] \notin ReadLines}
<1>15. Out = {}
  <2> SUFFICES ASSUME Out # {} PROVE FALSE
    OBVIOUS
  <2>1. PICK s \in Out : \A y \in Out : y \subseteq s => y = s
    <3>1. Out \subseteq SUBSET D
      OBVIOUS
    <3> HIDE DEF Out
    <3>2. QED
      BY <1>3, <3>1, SmallestSet
  <2>2. g[s] = IF s = {} THEN <<>>
                         ELSE RunTogether(g[s \ {Max(s)}], seq[Max(s)])
    BY <1>14, Zenon DEF ReadFold
  <2>3. s # {}
    BY <1>6, <2>1, <2>2
  <2>4. Max(s) \in s /\ Max(s) \in D
    BY <1>4, <2>1, <2>3
  <2>5. g[s \ {Max(s)}] \in ReadLines
    BY <2>1, <2>4
  <2>6. QED
    BY <1>2, <2>1, <2>2, <2>3, <2>4, <2>5, RunTogetherKeeps
<1>16. Reread(lines) = g[D]
  BY RereadIsFold DEF g, seq
<1>17. QED
  BY <1>15, <1>16
-----------------------------------------------------------------------------
\* A block that is closed is as long, and every line of it has an end.
LEMMA ClosedType ==
  ASSUME NEW block \in Seq(Line)
  PROVE  /\ Closed(block) \in Seq(Line)
         /\ Len(Closed(block)) = Len(block)
         /\ AsSplit(block) =>
              \A i \in 1 .. Len(block) : Ended(Closed(block)[i])
<1> DEFINE n == Len(block)
           At(i) == IF i = n /\ ~Ended(block[i])
                      THEN [block[i] EXCEPT !.end = "lf"] ELSE block[i]
<1>1. n \in Nat /\ DOMAIN block = 1 .. n /\ \A i \in 1 .. n : block[i] \in Line
  BY LenProperties
<1>2. Closed(block) = [i \in 1 .. n |-> At(i)]
  BY <1>1 DEF Closed
<1>3. \A i \in 1 .. n : At(i) \in Line
  BY <1>1 DEF Line
<1>4. AsSplit(block) => \A i \in 1 .. n : Ended(At(i))
  BY <1>1 DEF AsSplit, Line, Ended
<1> HIDE DEF At
<1>5. [i \in 1 .. n |-> At(i)] \in Seq(Line)
  BY <1>1, <1>3
<1>6. Len([i \in 1 .. n |-> At(i)]) = n
  BY <1>1
<1>7. QED
  BY <1>2, <1>4, <1>5, <1>6

\* What is asked for keeps its type, and in a file whose first line has a line
\* feed every line of the replacement has an end.
LEMMA NormalisedType ==
  ASSUME NEW lines \in Seq(Line), NEW request \in PatchType
  PROVE  LET asked == Normalised(request, lines)
         IN  /\ asked \in PatchType
             /\ Len(asked.target) = Len(request.target)
             /\ lines # <<>> /\ lines[1].end = "lf"
                  /\ AsSplit(request.replacement) =>
                  \A i \in 1 .. Len(asked.replacement) :
                    Ended(asked.replacement[i])
             /\ ~(lines # <<>> /\ lines[1].end = "lf") => asked = request
<1> DEFINE closed == [request EXCEPT !.target = Closed(@),
                                     !.replacement = Closed(@)]
<1>1. request.target \in Seq(Line) /\ request.replacement \in Seq(Line)
  BY DEF PatchType
<1>2. /\ closed \in PatchType
      /\ closed.target = Closed(request.target)
      /\ closed.replacement = Closed(request.replacement)
  BY <1>1, ClosedType DEF PatchType
<1> HIDE DEF closed
<1>3. CASE lines # <<>> /\ lines[1].end = "lf"
  <2>1. Normalised(request, lines) = closed
    BY <1>3 DEF Normalised, closed
  <2>2. QED
    BY <1>1, <1>2, <1>3, <2>1, ClosedType
<1>4. CASE ~(lines # <<>> /\ lines[1].end = "lf")
  <2>1. Normalised(request, lines) = request
    BY <1>4 DEF Normalised
  <2>2. QED
    BY <1>4, <2>1
<1>5. QED
  BY <1>3, <1>4

\* Dropping blanks drops no line.
LEMMA StrippedLength ==
  ASSUME NEW lines \in Seq(Line)
  PROVE  Len(Stripped(lines)) = Len(lines)
<1>1. DOMAIN lines = 1 .. Len(lines) /\ Len(lines) \in Nat
  BY LenProperties
<1>2. QED
  BY <1>1 DEF Stripped

\* A match begins where a block of its length fits.
LEMMA MatchesPlaces ==
  ASSUME NEW lines \in Seq(Line), NEW request \in PatchType
  PROVE  /\ Matches(lines, request.target)
              \subseteq 1 .. Len(lines) - Len(request.target) + 1
         /\ Matches(lines, request.target) \subseteq 1 .. Len(lines) + 1
<1> DEFINE block == request.target
           places == 1 .. Len(lines) - Len(block) + 1
<1>1. block \in Seq(Line) /\ Len(block) \in Nat /\ Len(lines) \in Nat
  BY LenProperties DEF PatchType
<1> HIDE DEF block
<1>2. Len(Stripped(lines)) = Len(lines) /\ Len(Stripped(block)) = Len(block)
  BY <1>1, StrippedLength
<1>3. places \subseteq 1 .. Len(lines) + 1
  BY <1>1
<1>4. Finds(lines, block) \subseteq places
  BY DEF Finds
<1>5. Finds(Stripped(lines), Stripped(block)) \subseteq places
  BY <1>2 DEF Finds
<1>6. Matches(lines, block) \subseteq places
  BY <1>4, <1>5 DEF Matches, ExactFinds
<1>7. QED
  BY <1>3, <1>6 DEF block

\* A patched text is the one due.
LEMMA ResultAsDue ==
  ASSUME NEW lines \in Seq(Line), NEW request \in PatchType
  PROVE  /\ Result(lines, request) \in Seq(Line)
         /\ Result(lines, request) = Due(lines, request)
<1> DEFINE asked == Normalised(request, lines)
<1>1. asked \in PatchType
  BY NormalisedType
<1> HIDE DEF asked
<1>2. Matches(lines, asked.target) \subseteq 1 .. Len(lines) + 1
  BY <1>1, MatchesPlaces
<1> DEFINE starts == Matches(lines, asked.target)
<1> HIDE DEF starts
<1>3. /\ Applied(lines, starts, asked) \in Seq(Line)
      /\ Applied(lines, starts, asked) = Expected(lines, starts, asked)
  BY <1>1, <1>2, AppliedAsExpected DEF starts
<1>4. QED
  BY <1>3 DEF Result, Due, asked, starts

\* Of a text as read and a replacement whose lines have ends, nothing runs on:
\* what replaces the matches is as split as the text was.
LEMMA ExpectedSplit ==
  ASSUME NEW lines \in Seq(Line), AsSplit(lines), NEW request \in PatchType,
         NEW starts, starts \subseteq 1 .. Len(lines) + 1,
         \A i \in 1 .. Len(request.replacement) :
           Ended(request.replacement[i]),
         \/ Len(lines) + 1 \notin starts
         \/ \A i \in 1 .. Len(lines) : Ended(lines[i])
  PROVE  AsSplit(Expected(lines, starts, request))
<1> DEFINE size == Len(lines) + 1
           pieces == Pieces(lines, starts, request)
           f == CHOOSE h : FlattenRule(h, pieces, size)
           EndedLine == {line \in Line : Ended(line)}
           Rest(i) == LineKept(lines, starts, request, i)
<1>1. Len(lines) \in Nat /\ size \in Nat /\ size # 0
  BY LenProperties
<1>2. FlattenRule(f, pieces, size)
  BY <1>1, FlattenExists, Zenon
<1>3. Expected(lines, starts, request) = f[size]
  BY ExpectedIsFlat
<1> HIDE DEF f
<1>4. \A k \in 0 .. Len(lines) :
        Joined(f, k + 1) =
          Joined(f, k) \o PieceAt(lines, starts, request, k + 1)
  BY <1>2, ExpectedGrows
<1>5. request.replacement \in Seq(EndedLine)
  <2>1. request.replacement \in Seq(Line)
    BY DEF PatchType
  <2> DEFINE put == request.replacement
  <2>2. put \in Seq(Line) /\ \A i \in 1 .. Len(put) : Ended(put[i])
    BY <2>1
  <2> HIDE DEF put
  <2>3. put \in Seq(EndedLine)
    BY <2>2
  <2>4. QED
    BY <2>3 DEF put
<1>6. ASSUME NEW i \in 1 .. size
      PROVE  /\ Rest(i) \in Seq(Line) /\ Len(Rest(i)) <= 1
             /\ i < Len(lines) \/ (i <= Len(lines) /\ Ended(lines[i]))
                  \/ i = size => Rest(i) \in Seq(EndedLine)
  <2>1. Rest(i) \in Seq(Line)
    BY <1>6, RestType
  <2>2. CASE i > Len(lines) \/ Covered(starts, request, i)
    <3>1. Rest(i) = <<>>
      BY <2>2 DEF LineKept
    <3> HIDE DEF Rest
    <3>2. QED
      BY <2>1, <3>1, EmptySeq
  <2>3. CASE ~(i > Len(lines) \/ Covered(starts, request, i))
    <3>1. Rest(i) = <<lines[i]>> /\ i <= Len(lines)
      BY <1>1, <2>3 DEF LineKept
    <3> HIDE DEF Rest
    <3>2. lines[i] \in Line
      BY <1>1, <3>1
    <3>3. i < Len(lines) => Ended(lines[i])
      BY <1>1 DEF AsSplit
    <3>4. i # size
      BY <1>1, <3>1
    <3>5. Len(Rest(i)) = 1
      BY <3>1
    <3>6. i < Len(lines) \/ Ended(lines[i]) => <<lines[i]>> \in Seq(EndedLine)
      BY <3>2, <3>3
    <3>7. QED
      BY <2>1, <3>1, <3>4, <3>5, <3>6
  <2>4. QED
    BY <2>2, <2>3
<1>7. \A i \in 1 .. size :
        PieceAt(lines, starts, request, i) =
          (IF i \in starts THEN request.replacement ELSE <<>>) \o Rest(i)
  BY DEF PieceAt
<1> HIDE DEF Rest, EndedLine, pieces, size
<1>8. <<>> \in Seq(EndedLine)
  BY EmptySeq
<1>9. ASSUME NEW k \in 0 .. Len(lines), Joined(f, k) \in Seq(EndedLine),
             Rest(k + 1) \in Seq(EndedLine)
      PROVE  Joined(f, k + 1) \in Seq(EndedLine)
  <2>1. k + 1 \in 1 .. size
    BY <1>1 DEF size
  <2>2. PieceAt(lines, starts, request, k + 1) \in Seq(EndedLine)
    BY <1>5, <1>7, <1>8, <1>9, <2>1, ConcatProperties
  <2>3. QED
    BY <1>4, <1>9, <2>2, ConcatProperties
<1> DEFINE Off == {k \in Nat : k < Len(lines) /\ Joined(f, k) \notin Seq(EndedLine)}
<1>10. Off = {}
  <2> SUFFICES ASSUME Off # {} PROVE FALSE
    OBVIOUS
  <2>1. PICK k \in Off : \A m \in Off : k <= m
    <3>1. Off \subseteq Nat
      OBVIOUS
    <3> HIDE DEF Off
    <3>2. QED
      BY <3>1, LeastNat
  <2>2. k # 0
    BY <1>8, <2>1 DEF Joined
  <2> DEFINE m == k - 1
  <2>3. /\ m \in 0 .. Len(lines) /\ m \in Nat /\ m < Len(lines) /\ m + 1 = k
        /\ ~(k <= m) /\ m + 1 < Len(lines) /\ m + 1 \in 1 .. size
    BY <1>1, <2>1, <2>2 DEF size
  <2> HIDE DEF m
  <2>4. Joined(f, m) \in Seq(EndedLine)
    BY <2>1, <2>3
  <2>5. Rest(m + 1) \in Seq(EndedLine)
    BY <1>6, <2>3
  <2>6. Joined(f, m + 1) \in Seq(EndedLine)
    BY <1>9, <2>3, <2>4, <2>5
  <2>7. QED
    BY <2>1, <2>3, <2>6
<1>11. \A k \in Nat : k < Len(lines) => Joined(f, k) \in Seq(EndedLine)
  BY <1>10
<1> HIDE DEF Off
<1>12. EndedLine \subseteq Line /\ \A line \in EndedLine : Ended(line)
  BY DEF EndedLine
<1>13. ASSUME NEW s \in Seq(EndedLine), NEW t \in Seq(Line), Len(t) <= 1
       PROVE  AsSplit(s \o t)
  <2>1. s \in Seq(Line) /\ Len(s) \in Nat /\ Len(t) \in Nat
    BY <1>12, LenProperties
  <2>2. \A i \in 1 .. Len(s) : Ended(s[i])
    BY <1>12, LenProperties
  <2>3. /\ Len(s \o t) = Len(s) + Len(t)
        /\ \A i \in 1 .. Len(s) + Len(t) :
             (s \o t)[i] = IF i <= Len(s) THEN s[i] ELSE t[i - Len(s)]
    BY <2>1, ConcatProperties
  <2>4. \A i \in 1 .. Len(s \o t) - 1 : i \in 1 .. Len(s)
    BY <1>13, <2>1, <2>3
  <2>5. QED
    BY <2>1, <2>2, <2>3, <2>4 DEF AsSplit
<1>14. Joined(f, size) = f[size]
  BY <1>1 DEF Joined
<1>15. CASE \A i \in 1 .. Len(lines) : Ended(lines[i])
  <2>1. \A i \in 1 .. size : Rest(i) \in Seq(EndedLine)
    BY <1>1, <1>6, <1>15 DEF size
  <2> DEFINE last == Len(lines)
  <2>2. Joined(f, last) \in Seq(EndedLine)
    <3>1. CASE last = 0
      BY <1>8, <3>1 DEF Joined
    <3>2. CASE last # 0
      <4> DEFINE m == last - 1
      <4>1. m \in Nat /\ m < Len(lines) /\ m \in 0 .. Len(lines)
              /\ m + 1 = last /\ m + 1 \in 1 .. size
        BY <1>1, <3>2 DEF size
      <4> HIDE DEF m
      <4>2. Joined(f, m + 1) \in Seq(EndedLine)
        BY <1>9, <1>11, <2>1, <4>1
      <4>3. QED
        BY <4>1, <4>2
    <3>3. QED
      BY <3>1, <3>2
  <2>3. last \in 0 .. Len(lines) /\ last + 1 = size /\ size \in 1 .. size
    BY <1>1 DEF size
  <2> HIDE DEF last
  <2>4. Joined(f, last + 1) \in Seq(EndedLine)
    BY <1>9, <2>1, <2>2, <2>3
  <2>5. f[size] \in Seq(EndedLine) /\ <<>> \in Seq(Line) /\ Len(<<>>) <= 1
    BY <1>14, <2>3, <2>4, EmptySeq
  <2>6. f[size] \o <<>> = f[size]
    BY <2>5, ConcatEmptySeq
  <2>7. AsSplit(f[size] \o <<>>)
    BY <1>13, <2>5
  <2>8. QED
    BY <1>3, <2>6, <2>7
<1>16. CASE ~ \A i \in 1 .. Len(lines) : Ended(lines[i])
  <2> DEFINE last == Len(lines)
             m == last - 1
  <2>1. size \notin starts
    BY <1>16 DEF size
  <2>2. /\ last \in 1 .. size /\ last \in 0 .. Len(lines) /\ last + 1 = size
        /\ m \in Nat /\ m < Len(lines) /\ m \in 0 .. Len(lines)
        /\ m + 1 = last /\ size \in 1 .. size /\ size > Len(lines)
    BY <1>1, <1>16 DEF size
  <2>3. Rest(size) = <<>>
    BY <2>2 DEF Rest, LineKept
  <2> HIDE DEF last, m
  <2> DEFINE put == IF last \in starts THEN request.replacement ELSE <<>>
             before == Joined(f, m)
             rest == Rest(last)
  <2>4. put \in Seq(EndedLine) /\ before \in Seq(EndedLine)
    BY <1>5, <1>8, <1>11, <2>2
  <2>5. rest \in Seq(Line) /\ Len(rest) <= 1
    BY <1>6, <2>2
  <2>6. Joined(f, last) = before \o (put \o rest)
    BY <1>4, <1>7, <2>2
  <2>7. Joined(f, size) = Joined(f, last) \o (<<>> \o <<>>)
    <3>1. Joined(f, last + 1) =
            Joined(f, last) \o PieceAt(lines, starts, request, last + 1)
      BY <1>4, <2>2
    <3>2. PieceAt(lines, starts, request, size) = <<>> \o <<>>
      BY <1>7, <2>1, <2>2, <2>3
    <3>3. QED
      BY <2>2, <3>1, <3>2
  <2> HIDE DEF put, before, rest
  <2>8. before \o put \in Seq(EndedLine)
    BY <2>4, ConcatProperties
  <2>9. before \o (put \o rest) = (before \o put) \o rest
    <3>1. before \in Seq(Line) /\ put \in Seq(Line)
      BY <1>12, <2>4
    <3>2. QED
      BY <2>5, <3>1, CatAssociates
  <2>10. AsSplit(before \o (put \o rest))
    BY <1>13, <2>5, <2>8, <2>9
  <2>11. before \o (put \o rest) \in Seq(Line)
    <3>1. before \in Seq(Line) /\ put \in Seq(Line)
      BY <1>12, <2>4
    <3>2. put \o rest \in Seq(Line)
      BY <2>5, <3>1, ConcatProperties
    <3>3. QED
      BY <3>1, <3>2, ConcatProperties
  <2>12. Joined(f, size) = Joined(f, last)
    BY <2>6, <2>7, <2>11, EmptySeq, ConcatEmptySeq
  <2>13. QED
    BY <1>3, <1>14, <2>6, <2>10, <2>12
<1>17. QED
  BY <1>15, <1>16

\* A replacement of one line that has no end stands alone.
LEMMA ExpectedAlone ==
  ASSUME NEW lines \in Seq(Line), NEW request \in PatchType,
         AsSplit(request.replacement),
         NEW starts, starts \subseteq 1 .. Len(lines) + 1,
         \/ lines = <<>>
         \/ Len(lines) = 1 /\ Len(request.target) # 0 /\ starts = {1}
  PROVE  AsSplit(Expected(lines, starts, request))
<1> DEFINE size == Len(lines) + 1
           pieces == Pieces(lines, starts, request)
           f == CHOOSE h : FlattenRule(h, pieces, size)
           put == request.replacement
<1>1. Len(lines) \in Nat /\ size \in Nat /\ size # 0
  BY LenProperties
<1>2. FlattenRule(f, pieces, size)
  BY <1>1, FlattenExists, Zenon
<1>3. Expected(lines, starts, request) = f[size]
  BY ExpectedIsFlat
<1> HIDE DEF f
<1>4. \A k \in 0 .. Len(lines) :
        Joined(f, k + 1) =
          Joined(f, k) \o PieceAt(lines, starts, request, k + 1)
  BY <1>2, ExpectedGrows
<1>5. put \in Seq(Line) /\ <<>> \in Seq(Line) /\ AsSplit(put) /\ AsSplit(<<>>)
  BY EmptySeq DEF PatchType, AsSplit
<1> HIDE DEF put, pieces
<1>6. put \o <<>> = put /\ <<>> \o put = put /\ <<>> \o <<>> = <<>>
  BY <1>5, ConcatEmptySeq
<1>7. Joined(f, 0) = <<>> /\ Joined(f, size) = f[size]
  BY <1>1 DEF Joined
<1>8. CASE lines = <<>>
  <2>1. Len(lines) = 0 /\ size = 1 /\ 1 > Len(lines) /\ 0 \in 0 .. Len(lines)
    BY <1>8, EmptySeq
  <2>2. PieceAt(lines, starts, request, 1) \in {put, <<>>}
    BY <1>6, <2>1 DEF PieceAt, LineKept, put
  <2>3. Joined(f, 0 + 1) =
          Joined(f, 0) \o PieceAt(lines, starts, request, 0 + 1)
    BY <1>4, <2>1
  <2>4. f[size] \in {put, <<>>}
    BY <1>6, <1>7, <2>1, <2>2, <2>3
  <2>5. QED
    BY <1>3, <1>5, <2>4
<1>9. CASE Len(lines) = 1 /\ Len(request.target) # 0 /\ starts = {1}
  <2>1. Len(request.target) \in Nat
    BY LenProperties DEF PatchType
  <2>2. Covered(starts, request, 1)
    BY <1>9, <2>1 DEF Covered
  <2>3. PieceAt(lines, starts, request, 1) = put
    BY <1>6, <1>9, <2>2 DEF PieceAt, LineKept, put
  <2>4. PieceAt(lines, starts, request, 2) = <<>>
    BY <1>6, <1>9 DEF PieceAt, LineKept
  <2>5. /\ size = 2 /\ 0 \in 0 .. Len(lines) /\ 1 \in 0 .. Len(lines)
        /\ 0 + 1 = 1 /\ 1 + 1 = 2
    BY <1>9
  <2>6. Joined(f, 1) = <<>> \o put
    BY <1>4, <1>7, <2>3, <2>5
  <2>7. Joined(f, 2) = put \o <<>>
    BY <1>4, <1>6, <2>4, <2>5, <2>6
  <2>8. QED
    BY <1>3, <1>5, <1>6, <1>7, <2>5, <2>7
<1>10. QED
  BY <1>8, <1>9

\* Where no empty block is found at the end of a file that does not end in a
\* line feed, what a patch makes of the lines read is lines again.
LEMMA ResultSplit ==
  ASSUME NEW lines \in ReadLines, NEW request \in Patch,
         Applicable(lines, request),
         ~(request.target = <<>> /\ lines # <<>> /\ ~Ended(Last(lines)))
  PROVE  AsSplit(Result(lines, request))
<1> DEFINE asked == Normalised(request, lines)
           starts == Matches(lines, asked.target)
           n == Len(lines)
<1>1. /\ lines \in Seq(Line) /\ n \in Nat /\ AsSplit(lines)
      /\ \A i \in 1 .. n : lines[i] \in Line /\ lines[i].end # "crlf"
  BY LenProperties DEF ReadLines
<1>2. request \in PatchType /\ AsSplit(request.replacement)
  BY PatchConstants
<1>3. /\ asked \in PatchType /\ Len(asked.target) = Len(request.target)
      /\ lines # <<>> /\ lines[1].end = "lf" =>
           \A i \in 1 .. Len(asked.replacement) : Ended(asked.replacement[i])
      /\ ~(lines # <<>> /\ lines[1].end = "lf") => asked = request
  BY <1>1, <1>2, NormalisedType
<1>4. starts # {}
  BY DEF Applicable
<1>5. Result(lines, request) = Expected(lines, starts, asked)
  BY <1>1, <1>2, ResultAsDue DEF Due
<1> HIDE DEF asked
<1>6. /\ starts \subseteq 1 .. n - Len(asked.target) + 1
      /\ starts \subseteq 1 .. n + 1
  BY <1>1, <1>3, MatchesPlaces
<1> HIDE DEF starts
<1>7. /\ Len(asked.target) \in Nat
      /\ Len(asked.target) = 0 <=> request.target = <<>>
  BY <1>2, <1>3, LenProperties, EmptySeq DEF PatchType
<1>8. CASE lines # <<>> /\ lines[1].end = "lf"
  <2>1. n # 0
    BY <1>1, <1>8, EmptySeq
  <2>2. \/ n + 1 \notin starts
        \/ \A i \in 1 .. n : Ended(lines[i])
    <3>1. CASE Len(asked.target) = 0
      <4>1. Ended(lines[n])
        BY <1>7, <1>8, <3>1 DEF Last
      <4>2. \A i \in 1 .. n - 1 : Ended(lines[i])
        BY <1>1 DEF AsSplit
      <4>3. QED
        BY <1>1, <4>1, <4>2
    <3>2. CASE Len(asked.target) # 0
      BY <1>1, <1>6, <1>7, <3>2
    <3>3. QED
      BY <3>1, <3>2
  <2>3. QED
    BY <1>1, <1>3, <1>5, <1>6, <1>8, <2>2, ExpectedSplit
<1>9. CASE lines # <<>> /\ lines[1].end # "lf"
  <2>1. n # 0
    BY <1>1, <1>9, EmptySeq
  <2>2. ~Ended(lines[1])
    <3>1. 1 \in 1 .. n
      BY <1>1, <2>1
    <3>2. lines[1] \in Line /\ lines[1].end # "crlf"
      BY <1>1, <3>1
    <3>3. QED
      BY <1>9, <3>2 DEF Ended, Line
  <2>3. n = 1
    <3>1. ~(1 \in 1 .. Len(lines) - 1)
      BY <1>1, <2>2 DEF AsSplit
    <3>2. n \in Nat /\ n # 0 /\ ~(1 \in 1 .. n - 1)
      BY <1>1, <2>1, <3>1
    <3> HIDE DEF n
    <3>3. QED
      BY <3>2
  <2>4. Len(asked.target) # 0
    BY <1>7, <1>9, <2>2, <2>3 DEF Last
  <2>5. starts = {1}
    <3>1. starts \subseteq {1}
      BY <1>6, <1>7, <2>3, <2>4
    <3>2. QED
      BY <1>4, <3>1
  <2>6. asked = request
    BY <1>3, <1>9
  <2>7. QED
    BY <1>1, <1>2, <1>5, <1>6, <2>3, <2>4, <2>5, <2>6, ExpectedAlone
<1>10. CASE lines = <<>>
  <2>1. asked = request
    BY <1>3, <1>10
  <2>2. QED
    BY <1>1, <1>2, <1>5, <1>6, <1>10, <2>1, ExpectedAlone
<1>11. QED
  BY <1>8, <1>9, <1>10

\* The inline patch keeps its types (apply_inline_patch and its faults).
THEOREM PatchTypeCorrect == PatchSpec => []PatchTypeOK
<1>1. PatchInit => PatchTypeOK
  <2> SUFFICES ASSUME PatchInit PROVE PatchTypeOK
    OBVIOUS
  <2>1. text \in Seq(Line) /\ due_text \in Seq(Line)
    BY PatchConstants DEF PatchInit
  <2>2. (CHOOSE request \in Patch : TRUE) \in Patch
    BY PatchConstants
  <2>3. QED
    BY <2>1, <2>2, EmptySeq DEF PatchInit, PatchTypeOK
<1>2. PatchTypeOK /\ [PatchNext]_patchVars => PatchTypeOK'
  <2> SUFFICES ASSUME PatchTypeOK, [PatchNext]_patchVars PROVE PatchTypeOK'
    OBVIOUS
  <2> USE DEF PatchTypeOK, PatchGoto
  <2>1. ASSUME NEW p \in Patcher, NEW request \in Patch, ReadText(p, request)
        PROVE  PatchTypeOK'
    <3>1. Result(Reread(text), request) \in Seq(Line)
      <4>1. Reread(text) \in Seq(Line)
        BY RereadType DEF ReadLines
      <4>2. request \in PatchType
        BY PatchConstants
      <4>3. QED
        BY <4>1, <4>2, ResultAsDue
    <3>2. patchOverlap' \in BOOLEAN /\ ran_on' \in BOOLEAN
      BY <2>1, Zenon DEF ReadText
    <3>3. /\ patch' \in [Patcher -> Patch]
          /\ patched' \in [Patcher -> Seq(Line)]
      BY <2>1, <3>1 DEF ReadText
    <3>4. QED
      BY <2>1, <3>2, <3>3 DEF ReadText
  <2>2. ASSUME NEW p \in Patcher, WriteTemp(p) PROVE PatchTypeOK'
    BY <2>2 DEF WriteTemp
  <2>3. ASSUME NEW p \in Patcher, Leave(p)
        PROVE  /\ patchAt' \in [Patcher -> {"idle", "write", "replace"}]
               /\ patched' \in [Patcher -> Seq(Line)]
    BY <2>3, EmptySeq DEF Leave
  <2>4. ASSUME NEW p \in Patcher, ReplaceText(p) PROVE PatchTypeOK'
    <3>1. patch[p] \in PatchType
      BY PatchConstants
    <3>2. due_text' \in Seq(Line)
      <4>1. Reread(due_text) \in Seq(Line)
        BY RereadType DEF ReadLines
      <4>2. QED
        BY <2>4, <3>1, <4>1, ResultAsDue DEF ReplaceText
    <3>3. QED
      BY <2>3, <2>4, <3>2 DEF ReplaceText, RenameTemp
  <2>5. ASSUME NEW p \in Patcher, PatchFails(p) PROVE PatchTypeOK'
    BY <2>3, <2>5 DEF PatchFails, PatchFault
  <2>6. CASE UNCHANGED patchVars
    BY <2>6 DEF patchVars
  <2>7. QED
    BY <2>1, <2>2, <2>4, <2>5, <2>6 DEF PatchNext
<1>3. QED
  BY <1>1, <1>2, PTL DEF PatchSpec

-----------------------------------------------------------------------------
\* Every text that is read and written parses, where every patch is validated.
AllParse ==
  (\A request \in Patch : request.validate_ast)
    /\ (\A lines \in FirstText : Parses(lines))

TextsParse ==
  AllParse => /\ Parses(text)
              /\ \A p \in Patcher : patchAt[p] # "idle" => Parses(patched[p])

\* While patches take turns there is one of them, made from the file as it is.
PatchTurns ==
  /\ \A p, q \in Patcher : patchAt[p] # "idle" /\ patchAt[q] # "idle" => p = q
  /\ \A p \in Patcher : patchAt[p] # "idle" => patched[p] = Result(Reread(text), patch[p])
  /\ text = due_text

\* No text that is read or written has a line that runs on into the next.
TextsSplit ==
  ~ran_on => /\ AsSplit(text)
             /\ \A p \in Patcher : patchAt[p] # "idle" => AsSplit(patched[p])

PatchInv ==
  PatchTypeOK /\ TextsParse /\ TextsSplit /\ (~patchOverlap => PatchTurns)

\* No step makes a text that does not parse, where every patch is validated.
LEMMA ParseStays ==
  ASSUME PatchTypeOK, TextsParse, [PatchNext]_patchVars
  PROVE  TextsParse'
<1> SUFFICES ASSUME AllParse
             PROVE  /\ Parses(text')
                    /\ \A q \in Patcher :
                         patchAt'[q] # "idle" => Parses(patched'[q])
  BY DEF TextsParse, AllParse, Parses
<1>0. Parses(text) /\ \A q \in Patcher : patchAt[q] # "idle" => Parses(patched[q])
  BY DEF TextsParse
<1> USE DEF PatchTypeOK, PatchGoto
<1>1. ASSUME NEW p \in Patcher, NEW request \in Patch, ReadText(p, request)
      PROVE  /\ Parses(text')
             /\ \A q \in Patcher : patchAt'[q] # "idle" => Parses(patched'[q])
  <2>1. Parses(Result(Reread(text), request))
    BY <1>1 DEF ReadText, Applicable, ParsedAfter, Result, AllParse
  <2>2. QED
    BY <1>0, <1>1, <2>1 DEF ReadText
<1>2. ASSUME NEW p \in Patcher, WriteTemp(p)
      PROVE  /\ Parses(text')
             /\ \A q \in Patcher : patchAt'[q] # "idle" => Parses(patched'[q])
  BY <1>0, <1>2 DEF WriteTemp
<1>3. ASSUME NEW p \in Patcher, ReplaceText(p) \/ PatchFails(p)
      PROVE  /\ Parses(text')
             /\ \A q \in Patcher : patchAt'[q] # "idle" => Parses(patched'[q])
  <2>1. text' = text \/ (patchAt[p] # "idle" /\ text' = patched[p])
    BY <1>3 DEF ReplaceText, RenameTemp, PatchFails
  <2>2. \A q \in Patcher : patchAt'[q] # "idle" =>
          patchAt[q] # "idle" /\ patched'[q] = patched[q]
    BY <1>3 DEF ReplaceText, PatchFails, Leave
  <2>3. QED
    BY <1>0, <2>1, <2>2
<1>4. CASE UNCHANGED patchVars
  BY <1>0, <1>4 DEF patchVars
<1>5. QED
  BY <1>1, <1>2, <1>3, <1>4 DEF PatchNext

\* No step makes lines run on into each other, while no empty block is found
\* at the end of a file that does not end in a line feed.
LEMMA SplitStays ==
  ASSUME PatchTypeOK, TextsSplit, [PatchNext]_patchVars
  PROVE  TextsSplit'
<1> SUFFICES ASSUME ~ran_on'
             PROVE  /\ AsSplit(text')
                    /\ \A q \in Patcher :
                         patchAt'[q] # "idle" => AsSplit(patched'[q])
  BY DEF TextsSplit, AsSplit
<1>0. ~ran_on => /\ AsSplit(text)
                 /\ \A q \in Patcher :
                      patchAt[q] # "idle" => AsSplit(patched[q])
  BY DEF TextsSplit
<1> USE DEF PatchTypeOK, PatchGoto
<1>1. ASSUME NEW p \in Patcher, NEW request \in Patch, ReadText(p, request)
      PROVE  /\ AsSplit(text')
             /\ \A q \in Patcher : patchAt'[q] # "idle" => AsSplit(patched'[q])
  <2> DEFINE lines == Reread(text)
  <2>1. lines \in ReadLines
    BY RereadType
  <2>2. /\ Applicable(lines, request)
        /\ ran_on' = (ran_on \/ /\ request.target = <<>>
                                /\ lines # <<>>
                                /\ ~Ended(Last(lines)))
        /\ patched' = [patched EXCEPT ![p] = Result(lines, request)]
        /\ patchAt' = [patchAt EXCEPT ![p] = "write"]
        /\ text' = text
    BY <1>1 DEF ReadText
  <2> HIDE DEF lines
  <2>3. ~ran_on /\ ~(request.target = <<>> /\ lines # <<>> /\ ~Ended(Last(lines)))
    BY <2>2, Zenon
  <2>4. AsSplit(Result(lines, request))
    BY <2>1, <2>2, <2>3, ResultSplit
  <2>5. QED
    BY <1>0, <2>2, <2>3, <2>4
<1>2. ASSUME NEW p \in Patcher, WriteTemp(p)
      PROVE  /\ AsSplit(text')
             /\ \A q \in Patcher : patchAt'[q] # "idle" => AsSplit(patched'[q])
  BY <1>0, <1>2 DEF WriteTemp
<1>3. ASSUME NEW p \in Patcher, ReplaceText(p) \/ PatchFails(p)
      PROVE  /\ AsSplit(text')
             /\ \A q \in Patcher : patchAt'[q] # "idle" => AsSplit(patched'[q])
  <2>1. text' = text \/ (patchAt[p] # "idle" /\ text' = patched[p])
    BY <1>3 DEF ReplaceText, RenameTemp, PatchFails
  <2>2. \A q \in Patcher : patchAt'[q] # "idle" =>
          patchAt[q] # "idle" /\ patched'[q] = patched[q]
    BY <1>3 DEF ReplaceText, PatchFails, Leave
  <2>3. ran_on' = ran_on
    BY <1>3 DEF ReplaceText, PatchFails
  <2>4. QED
    BY <1>0, <2>1, <2>2, <2>3
<1>4. CASE UNCHANGED patchVars
  BY <1>0, <1>4 DEF patchVars
<1>5. QED
  BY <1>1, <1>2, <1>3, <1>4 DEF PatchNext

\* No step disturbs patches that take turns.
LEMMA TurnsStay ==
  ASSUME PatchTypeOK, ~patchOverlap => PatchTurns, [PatchNext]_patchVars,
         ~patchOverlap'
  PROVE  PatchTurns'
<1> USE DEF PatchTypeOK, PatchGoto
<1>1. ASSUME NEW p \in Patcher, NEW request \in Patch, ReadText(p, request)
      PROVE  PatchTurns'
  <2>1. /\ ~patchOverlap /\ \A q \in Patcher : patchAt[q] = "idle"
        /\ patchAt' = [patchAt EXCEPT ![p] = "write"]
        /\ patch' = [patch EXCEPT ![p] = request]
        /\ patched' = [patched EXCEPT ![p] = Result(Reread(text), request)]
        /\ UNCHANGED <<text, due_text>>
    BY <1>1 DEF ReadText
  <2>2. QED
    BY <2>1 DEF PatchTurns
<1>2. ASSUME NEW p \in Patcher, WriteTemp(p) PROVE PatchTurns'
  BY <1>2 DEF WriteTemp, PatchTurns
<1>3. ASSUME NEW p \in Patcher, ReplaceText(p) \/ PatchFails(p)
      PROVE  PatchTurns'
  <2>1. /\ ~patchOverlap /\ PatchTurns /\ patchAt[p] # "idle"
        /\ patchAt' = [patchAt EXCEPT ![p] = "idle"]
    BY <1>3 DEF ReplaceText, PatchFails, Leave
  <2>2. \A q \in Patcher : patchAt'[q] = "idle"
    BY <2>1 DEF PatchTurns
  <2>3. text' = due_text'
    <3>1. CASE ReplaceText(p)
      <4>1. patch[p] \in PatchType
        BY PatchConstants
      <4>2. text' = Result(Reread(text), patch[p])
        BY <2>1, <3>1 DEF ReplaceText, RenameTemp, PatchTurns
      <4>3. due_text' = Result(Reread(due_text), patch[p])
        <5>1. Reread(due_text) \in Seq(Line)
          BY RereadType DEF ReadLines
        <5>2. QED
          BY <3>1, <4>1, <5>1, ResultAsDue DEF ReplaceText
      <4>4. QED
        BY <2>1, <4>2, <4>3 DEF PatchTurns
    <3>2. CASE PatchFails(p)
      BY <2>1, <3>2 DEF PatchFails, PatchTurns
    <3>3. QED
      BY <1>3, <3>1, <3>2
  <2>4. QED
    BY <2>2, <2>3 DEF PatchTurns
<1>4. CASE UNCHANGED patchVars
  BY <1>4 DEF patchVars, PatchTurns
<1>5. QED
  BY <1>1, <1>2, <1>3, <1>4 DEF PatchNext

\* While patches take turns the file holds the effect of every patch that
\* succeeded, in order; no line runs on into the next unless an empty block was
\* found at the end of a file without a last line feed; and where every patch
\* is validated the file parses, whatever overlaps and fails
\* (apply_inline_patch).
THEOREM PatchesAdd == PatchSpec => []PatchesAccumulate
<1>1. PatchInit => TextsParse /\ TextsSplit /\ PatchTurns
  <2> SUFFICES ASSUME PatchInit PROVE TextsParse /\ TextsSplit /\ PatchTurns
    OBVIOUS
  <2>1. \A p \in Patcher : patchAt[p] = "idle"
    BY DEF PatchInit
  <2>2. text \in FirstText /\ text = due_text
    BY DEF PatchInit
  <2>3. AsSplit(text)
    BY <2>2, PatchConstants
  <2>4. QED
    BY <2>1, <2>2, <2>3 DEF TextsParse, AllParse, TextsSplit, PatchTurns
<1>2. PatchInv /\ PatchTypeOK' /\ [PatchNext]_patchVars => PatchInv'
  BY ParseStays, SplitStays, TurnsStay DEF PatchInv
<1>3. PatchInv => PatchesAccumulate
  BY DEF PatchInv, TextsParse, AllParse, TextsSplit, PatchTurns,
         PatchesAccumulate
<1>4. PatchInit /\ PatchTypeOK => PatchInv
  BY <1>1 DEF PatchInv
<1>5. QED
  BY <1>2, <1>3, <1>4, PatchTypeCorrect, PTL DEF PatchSpec
-----------------------------------------------------------------------------
(***************************************************************************)
(* The four of them.                                                       *)
(***************************************************************************)
\* Whichever of the components moves, all four keep their types.
THEOREM FilesTypeCorrect == FilesSpec => []FilesTypeOK
<1> DEFINE allVars == <<focus, cronVars, spoolVars, negVars, patchVars>>
<1>1. FilesInit => CronInit /\ SpoolInit /\ NegInit /\ PatchInit
  BY DEF FilesInit
<1>2. [FilesNext]_allVars => [CronNext]_cronVars
  BY DEF FilesNext
<1>3. [FilesNext]_allVars => [SpoolNext]_spoolVars
  BY DEF FilesNext
<1>4. [FilesNext]_allVars => [NegNext]_negVars
  BY DEF FilesNext
<1>5. [FilesNext]_allVars => [PatchNext]_patchVars
  BY DEF FilesNext
<1>6. CronTypeOK /\ SpoolTypeOK /\ NegTypeOK /\ PatchTypeOK => FilesTypeOK
  BY DEF FilesTypeOK
<1>7. QED
  BY <1>1, <1>2, <1>3, <1>4, <1>5, <1>6, CronTypeCorrect, SpoolTypeCorrect,
     NegTypeCorrect, PatchTypeCorrect, PTL
     DEF FilesSpec, CronSpec, SpoolSpec, NegSpec, PatchSpec
=============================================================================
