--------------------------- MODULE NegativeCache ---------------------------
(***************************************************************************)
(* The negative cache (hermes_core/circuit_breaker.py): resources that     *)
(* failed lately are not tried again until their entries expire.  Callers  *)
(* load the whole file, change their copy and write it back through one    *)
(* temporary file whose name they share.                                   *)
(***************************************************************************)
EXTENDS Integers

CONSTANTS
  Caller,        \* processes that record and clear
  Resource,      \* resource keys, as callers give them
  Stored,        \* Stored[r]: r stripped and cut, the key it is recorded under
  NegativeTTL,   \* ttl_seconds
  MaxNegClock,   \* bound of the model: the last tick of the clock
  MaxNegCalls,   \* bound of the model: how many calls change the cache
  MaxNegFaults   \* bound of the model: how many loads, saves and callers fail

ASSUME NegativeConstants ==
  /\ Stored \in [Resource -> Resource]
  /\ NegativeTTL \in Nat \ {0}
  /\ MaxNegClock \in Nat
  /\ MaxNegCalls \in Nat
  /\ MaxNegFaults \in Nat

\* A cache holds the time every entry expires; no entry is one that has
\* always expired.
Cache == [Resource -> Nat]
NoEntryAtAll == [r \in Resource |-> 0]

VARIABLES
  negClock,
  negFile,      \* negative_cache.json, as it would be loaded
  negAt,        \* per caller: what it does next
  negCopy,      \* per caller: the cache it is about to save
  negEffect,    \* per caller: the keys its call sets or clears, and to what
  negMixed,     \* per caller: another one was saving at the same time
  negCalls, negFaults, \* counters for the bounds
  negOverlap,   \* history: two calls have been under way at the same time
  recorded,     \* history: per key, the time of its latest record
  due           \* history: per key, until when its last finished call lists it

negVars == <<negClock, negFile, negAt, negCopy, negEffect, negMixed, negCalls,
             negFaults, negOverlap, recorded, due>>

\* Types of the variables; a caller whose save is mixed up with another's is
\* saving.
NegTypeOK ==
  /\ negClock \in Nat
  /\ negFile \in Cache
  /\ negAt \in [Caller -> {"idle", "change", "save"}]
  /\ negCopy \in [Caller -> Cache]
  /\ negEffect \in [Caller -> [keys : SUBSET Resource, until : Nat]]
  /\ negMixed \in [Caller -> BOOLEAN]
  /\ \A c \in Caller : negMixed[c] => negAt[c] = "save"
  /\ negCalls \in Nat
  /\ negFaults \in Nat
  /\ negOverlap \in BOOLEAN
  /\ recorded \in [Resource -> Nat]
  /\ due \in [Resource -> Nat]

NegInit ==
  /\ negClock = 1
  /\ negFile = NoEntryAtAll
  /\ negAt = [c \in Caller |-> "idle"]
  /\ negCopy = [c \in Caller |-> NoEntryAtAll]
  /\ negEffect = [c \in Caller |-> [keys |-> {}, until |-> 0]]
  /\ negMixed = [c \in Caller |-> FALSE]
  /\ negCalls = 0
  /\ negFaults = 0
  /\ negOverlap = FALSE
  /\ recorded = [r \in Resource |-> 0]
  /\ due = [r \in Resource |-> 0]
-----------------------------------------------------------------------------
NegGoto(c, stage) == negAt' = [negAt EXCEPT ![c] = stage]

NegFault ==
  /\ negFaults < MaxNegFaults
  /\ negFaults' = negFaults + 1

\* _load_negative_cache, by record_negative_cache or by clear_negative_cache of
\* one key.  What cannot be read counts as empty.
LoadCache(c) ==
  /\ negAt[c] = "idle"
  /\ negCalls < MaxNegCalls
  /\ negCalls' = negCalls + 1
  /\ \/ negCopy' = [negCopy EXCEPT ![c] = negFile] /\ UNCHANGED negFaults
     \/ NegFault /\ negCopy' = [negCopy EXCEPT ![c] = NoEntryAtAll]
  /\ NegGoto(c, "change")
  /\ negOverlap' = (negOverlap \/ \E d \in Caller : negAt[d] # "idle")
  /\ UNCHANGED <<negClock, negFile, negEffect, negMixed, recorded, due>>

\* The caller begins to save `copy`.  It may share the temporary file.
BeginSave(c, copy, keys, until) ==
  LET others == {d \in Caller \ {c} : negAt[d] = "save"}
  IN  /\ negCopy' = [negCopy EXCEPT ![c] = copy]
      /\ negEffect' = [negEffect EXCEPT ![c] = [keys |-> keys, until |-> until]]
      /\ negMixed' = [d \in Caller |-> \/ negMixed[d]
                                       \/ d \in others
                                       \/ d = c /\ others # {}]
      /\ NegGoto(c, "save")

\* Mutant: entries are pruned while they still have time to run.
PrunedEarly(cache) ==
  [r \in Resource |-> IF cache[r] > negClock + 1 THEN cache[r] ELSE 0]

\* The entries that have not expired.
Pruned(cache) == [r \in Resource |-> IF cache[r] > negClock THEN cache[r] ELSE 0]

Expiry(old) == negClock + NegativeTTL

\* record_negative_cache, after the load.
RecordResource(c, r) ==
  LET k == Stored[r]
      until == Expiry(negCopy[c][k])
  IN  /\ negAt[c] = "change"
      /\ BeginSave(c, [Pruned(negCopy[c]) EXCEPT ![k] = until], {k}, until)
      /\ recorded' = [recorded EXCEPT ![k] = negClock]
      /\ UNCHANGED <<negClock, negFile, negCalls, negFaults, negOverlap, due>>

\* clear_negative_cache of a key, after the load.  It looks for the key as it
\* is given, and saves only if the key is there.
ClearResource(c, r) ==
  /\ negAt[c] = "change"
  /\ \/ /\ negCopy[c][r] # 0
        /\ BeginSave(c, [negCopy[c] EXCEPT ![r] = 0], {r}, 0)
     \/ /\ negCopy[c][r] = 0
        /\ NegGoto(c, "idle")
        /\ UNCHANGED <<negCopy, negEffect, negMixed>>
  /\ UNCHANGED <<negClock, negFile, negCalls, negFaults, negOverlap, recorded,
                 due>>

\* clear_negative_cache of everything.
ClearAll(c) ==
  /\ negAt[c] = "idle"
  /\ negCalls < MaxNegCalls
  /\ negCalls' = negCalls + 1
  /\ BeginSave(c, NoEntryAtAll, Resource, 0)
  /\ negOverlap' = (negOverlap \/ \E d \in Caller : negAt[d] # "idle")
  /\ UNCHANGED <<negClock, negFile, negFaults, recorded, due>>

\* What the file may hold once a save is over.  A save that shared the
\* temporary file may have put its copy or another one in place, found the
\* temporary file gone, or damaged the file, which then reads as empty.
Saved(c) ==
  IF negMixed[c]
    THEN {negFile, NoEntryAtAll} \cup
           {negCopy[d] : d \in {x \in Caller : negAt[x] = "save"}}
    ELSE {negCopy[c]}

NegReturn(c) ==
  /\ NegGoto(c, "idle")
  /\ negCopy' = [negCopy EXCEPT ![c] = NoEntryAtAll]
  /\ negEffect' = [negEffect EXCEPT ![c] = [keys |-> {}, until |-> 0]]
  /\ negMixed' = [negMixed EXCEPT ![c] = FALSE]

\* _save_negative_cache.
SaveCache(c) ==
  /\ negAt[c] = "save"
  /\ negFile' \in Saved(c)
  /\ due' = [r \in Resource |-> IF r \in negEffect[c].keys
                                  THEN negEffect[c].until ELSE due[r]]
  /\ NegReturn(c)
  /\ UNCHANGED <<negClock, negCalls, negFaults, negOverlap, recorded>>

\* The save fails or the process dies before the file is replaced.
LoseCall(c) ==
  /\ negAt[c] # "idle"
  /\ NegFault
  /\ NegReturn(c)
  /\ UNCHANGED <<negClock, negFile, negCalls, negOverlap, recorded, due>>

NegTick ==
  /\ negClock < MaxNegClock
  /\ negClock' = negClock + 1
  /\ UNCHANGED <<negFile, negAt, negCopy, negEffect, negMixed, negCalls,
                 negFaults, negOverlap, recorded, due>>

NegNext ==
  \/ \E c \in Caller :
       \/ LoadCache(c) \/ ClearAll(c) \/ SaveCache(c) \/ LoseCall(c)
       \/ \E r \in Resource : RecordResource(c, r) \/ ClearResource(c, r)
  \/ NegTick

NegSpec == NegInit /\ [][NegNext]_negVars
-----------------------------------------------------------------------------
\* check_negative_cache: the key is looked up as it is given.
Blocked(r) == negClock < negFile[r]

\* However callers overlap and fail, a resource is blocked only within the
\* time to live of a record made under that key: no block outlasts its last
\* failure, and a damaged file blocks nothing.  And while callers take turns
\* and neither they nor the file fail, a record or a clearing that has returned
\* holds: the key is blocked until its entry runs out if it was recorded last,
\* and not if it was cleared last, whatever other keys were recorded, pruned
\* or cleared meanwhile.
BlocksAreEarned ==
  \A r \in Resource :
    /\ Blocked(r) => recorded[r] > 0 /\ negClock < recorded[r] + NegativeTTL
    /\ /\ ~negOverlap /\ negFaults = 0
       /\ \A c \in Caller : r \notin negEffect[c].keys
       => (Blocked(r) <=> negClock < due[r])
=============================================================================
