------------------------- MODULE HaosGuardianProofs -------------------------
(***************************************************************************)
(* What holds of the guardian for any files, tokens and edits, and any     *)
(* number of crashes and failed reads and writes.                          *)
(***************************************************************************)
EXTENDS HaosGuardian, TLAPS

\* The locals of the cycle: index names a file while one is worked on, and
\* what was read of it is a content where the code uses it as one.
LocalsOK ==
  /\ pc \in {"token", "adopt", "manifest_write", "sig_write", "rollback",
             "opening", "copying"} => index \in 1 .. Len(FileOrder)
  /\ pc \in {"adopt", "copying"} => seen.src \in Content

Typed == TypeOK /\ LocalsOK

LEMMA LengthNatural == Len(FileOrder) \in Nat
BY GuardianConstants

LEMMA CurrentIsFile ==
  ASSUME index \in 1 .. Len(FileOrder)
  PROVE  current \in File
BY GuardianConstants DEF current

LEMMA ManifestTyped ==
  ASSUME snap \in [File -> Content \cup {"absent"}],
         expected_self_hash \in {"genuine", NoHash},
         NEW unread
  PROVE  CurrentManifest(unread) \in Manifest
<1> DEFINE F == {g \in File \ unread : snap[g] # "absent"}
<1>1. F \in SUBSET File
  OBVIOUS
<1>2. [f \in F |-> snap[f]] \in [F -> Content]
  OBVIOUS
<1>3. [f \in F |-> snap[f]] \in UNION {[G -> Content] : G \in SUBSET File}
  BY <1>1, <1>2
<1>4. QED
  BY <1>3 DEF CurrentManifest, Manifest

\* What the steps that look at a file may find: hashes, and what they do next.
LEMMA HashedTyped ==
  ASSUME Typed, index \in 1 .. Len(FileOrder),
         NEW src \in Content \cup {NoHash}, NEW sn \in Content \cup {NoHash},
         Hashed(src, sn)
  PROVE  /\ index' \in 1 .. Len(FileOrder) + 1
         /\ seen' \in [src : Content \cup {NoHash}, snap : Content \cup {NoHash}]
         /\ has_error' \in BOOLEAN
         /\ pc' \in {"file", "token"}
         /\ pc' = "token" => index' = index
         /\ ~has_error' => ~has_error
<1>1. has_error' \in BOOLEAN /\ (~has_error' => ~has_error)
  BY Zenon DEF Hashed, NextFile, Typed, TypeOK
<1>2. index' \in 1 .. Len(FileOrder) + 1
  BY LengthNatural DEF Hashed, NextFile, Typed, TypeOK
<1>3. QED
  BY <1>1, <1>2 DEF Hashed, NextFile, NothingSeen, Typed, TypeOK

LEMMA HashOfTyped ==
  ASSUME NEW v PROVE HashOf(v) \in Content \cup {NoHash}
BY DEF HashOf

LEMMA CopiesTyped ==
  ASSUME Typed, index \in 1 .. Len(FileOrder), seen.src \in Content,
         NEW c, Copies(c)
  PROVE  /\ snap' \in [File -> Content \cup {"absent"}]
         /\ index' \in 1 .. Len(FileOrder) + 1
         /\ seen' \in [src : Content \cup {NoHash}, snap : Content \cup {NoHash}]
         /\ has_error' \in BOOLEAN
         /\ \/ pc' = "manifest_write" /\ UNCHANGED <<index, seen, has_error>>
               /\ snap' = [snap EXCEPT ![current] = seen.src]
            \/ pc' = "file" /\ has_error' /\ UNCHANGED snap
<1>1. has_error' \in BOOLEAN
  BY Zenon DEF Copies, GoTo, NextFile, Typed, TypeOK
<1>2. snap' \in [File -> Content \cup {"absent"}]
  BY CurrentIsFile DEF Copies, Typed, TypeOK
<1>3. index' \in 1 .. Len(FileOrder) + 1
  BY LengthNatural DEF Copies, GoTo, NextFile, Typed, TypeOK
<1>4. QED
  BY <1>1, <1>2, <1>3 DEF Copies, GoTo, NextFile, NothingSeen, Typed, TypeOK

LEMMA ConsumesTyped ==
  ASSUME Typed, NEW t \in Tokens, Consumes(t)
  PROVE  /\ approvals' \subseteq Tokens
         /\ consumed' \subseteq Tokens
         /\ cache' \subseteq Tokens
         /\ errors' \in Nat
         /\ misreads' \in Nat
BY DEF Consumes, Listed, Failed, Typed, TypeOK

LEMMA InitTyped == Init => Typed
<1> SUFFICES ASSUME Init PROVE Typed
  OBVIOUS
<1>1. core \in [File -> Content \cup Broken]
  BY DEF Init
<1>3. index \in 1 .. Len(FileOrder) + 1
  BY GuardianConstants DEF Init
<1>4. manifest \in Manifest \cup {NoManifest}
  BY GuardianConstants DEF Init
<1>5. seen \in [src : Content \cup {NoHash}, snap : Content \cup {NoHash}]
  BY DEF Init, NothingSeen
<1>6. QED
  BY <1>1, <1>3, <1>4, <1>5, GuardianConstants
     DEF Init, Typed, TypeOK, LocalsOK, GuardianState

LEMMA StepTyped == Typed /\ [Next]_vars => Typed'
<1> SUFFICES ASSUME Typed, [Next]_vars PROVE Typed'
  OBVIOUS
<1> USE LengthNatural DEF Typed, TypeOK, LocalsOK, faults
<1>0. Failed => errors' \in Nat
  BY DEF Failed
<1>1. CASE BeginCycle
  BY <1>1 DEF BeginCycle, GoTo, disk
<1>2. CASE CheckUnlock
  <2>1. /\ approvals' \subseteq Tokens /\ consumed' \subseteq Tokens
        /\ cache' \subseteq Tokens /\ errors' \in Nat /\ misreads' \in Nat
    BY <1>2, ConsumesTyped DEF CheckUnlock, ValidUnlocks
  <2>2. uses' \in [Tokens -> Nat]
    BY <1>2 DEF CheckUnlock, ValidUnlocks
  <2>3. QED
    BY <1>2, <2>1, <2>2 DEF CheckUnlock, GoTo, EndCycle, GuardianState
<1>3. CASE VerifyManifest
  <2>1. expected_self_hash' \in {"genuine", NoHash}
    BY <1>3 DEF VerifyManifest, Manifest
  <2>2. QED
    BY <1>3, <2>1 DEF VerifyManifest, GoTo, EndCycle, GuardianState, disk
<1>4. CASE VerifySelf
  <2>1. has_error' \in BOOLEAN
    BY <1>4, Zenon DEF VerifySelf, EndCycle
  <2>2. QED
    BY <1>4, <2>1 DEF VerifySelf, EndCycle, GuardianState, disk
<1>5. CASE Inspect
  <2>1. index \in 1 .. Len(FileOrder) /\ current \in File
    BY <1>5, CurrentIsFile DEF Inspect
  <2>2. /\ UNCHANGED <<clock, disk, cache, expected_self_hash, uses, crashes, errors,
                       misreads, damaged, torn>>
        /\ state' \in GuardianState
        /\ unreadable' \in BOOLEAN
    BY <1>5 DEF Inspect, LockAndGoOn, GuardianState
  <2>3. CASE LockAndGoOn \/ NextFile(FALSE)
    <3>1. has_error' \in BOOLEAN
      BY <2>3, Zenon DEF LockAndGoOn, NextFile
    <3>2. QED
      BY <2>1, <2>2, <2>3, <3>1 DEF LockAndGoOn, NextFile, NothingSeen, disk
  <2>4. CASE snap[current] # "absent" /\ RestoreFrom(snap[current])
    BY <2>1, <2>2, <2>4 DEF RestoreFrom, disk
  <2>5. CASE snap[current] # "absent" /\ Hashed(HashOf(core[current]), snap[current])
    BY <2>1, <2>2, <2>5, HashedTyped, HashOfTyped DEF disk
  <2>6. CASE GoTo("opening")
    BY <2>1, <2>2, <2>6 DEF GoTo, disk
  <2>7. QED
    BY <1>5, <2>3, <2>4, <2>5, <2>6 DEF Inspect
<1>21. CASE InspectFails
  <2>1. index \in 1 .. Len(FileOrder) /\ current \in File
    BY <1>21, CurrentIsFile DEF InspectFails
  <2>2. /\ UNCHANGED <<clock, disk, cache, expected_self_hash, uses, crashes,
                       misreads, damaged, torn>>
        /\ state' \in GuardianState
        /\ unreadable' \in BOOLEAN
        /\ errors' \in Nat
    <3>1. errors' \in Nat
      BY <1>0, <1>21 DEF InspectFails
    <3>2. state' \in GuardianState
      BY <1>21 DEF InspectFails, LockAndGoOn, GuardianState
    <3>3. unreadable' \in BOOLEAN
      BY <1>21, Zenon DEF InspectFails, LockAndGoOn
    <3>4. QED
      BY <1>21, <3>1, <3>2, <3>3 DEF InspectFails
  <2>3. CASE LockAndGoOn \/ NextFile(FALSE) \/ NextFile(TRUE)
    <3>1. has_error' \in BOOLEAN
      BY <2>3, Zenon DEF LockAndGoOn, NextFile
    <3>2. QED
      BY <2>1, <2>2, <2>3, <3>1 DEF LockAndGoOn, NextFile, NothingSeen, disk
  <2>4. CASE RestoreFrom(NoHash)
    BY <2>1, <2>2, <2>4 DEF RestoreFrom, disk
  <2>5. ASSUME snap[current] # "absent",
               NEW src \in {HashOf(core[current]), NoHash},
               NEW sn \in {snap[current], NoHash}, Hashed(src, sn)
        PROVE  Typed'
    <3>1. src \in Content \cup {NoHash} /\ sn \in Content \cup {NoHash}
      BY <2>1, <2>5, HashOfTyped
    <3>2. QED
      BY <2>1, <2>2, <2>5, <3>1, HashedTyped DEF disk
  <2>6. QED
    BY <1>21, <2>3, <2>4, <2>5 DEF InspectFails
<1>22. CASE VerifyFails
  <2>1. expected_self_hash' \in {"genuine", NoHash}
    BY <1>22 DEF VerifyFails, Manifest
  <2>2. QED
    <3>1. errors' \in Nat
      BY <1>0, <1>22 DEF VerifyFails
    <3>2. unreadable' \in BOOLEAN
      BY <1>22, Zenon DEF VerifyFails
    <3>3. QED
      BY <1>22, <2>1, <3>1, <3>2 DEF VerifyFails, EndCycle, GuardianState, disk
<1>6. CASE TakeApproval
  <2>1. /\ approvals' \subseteq Tokens /\ consumed' \subseteq Tokens
        /\ cache' \subseteq Tokens /\ errors' \in Nat /\ misreads' \in Nat
    BY <1>6, ConsumesTyped DEF TakeApproval, ValidApprovals
  <2>2. uses' \in [Tokens -> Nat]
    BY <1>6 DEF TakeApproval, ValidApprovals
  <2>3. pc' = "adopt" => seen.src \in Content
    <3>1. \A t \in Approvals : t.hash \in Content
      BY GuardianConstants DEF ApproveToken
    <3>2. QED
      BY <1>6, <3>1 DEF TakeApproval, GoTo, ValidApprovals
  <2>4. QED
    BY <1>6, <2>1, <2>2, <2>3 DEF TakeApproval, GoTo
<1>7. CASE ConsumeFails
  <2>1. cache' \subseteq Tokens
    BY <1>7 DEF ConsumeFails, ValidApprovals, ValidUnlocks
  <2>2. LocalsOK'
    BY <1>7 DEF ConsumeFails, GoTo, EndCycle, locals
  <2>3. QED
    BY <1>7, <2>1, <2>2 DEF ConsumeFails, Failed, GoTo, EndCycle, disk, locals
<1>8. CASE AdoptSnapshot
  <2>1. /\ index \in 1 .. Len(FileOrder) /\ seen.src \in Content
        /\ UNCHANGED <<clock, core, manifest, sig, script, approvals, consumed,
                       cache, state, expected_self_hash, uses, crashes, misreads,
                       damaged, unreadable, torn>>
        /\ errors' \in Nat
    BY <1>0, <1>8 DEF AdoptSnapshot
  <2>2. CASE Copies(core[current])
    BY <2>1, <2>2, CopiesTyped
  <2>3. CASE GoTo("copying") /\ UNCHANGED snap
    BY <2>1, <2>3 DEF GoTo
  <2>4. CASE NextFile(TRUE) /\ UNCHANGED snap
    <3>1. has_error' \in BOOLEAN
      BY <2>4, Zenon DEF NextFile
    <3>2. QED
      BY <2>1, <2>4, <3>1 DEF NextFile, NothingSeen
  <2>5. QED
    BY <1>8, <2>2, <2>3, <2>4 DEF AdoptSnapshot
<1>23. CASE WriteToPipe
  <2>1. /\ index \in 1 .. Len(FileOrder) /\ current \in File
        /\ UNCHANGED <<clock, core, manifest, sig, script, approvals, consumed,
                       cache, state, expected_self_hash, uses, faults>>
    BY <1>23, CurrentIsFile DEF WriteToPipe
  <2>2. ASSUME NEW c \in Content, Hashed(c, HashOf(snap[current])), UNCHANGED snap
        PROVE  Typed'
    BY <2>1, <2>2, HashedTyped, HashOfTyped
  <2>3. ASSUME NEW c \in Content, pc = "copying", Copies(c)
        PROVE  Typed'
    BY <2>1, <2>3, CopiesTyped
  <2>4. CASE NextFile(TRUE) /\ UNCHANGED snap
    <3>1. has_error' \in BOOLEAN
      BY <2>4, Zenon DEF NextFile
    <3>2. QED
      BY <2>1, <2>4, <3>1 DEF NextFile, NothingSeen
  <2>5. QED
    BY <1>23, <2>2, <2>3, <2>4 DEF WriteToPipe
<1>9. CASE ReplaceManifest
  <2>1. manifest' \in Manifest \cup {NoManifest}
    <3>1. \A unread : CurrentManifest(unread) \in Manifest
      BY ManifestTyped
    <3>2. QED
      <4>1. \/ \E unread : manifest' = CurrentManifest(unread)
            \/ UNCHANGED manifest
        BY <1>9, Zenon DEF ReplaceManifest
      <4>2. QED
        BY <3>1, <4>1
  <2>2. has_error' \in BOOLEAN /\ torn' \in BOOLEAN
    BY <1>9, Zenon DEF ReplaceManifest, GoTo, NextFile
  <2>3. QED
    BY <1>9, <2>1, <2>2 DEF ReplaceManifest, Failed, GoTo, NextFile, NothingSeen
<1>10. CASE ReplaceSignature
  <2>1. has_error' \in BOOLEAN /\ torn' \in BOOLEAN
    BY <1>10, Zenon DEF ReplaceSignature, NextFile
  <2>2. QED
    BY <1>10, <2>1 DEF ReplaceSignature, Failed, NextFile, NothingSeen
<1>11. CASE Rollback
  <2>1. core' \in [File -> Content \cup Broken]
    BY <1>11, CurrentIsFile, GuardianConstants DEF Rollback, Restorable
  <2>2. has_error' \in BOOLEAN
    BY <1>11, Zenon DEF Rollback, NextFile
  <2>3. QED
    BY <1>11, <2>1, <2>2 DEF Rollback, Failed, NextFile, NothingSeen
<1>12. CASE FinishCycle
  BY <1>12 DEF FinishCycle, EndCycle, GuardianState, disk
<1>13. CASE Crash
  <2>1. index' \in 1 .. Len(FileOrder) + 1
    BY <1>13 DEF Crash
  <2>2. has_error' \in BOOLEAN /\ torn' \in BOOLEAN
    BY <1>13, Zenon DEF Crash
  <2>3. QED
    <3>1. cache' \subseteq Tokens
      BY <1>13 DEF Crash
    <3>2. state' \in GuardianState /\ expected_self_hash' \in {"genuine", NoHash}
      BY <1>13 DEF Crash, GuardianState
    <3>3. /\ seen' \in [src : Content \cup {NoHash}, snap : Content \cup {NoHash}]
          /\ crashes' \in Nat
          /\ pc' = "idle"
          /\ UNCHANGED <<clock, disk, uses, errors, misreads, damaged>>
      BY <1>13 DEF Crash, NothingSeen
    <3>4. unreadable' \in BOOLEAN
      BY <1>13, Zenon DEF Crash
    <3>5. QED
      BY <2>1, <2>2, <3>1, <3>2, <3>3, <3>4 DEF disk
<1>14. CASE EditCore
  <2>1. core' \in [File -> Content \cup Broken]
    BY <1>14, GuardianConstants DEF EditCore
  <2>2. QED
    BY <1>14, <2>1 DEF EditCore, locals
<1>15. CASE PlaceToken
  BY <1>15 DEF PlaceToken, locals
<1>16. CASE InstallBaseline
  BY <1>16, GuardianConstants DEF InstallBaseline, locals
<1>17. CASE Damage
  <2>1. snap' \in [File -> Content \cup {"absent"}]
    BY <1>17, GuardianConstants DEF Damage
  <2>2. script' \in {"genuine", "changed"} /\ damaged' \subseteq File
    BY <1>17, GuardianConstants DEF Damage
  <2>3. QED
    BY <1>17, <2>1, <2>2 DEF Damage, locals
<1>18. CASE Tick
  BY <1>18 DEF Tick, disk, locals
<1>19. CASE UNCHANGED vars
  BY <1>19 DEF vars, disk, locals
<1>20. QED
  BY <1>1, <1>2, <1>3, <1>4, <1>5, <1>6, <1>7, <1>8, <1>9, <1>10, <1>11,
     <1>12, <1>13, <1>14, <1>15, <1>16, <1>17, <1>18, <1>19, <1>21, <1>22, <1>23
     DEF Next, GuardianStep

LEMMA AlwaysTyped == Spec => []Typed
BY InitTyped, StepTyped, PTL DEF Spec

\* Types, for any files, tokens and faults.
THEOREM GuardianTypeCorrect == Spec => []TypeOK
<1>1. Typed => TypeOK
  BY DEF Typed
<1>2. QED
  BY <1>1, AlwaysTyped, PTL
-----------------------------------------------------------------------------
(***************************************************************************)
(* Baselines: the content being adopted has been approved by a token that  *)
(* has taken effect, and that it has is never forgotten.                   *)
(***************************************************************************)

AdoptsApproved ==
  pc \in {"adopt", "copying"} =>
    \E t \in Approvals :
      uses[t] > 0 /\ t.authentic /\ t.file = current /\ t.hash = seen.src

Baseline == BaselineIsApproved /\ AdoptsApproved

LEMMA UsesGrow ==
  ASSUME Typed, [Next]_vars
  PROVE  \A t \in Tokens : uses[t] > 0 => uses'[t] > 0
<1>1. CASE UNCHANGED uses
  BY <1>1
<1>2. ASSUME NEW t \in Tokens, uses' = [uses EXCEPT ![t] = @ + 1]
      PROVE  \A u \in Tokens : uses[u] > 0 => uses'[u] > 0
  BY <1>2 DEF Typed, TypeOK
<1>3. CASE CheckUnlock
  BY <1>1, <1>2, <1>3 DEF CheckUnlock, ValidUnlocks, Tokens
<1>4. CASE TakeApproval
  BY <1>1, <1>2, <1>4 DEF TakeApproval, ValidApprovals, Tokens
<1>5. QED
  BY <1>1, <1>3, <1>4
     DEF Next, GuardianStep, vars, BeginCycle, VerifyManifest, VerifySelf,
         VerifyFails, Inspect, InspectFails, ConsumeFails, AdoptSnapshot,
         ReplaceManifest, ReplaceSignature, Rollback, FinishCycle, Crash,
         EditCore, WriteToPipe, PlaceToken, InstallBaseline, Damage, Tick

\* A step that is not listed in Baseline's proof: it leaves the snapshots
\* alone, and the file it works on too unless it ends the adoption.
LEMMA OtherStepsKeepSnapshots ==
  ASSUME [Next]_vars, ~TakeApproval, ~AdoptSnapshot, ~WriteToPipe, ~Damage
  PROVE  /\ UNCHANGED <<snap, damaged>>
         /\ pc' \in {"adopt", "copying"} => UNCHANGED <<pc, index, seen>>
<1> USE DEF disk, locals, faults
<1>1. CASE BeginCycle \/ CheckUnlock \/ VerifyManifest \/ VerifySelf \/ VerifyFails
  BY <1>1 DEF BeginCycle, CheckUnlock, VerifyManifest, VerifySelf, VerifyFails,
              GoTo, EndCycle
<1>2. CASE Inspect \/ InspectFails \/ ConsumeFails
  BY <1>2 DEF Inspect, InspectFails, ConsumeFails, NextFile, GoTo, Hashed,
              RestoreFrom, LockAndGoOn, EndCycle
<1>3. CASE ReplaceManifest \/ ReplaceSignature
  BY <1>3 DEF ReplaceManifest, ReplaceSignature, GoTo, NextFile
<1>4. CASE Rollback \/ FinishCycle \/ Crash
  BY <1>4 DEF Rollback, FinishCycle, Crash, NextFile, EndCycle
<1>5. CASE EditCore \/ PlaceToken \/ InstallBaseline \/ Tick \/ UNCHANGED vars
  BY <1>5 DEF EditCore, PlaceToken, InstallBaseline, Tick, vars
<1>6. QED
  BY <1>1, <1>2, <1>3, <1>4, <1>5 DEF Next, GuardianStep

LEMMA BaselineStep == Typed /\ Baseline /\ [Next]_vars => Baseline'
<1> SUFFICES ASSUME Typed, Baseline, [Next]_vars PROVE Baseline'
  OBVIOUS
<1>1. \A f, hash : Approved(f, hash) => Approved(f, hash)'
  BY UsesGrow DEF Approved, Tokens
<1>2. CASE TakeApproval
  <2>1. BaselineIsApproved'
    BY <1>1, <1>2 DEF Baseline, BaselineIsApproved, TakeApproval
  <2>2. ASSUME NEW t \in ValidApprovals(current, seen.src),
               uses' = [uses EXCEPT ![t] = @ + 1], GoTo("adopt")
        PROVE  AdoptsApproved'
    <3>1. t \in Approvals /\ t.authentic /\ t.file = current /\ t.hash = seen.src
      BY DEF ValidApprovals
    <3>2. uses'[t] > 0
      BY <2>2, <3>1 DEF Typed, TypeOK, Tokens
    <3>3. UNCHANGED <<current, seen>>
      BY <2>2 DEF GoTo, current
    <3>4. QED
      BY <3>1, <3>2, <3>3 DEF AdoptsApproved
  <2>3. pc' = "rollback" => AdoptsApproved'
    BY DEF AdoptsApproved
  <2>4. QED
    BY <1>2, <2>1, <2>2, <2>3 DEF Baseline, TakeApproval, GoTo
<1>3. CASE AdoptSnapshot \/ WriteToPipe
  <2>1. UNCHANGED <<uses, damaged>>
    BY <1>3 DEF AdoptSnapshot, WriteToPipe, faults
  <2>2. snap \in [File -> Content \cup {"absent"}]
    BY DEF Typed, TypeOK
  <2>3. ASSUME NEW c, pc \in {"adopt", "copying"}, Copies(c)
        PROVE  Baseline'
    <3>1. /\ pc' \notin {"adopt", "copying"}
          /\ snap' = [snap EXCEPT ![current] = seen.src] \/ snap' = snap
      BY <2>3 DEF Copies, GoTo, NextFile
    <3>2. Approved(current, seen.src)
      BY <2>3 DEF Baseline, AdoptsApproved, Approved
    <3>3. BaselineIsApproved'
      BY <1>1, <2>1, <2>2, <3>1, <3>2 DEF Baseline, BaselineIsApproved
    <3>4. QED
      BY <3>1, <3>3 DEF Baseline, AdoptsApproved
  <2>4. CASE /\ UNCHANGED snap
             /\ \/ pc = "adopt" /\ GoTo("copying")
                \/ pc' \in {"file", "token"}
    <3>1. BaselineIsApproved'
      BY <1>1, <2>1, <2>4 DEF Baseline, BaselineIsApproved
    <3>2. QED
      BY <2>1, <2>4, <3>1 DEF Baseline, AdoptsApproved, GoTo, current
  <2>5. QED
    BY <1>3, <2>3, <2>4 DEF AdoptSnapshot, WriteToPipe, Hashed, NextFile
<1>4. CASE Damage
  <2>1. snap \in [File -> Content \cup {"absent"}]
    BY DEF Typed, TypeOK
  <2>2. BaselineIsApproved'
    BY <1>1, <1>4, <2>1 DEF Baseline, BaselineIsApproved, Damage
  <2>3. QED
    BY <1>4, <2>2 DEF Baseline, AdoptsApproved, Damage, locals, current
<1>5. CASE ~TakeApproval /\ ~AdoptSnapshot /\ ~WriteToPipe /\ ~Damage
  <2>1. /\ UNCHANGED <<snap, damaged>>
        /\ pc' \in {"adopt", "copying"} => UNCHANGED <<pc, index, seen>>
    BY <1>5, OtherStepsKeepSnapshots
  <2>2. BaselineIsApproved'
    BY <1>1, <2>1 DEF Baseline, BaselineIsApproved
  <2>3. AdoptsApproved'
    BY <2>1, UsesGrow DEF Baseline, AdoptsApproved, current, Tokens
  <2>4. QED
    BY <2>2, <2>3 DEF Baseline
<1>6. QED
  BY <1>2, <1>3, <1>4, <1>5

\* What files are rolled back to was snapshotted by the operator or signed by
\* a human, for any interleaving of edits, tokens, crashes and failed writes.
THEOREM BaselinesAreApproved == Spec => []BaselineIsApproved
<1>1. Init => Baseline
  BY DEF Init, Baseline, BaselineIsApproved, AdoptsApproved, Approved
<1>2. Baseline => BaselineIsApproved
  BY DEF Baseline
<1>3. QED
  BY <1>1, <1>2, BaselineStep, AlwaysTyped, PTL DEF Spec
-----------------------------------------------------------------------------
(***************************************************************************)
(* Tokens: one that has taken effect is in consumed_tokens.json, or the     *)
(* list has been lost once more since.                                     *)
(***************************************************************************)

UsesInv ==
  \A t \in Tokens : uses[t] <= misreads + (IF t \in consumed THEN 1 ELSE 0)

LEMMA UsesStep == Typed /\ UsesInv /\ [Next]_vars => UsesInv'
<1> SUFFICES ASSUME Typed, UsesInv, [Next]_vars PROVE UsesInv'
  OBVIOUS
<1>1. uses \in [Tokens -> Nat] /\ misreads \in Nat
  BY DEF Typed, TypeOK
<1>2. CASE UNCHANGED <<uses, misreads, consumed>>
  BY <1>2 DEF UsesInv
<1>3. ASSUME NEW t \in Tokens, Consumes(t), uses' = [uses EXCEPT ![t] = @ + 1]
      PROVE  UsesInv'
  <2>1. CASE misreads' = misreads /\ t \notin consumed /\ consumed' = consumed \cup {t}
    BY <1>1, <1>3, <2>1 DEF UsesInv
  <2>2. CASE misreads' = misreads + 1 /\ consumed' = {t}
    BY <1>1, <1>3, <2>2 DEF UsesInv
  <2>3. QED
    BY <1>3, <2>1, <2>2 DEF Consumes, Listed
<1>4. CASE CheckUnlock
  BY <1>2, <1>3, <1>4 DEF CheckUnlock, ValidUnlocks, Tokens
<1>5. CASE TakeApproval
  BY <1>2, <1>3, <1>5 DEF TakeApproval, ValidApprovals, Tokens
<1>6. QED
  BY <1>2, <1>4, <1>5
     DEF Next, GuardianStep, vars, disk, faults, BeginCycle, VerifyManifest,
         VerifySelf, VerifyFails, Inspect, InspectFails, ConsumeFails,
         AdoptSnapshot, ReplaceManifest, ReplaceSignature, Rollback,
         FinishCycle, Crash, EditCore, WriteToPipe, PlaceToken,
         InstallBaseline, Damage, Tick

\* A token, placed again after a crash or not, takes effect again only after
\* the list of consumed tokens was lost to a failed read.
THEOREM TokensUsedOnce == Spec => []TokenUsedOnce
<1>1. Init => UsesInv
  BY DEF Init, UsesInv
<1>2. Typed /\ UsesInv => TokenUsedOnce
  BY DEF UsesInv, TokenUsedOnce, Typed, TypeOK
<1>3. QED
  BY <1>1, <1>2, UsesStep, AlwaysTyped, PTL DEF Spec
-----------------------------------------------------------------------------
(***************************************************************************)
(* Trust: between an adoption and the signing of its manifest the three    *)
(* files on disk disagree, and at no other time unless an update was cut   *)
(* short.                                                                  *)
(***************************************************************************)

\* A cycle that has verified the manifest is under way.
Verified ==
  pc \in {"self", "file", "token", "adopt", "manifest_write", "sig_write",
          "rollback", "opening", "copying"}

\* The snapshots that nobody damaged are those the manifest lists.
UndamagedMatch ==
  \A f \in DOMAIN manifest.files \ damaged : snap[f] = manifest.files[f]

\* The baselines are of the snapshots the operator made.
BaselinesMatch ==
  \A m \in Baselines : \A f \in DOMAIN m.files : m.files[f] = InitialSnap[f]

\* Manifest and signature come and go together; what a verified cycle knows.
ManifestInv ==
  /\ manifest = NoManifest <=> sig = NoManifest
  /\ Verified => /\ manifest # NoManifest
                 /\ manifest.guardian \in {"genuine"} \ {NoHash}
                 /\ expected_self_hash = manifest.guardian

\* A cycle in which nothing has failed leaves manifest, signature and
\* snapshots in agreement, except while it updates them.
TrustInv ==
  Verified /\ (pc = "self" \/ ~has_error) =>
    /\ pc # "sig_write" => sig = manifest
    /\ pc # "manifest_write" => UndamagedMatch

\* The same of the disk, between cycles too, until an update is cut short.
DiskInv ==
  /\ sig # manifest => pc = "sig_write" \/ torn
  /\ manifest = NoManifest =>
       \A f \in File \ damaged : snap[f] = InitialSnap[f]
  /\ manifest # NoManifest =>
       pc = "manifest_write" \/ torn \/ UndamagedMatch

TrustedInv == ManifestInv /\ TrustInv

\* The steps that write neither snapshot, manifest nor signature, nor verify
\* them, nor lose the cycle.
Quiet ==
  \/ BeginCycle \/ CheckUnlock \/ VerifySelf \/ Inspect \/ InspectFails
  \/ TakeApproval \/ ConsumeFails \/ Rollback \/ FinishCycle \/ EditCore \/ PlaceToken \/ Tick
  \/ UNCHANGED vars

LEMMA QuietStep ==
  ASSUME Quiet
  PROVE  /\ UNCHANGED <<manifest, sig, snap, damaged, torn, expected_self_hash>>
         /\ pc' # pc => {pc, pc'} \cap {"manifest_write", "sig_write"} = {}
         /\ Verified' => Verified
         /\ pc' = "self" => pc = "self"
         /\ Verified' /\ ~has_error' => pc = "self" \/ ~has_error
<1> USE DEF disk, locals, faults, Verified
<1>1. CASE BeginCycle \/ CheckUnlock
  BY <1>1 DEF BeginCycle, CheckUnlock, GoTo, EndCycle
<1>2. CASE VerifySelf
  BY <1>2 DEF VerifySelf, EndCycle
<1>3. CASE Inspect \/ InspectFails
  <2>1. /\ pc = "file"
        /\ pc' \in {"file", "token", "rollback", "opening"}
        /\ UNCHANGED <<manifest, sig, snap, damaged, torn, expected_self_hash>>
    BY <1>3 DEF Inspect, InspectFails, NextFile, GoTo, Hashed, RestoreFrom,
                LockAndGoOn
  <2>2. ~has_error' => ~has_error
    BY <1>3, Zenon DEF Inspect, InspectFails, NextFile, GoTo, Hashed,
                       RestoreFrom, LockAndGoOn
  <2>3. QED
    BY <2>1, <2>2
<1>4. CASE TakeApproval
  BY <1>4 DEF TakeApproval, GoTo
<1>5. CASE ConsumeFails
  BY <1>5 DEF ConsumeFails, GoTo, EndCycle
<1>6. CASE Rollback
  BY <1>6 DEF Rollback, Failed, NextFile
<1>7. CASE FinishCycle
  BY <1>7 DEF FinishCycle, EndCycle
<1>8. CASE EditCore \/ PlaceToken \/ Tick \/ UNCHANGED vars
  BY <1>8 DEF EditCore, PlaceToken, Tick, vars
<1>9. QED
  BY <1>1, <1>2, <1>3, <1>4, <1>5, <1>6, <1>7, <1>8 DEF Quiet

LEMMA OtherSteps ==
  [Next]_vars <=>
    \/ Quiet \/ VerifyManifest \/ VerifyFails \/ AdoptSnapshot \/ WriteToPipe
    \/ ReplaceManifest \/ ReplaceSignature \/ Crash \/ InstallBaseline \/ Damage
BY DEF Next, GuardianStep, Quiet

\* What a snapshot is replaced in.
LEMMA AdoptionStep ==
  ASSUME AdoptSnapshot \/ WriteToPipe
  PROVE  /\ pc \in {"adopt", "copying", "opening"}
         /\ UNCHANGED <<sig, manifest, expected_self_hash, damaged, torn>>
         /\ \/ pc' = "file" /\ UNCHANGED snap /\ (~has_error' => ~has_error)
            \/ pc' = "manifest_write" /\ UNCHANGED has_error
            \/ pc' \in {"copying", "token"} /\ UNCHANGED <<snap, has_error>>
<1>1. /\ pc \in {"adopt", "copying", "opening"}
      /\ UNCHANGED <<sig, manifest, expected_self_hash, damaged, torn>>
  BY DEF AdoptSnapshot, WriteToPipe, faults
<1>2. QED
  BY <1>1, Zenon DEF AdoptSnapshot, WriteToPipe, Copies, GoTo, NextFile, Hashed

LEMMA ManifestStep == Typed /\ ManifestInv /\ [Next]_vars => ManifestInv'
<1> SUFFICES ASSUME Typed, ManifestInv, [Next]_vars PROVE ManifestInv'
  OBVIOUS
<1>1. CASE Quiet
  BY <1>1, QuietStep DEF ManifestInv
<1>2. CASE VerifyManifest
  <2>1. Verified' => /\ manifest # NoManifest
                     /\ manifest.guardian # NoHash
                     /\ expected_self_hash' = manifest.guardian
    BY <1>2 DEF VerifyManifest, EndCycle, Verified
  <2>2. manifest # NoManifest => manifest.guardian \in {"genuine", NoHash}
    BY DEF Typed, TypeOK, Manifest
  <2>3. QED
    BY <1>2, <2>1, <2>2 DEF VerifyManifest, ManifestInv, disk
<1>3. CASE AdoptSnapshot \/ WriteToPipe
  BY <1>3, AdoptionStep DEF ManifestInv, Verified
<1>10. CASE VerifyFails
  BY <1>10 DEF VerifyFails, EndCycle, ManifestInv, Verified, disk
<1>4. CASE ReplaceManifest
  <2>1. \A unread : CurrentManifest(unread) # NoManifest
    BY ManifestTyped, GuardianConstants DEF Typed, TypeOK
  <2>2. \A unread : CurrentManifest(unread).guardian = expected_self_hash
    BY DEF CurrentManifest
  <2>3. QED
    BY <1>4, <2>1, <2>2 DEF ReplaceManifest, ManifestInv, Verified
<1>5. CASE ReplaceSignature
  BY <1>5 DEF ReplaceSignature, ManifestInv, Verified
<1>6. CASE Crash
  BY <1>6 DEF Crash, ManifestInv, Verified, disk
<1>7. CASE InstallBaseline
  <2>1. \A m \in Baselines : m # NoManifest
    BY GuardianConstants
  <2>2. ~Verified /\ ~Verified'
    BY <1>7 DEF InstallBaseline, ManifestInv, Verified, locals
  <2>3. QED
    BY <1>7, <2>1, <2>2 DEF InstallBaseline, ManifestInv
<1>8. CASE Damage
  BY <1>8 DEF Damage, ManifestInv, Verified, locals
<1>9. QED
  BY <1>1, <1>2, <1>3, <1>4, <1>5, <1>6, <1>7, <1>8, <1>10, OtherSteps

\* Damage takes a snapshot out of those that have to match.
LEMMA DamageMatch ==
  ASSUME Typed, Damage
  PROVE  /\ damaged \subseteq damaged'
         /\ \A f \in File \ damaged' : snap'[f] = snap[f]
BY GuardianConstants DEF Damage, Typed, TypeOK

\* The new manifest lists what is there.
LEMMA ReplacedMatches ==
  ASSUME ReplaceManifest, NEW unread, manifest' = CurrentManifest(unread)
  PROVE  UndamagedMatch'
<1>1. UNCHANGED snap
  BY DEF ReplaceManifest
<1>2. \A f \in DOMAIN CurrentManifest(unread).files :
        CurrentManifest(unread).files[f] = snap[f]
  BY DEF CurrentManifest
<1>3. QED
  BY <1>1, <1>2 DEF UndamagedMatch

LEMMA ListedAreFiles ==
  ASSUME NEW m \in Manifest PROVE DOMAIN m.files \subseteq File
BY DEF Manifest

LEMMA TrustStep ==
  Typed /\ ManifestInv /\ TrustInv /\ [Next]_vars => TrustInv'
<1> SUFFICES ASSUME Typed, ManifestInv, TrustInv, [Next]_vars PROVE TrustInv'
  OBVIOUS
<1>1. CASE Quiet
  <2>1. UndamagedMatch => UndamagedMatch'
    BY <1>1, QuietStep DEF UndamagedMatch
  <2>2. QED
    BY <1>1, <2>1, QuietStep DEF TrustInv
<1>2. CASE VerifyManifest
  <2>1. Verified' => sig = manifest /\ SnapshotsMatch(manifest)
    BY <1>2 DEF VerifyManifest, EndCycle, Verified
  <2>2. UNCHANGED <<sig, manifest, snap, damaged>>
    BY <1>2 DEF VerifyManifest, disk, faults
  <2>3. QED
    BY <2>1, <2>2 DEF TrustInv, SnapshotsMatch, UndamagedMatch
<1>3. CASE AdoptSnapshot \/ WriteToPipe
  <2>1. UNCHANGED snap /\ UndamagedMatch => UndamagedMatch'
    BY <1>3, AdoptionStep DEF UndamagedMatch
  <2>2. QED
    BY <1>3, <2>1, AdoptionStep DEF TrustInv, Verified
<1>10. CASE VerifyFails
  BY <1>10 DEF VerifyFails, EndCycle, TrustInv, Verified
<1>4. CASE ReplaceManifest
  <2>1. ASSUME NEW unread, manifest' = CurrentManifest(unread), pc' = "sig_write"
        PROVE  TrustInv'
    BY <1>4, <2>1, ReplacedMatches DEF TrustInv
  <2>2. CASE pc' = "file" /\ has_error'
    BY <2>2 DEF TrustInv
  <2>3. QED
    BY <1>4, <2>1, <2>2 DEF ReplaceManifest, GoTo, NextFile
<1>5. CASE ReplaceSignature
  <2>1. /\ pc = "sig_write"
        /\ pc' = "file"
        /\ UNCHANGED <<snap, manifest, damaged>>
        /\ \/ has_error'
           \/ sig' = manifest /\ (has_error' <=> has_error)
    BY <1>5, Zenon DEF ReplaceSignature, NextFile, Failed, faults
  <2>2. QED
    BY <2>1 DEF TrustInv, Verified, UndamagedMatch
<1>6. CASE Crash
  BY <1>6 DEF Crash, TrustInv, Verified
<1>7. CASE InstallBaseline
  BY <1>7 DEF InstallBaseline, ManifestInv, TrustInv, Verified, locals
<1>8. CASE Damage
  <2>1. UNCHANGED <<sig, manifest, pc, has_error>>
    BY <1>8 DEF Damage, locals
  <2>2. Verified => DOMAIN manifest.files \subseteq File
    BY ListedAreFiles DEF ManifestInv, Typed, TypeOK
  <2>3. Verified /\ UndamagedMatch => UndamagedMatch'
    BY <1>8, <2>1, <2>2, DamageMatch DEF UndamagedMatch
  <2>4. QED
    BY <2>1, <2>3 DEF TrustInv, Verified
<1>9. QED
  BY <1>1, <1>2, <1>3, <1>4, <1>5, <1>6, <1>7, <1>8, <1>10, OtherSteps

LEMMA AlwaysTrustedInv == Spec => []TrustedInv
<1>1. Init => TrustedInv
  BY GuardianConstants DEF Init, TrustedInv, ManifestInv, TrustInv, Verified
<1>2. QED
  BY <1>1, ManifestStep, TrustStep, AlwaysTyped, PTL DEF Spec, TrustedInv

\* However files are edited and damaged and writes fail during its cycles, the
\* daemon begins to call itself TRUSTED only over a manifest that is signed and
\* that every undamaged snapshot matches.
THEOREM TrustIsConsistent == Spec => TrustedIsConsistent
<1>1. TrustedInv /\ [Next]_vars =>
        [state' = "TRUSTED" /\ state # "TRUSTED" =>
           /\ sig = manifest
           /\ \A f \in DOMAIN manifest.files \ damaged :
                snap[f] = manifest.files[f]]_vars
  <2> SUFFICES ASSUME TrustedInv, [Next]_vars,
                      state' = "TRUSTED", state # "TRUSTED"
               PROVE  /\ sig = manifest
                      /\ \A f \in DOMAIN manifest.files \ damaged :
                           snap[f] = manifest.files[f]
    OBVIOUS
  <2>1. FinishCycle
    BY DEF Next, GuardianStep, vars, BeginCycle, CheckUnlock, VerifyManifest,
           VerifySelf, VerifyFails, Inspect, InspectFails, TakeApproval,
           ConsumeFails, AdoptSnapshot, ReplaceManifest, ReplaceSignature,
           Rollback, Crash, EditCore, WriteToPipe, PlaceToken,
           InstallBaseline, Damage, Tick, EndCycle, GoTo, LockAndGoOn
  <2>2. pc = "file" /\ ~has_error
    BY <2>1 DEF FinishCycle, EndCycle
  <2>3. QED
    BY <2>2 DEF TrustedInv, TrustInv, Verified, UndamagedMatch
<1>2. QED
  BY <1>1, AlwaysTrustedInv, PTL DEF Spec, TrustedIsConsistent

-----------------------------------------------------------------------------
(***************************************************************************)
(* Locks: what makes the daemon lock is still there to be seen.            *)
(***************************************************************************)

LEMMA DiskStep ==
  BaselinesMatch /\ Typed /\ TrustedInv /\ DiskInv /\ [Next]_vars => DiskInv'
<1> SUFFICES ASSUME BaselinesMatch, Typed, TrustedInv, DiskInv, [Next]_vars
             PROVE  DiskInv'
  OBVIOUS
<1> USE DEF DiskInv
<1>1. CASE Quiet
  <2>1. UndamagedMatch => UndamagedMatch'
    BY <1>1, QuietStep DEF UndamagedMatch
  <2>2. QED
    BY <1>1, <2>1, QuietStep
<1>2. CASE VerifyManifest
  <2>1. UndamagedMatch => UndamagedMatch'
    BY <1>2 DEF VerifyManifest, UndamagedMatch, disk, faults
  <2>2. QED
    BY <1>2, <2>1 DEF VerifyManifest, disk, faults
<1>3. CASE AdoptSnapshot \/ WriteToPipe
  <2>1. manifest # NoManifest
    BY <1>3, AdoptionStep DEF TrustedInv, ManifestInv, Verified
  <2>2. UNCHANGED snap /\ UndamagedMatch => UndamagedMatch'
    BY <1>3, AdoptionStep DEF UndamagedMatch
  <2>3. QED
    BY <1>3, <2>1, <2>2, AdoptionStep
<1>10. CASE VerifyFails
  <2>1. UndamagedMatch => UndamagedMatch'
    BY <1>10 DEF VerifyFails, UndamagedMatch, disk
  <2>2. QED
    BY <1>10, <2>1 DEF VerifyFails, EndCycle, disk
<1>4. CASE ReplaceManifest
  <2>1. manifest # NoManifest /\ manifest' # NoManifest
    BY <1>4, ManifestStep DEF TrustedInv, ManifestInv, Verified, ReplaceManifest
  <2>2. ASSUME NEW unread, manifest' = CurrentManifest(unread), pc' = "sig_write"
        PROVE  DiskInv'
    BY <1>4, <2>1, <2>2, ReplacedMatches
  <2>3. CASE torn'
    BY <2>1, <2>3
  <2>4. QED
    BY <1>4, <2>2, <2>3 DEF ReplaceManifest, GoTo
<1>5. CASE ReplaceSignature
  <2>1. /\ pc = "sig_write"
        /\ UNCHANGED <<snap, manifest, damaged>>
    BY <1>5 DEF ReplaceSignature, Failed, faults
  <2>2. (sig' = manifest /\ UNCHANGED torn) \/ torn'
    BY <1>5 DEF ReplaceSignature, faults
  <2>3. manifest # NoManifest
    BY <2>1 DEF TrustedInv, ManifestInv, Verified
  <2>4. QED
    BY <2>1, <2>2, <2>3 DEF UndamagedMatch
<1>6. CASE Crash
  <2>1. UNCHANGED <<snap, manifest, sig, damaged>>
    BY <1>6 DEF Crash, disk
  <2>2. pc \in {"manifest_write", "sig_write"} \/ torn => torn'
    BY <1>6 DEF Crash
  <2>3. QED
    BY <2>1, <2>2 DEF UndamagedMatch
<1>7. CASE InstallBaseline
  <2>1. /\ manifest = NoManifest
        /\ manifest' \in Baselines
        /\ sig' = manifest'
        /\ UNCHANGED <<snap, damaged>>
    BY <1>7 DEF InstallBaseline, TrustedInv, ManifestInv, faults
  <2>2. manifest' # NoManifest /\ DOMAIN manifest'.files \subseteq File
    BY <2>1, ListedAreFiles, GuardianConstants
  <2>3. \A f \in DOMAIN manifest'.files \ damaged : snap[f] = manifest'.files[f]
    BY <2>1, <2>2 DEF BaselinesMatch
  <2>4. QED
    BY <2>1, <2>2, <2>3 DEF UndamagedMatch
<1>8. CASE Damage
  <2>1. UNCHANGED <<sig, manifest, pc, torn>>
    BY <1>8 DEF Damage, locals
  <2>2. manifest # NoManifest => DOMAIN manifest.files \subseteq File
    BY ListedAreFiles DEF Typed, TypeOK
  <2>3. manifest # NoManifest /\ UndamagedMatch => UndamagedMatch'
    BY <1>8, <2>1, <2>2, DamageMatch DEF UndamagedMatch
  <2>4. QED
    BY <1>8, <2>1, <2>3, DamageMatch
<1>9. QED
  BY <1>1, <1>2, <1>3, <1>4, <1>5, <1>6, <1>7, <1>8, <1>10, OtherSteps

\* A cause stays a cause while the daemon is locked: nothing the daemon or
\* people do takes it away.
LEMMA CauseStays ==
  ASSUME Typed, TrustedInv, [Next]_vars, LockCause \/ torn,
         state' = "EMERGENCY_LOCK"
  PROVE  (LockCause \/ torn)'
<1>1. damaged \subseteq damaged'
  BY DEF Next, GuardianStep, vars, faults, BeginCycle, CheckUnlock,
         VerifyManifest, VerifySelf, VerifyFails, Inspect, InspectFails,
         TakeApproval, ConsumeFails, AdoptSnapshot, ReplaceManifest,
         ReplaceSignature, Rollback, FinishCycle, Crash, EditCore,
         WriteToPipe, PlaceToken, InstallBaseline, Damage, Tick
<1>2. script = "changed" => script' = "changed"
  BY DEF Next, GuardianStep, vars, disk, BeginCycle, CheckUnlock,
         VerifyManifest, VerifySelf, VerifyFails, Inspect, InspectFails,
         TakeApproval, ConsumeFails, AdoptSnapshot, ReplaceManifest,
         ReplaceSignature, Rollback, FinishCycle, Crash, EditCore,
         WriteToPipe, PlaceToken, InstallBaseline, Damage, Tick
<1>3. unreadable => unreadable'
  <2>1. CASE Inspect \/ InspectFails \/ VerifyFails
    BY <2>1 DEF Inspect, InspectFails, VerifyFails, LockAndGoOn
  <2>2. CASE CheckUnlock
    BY <2>2 DEF CheckUnlock
  <2>3. ~Crash
    BY DEF Crash
  <2>4. CASE ~Inspect /\ ~InspectFails /\ ~VerifyFails /\ ~CheckUnlock
    BY <2>3, <2>4
       DEF Next, GuardianStep, vars, faults, BeginCycle, VerifyManifest,
           VerifySelf, TakeApproval, ConsumeFails, AdoptSnapshot,
           ReplaceManifest, ReplaceSignature, Rollback, FinishCycle, EditCore,
           WriteToPipe, PlaceToken, InstallBaseline, Damage, Tick
  <2>5. QED
    BY <2>1, <2>2, <2>4
<1>4. torn => torn'
  <2>1. CASE ReplaceManifest \/ ReplaceSignature
    BY <2>1 DEF ReplaceManifest, ReplaceSignature
  <2>2. CASE Crash
    BY <2>2 DEF Crash
  <2>3. CASE ~ReplaceManifest /\ ~ReplaceSignature /\ ~Crash
    BY <2>3
       DEF Next, GuardianStep, vars, faults, BeginCycle, CheckUnlock,
           VerifyManifest, VerifySelf, VerifyFails, Inspect, InspectFails,
           TakeApproval, ConsumeFails, AdoptSnapshot, Rollback, FinishCycle,
           EditCore, WriteToPipe, PlaceToken, InstallBaseline, Damage, Tick
  <2>4. QED
    BY <2>1, <2>2, <2>3
<1>5. manifest # NoManifest /\ manifest.guardian = NoHash => UNCHANGED manifest
  <2>1. CASE ReplaceManifest
    BY <2>1 DEF ReplaceManifest, TrustedInv, ManifestInv, Verified
  <2>2. CASE InstallBaseline
    BY <2>2 DEF InstallBaseline, TrustedInv, ManifestInv
  <2>3. CASE ~ReplaceManifest /\ ~InstallBaseline
    BY <2>3
       DEF Next, GuardianStep, vars, disk, BeginCycle, CheckUnlock,
           VerifyManifest, VerifySelf, VerifyFails, Inspect, InspectFails,
           TakeApproval, ConsumeFails, AdoptSnapshot, ReplaceSignature,
           Rollback, FinishCycle, Crash, EditCore, WriteToPipe, PlaceToken,
           Damage, Tick
  <2>4. QED
    BY <2>1, <2>2, <2>3
<1>6. QED
  BY <1>1, <1>2, <1>3, <1>4, <1>5 DEF LockCause

LEMMA LockStep ==
  Typed /\ TrustedInv /\ DiskInv /\ LockHasCause /\ [Next]_vars => LockHasCause'
<1> SUFFICES ASSUME Typed, TrustedInv, DiskInv, LockHasCause, [Next]_vars,
                    state' = "EMERGENCY_LOCK"
             PROVE  (LockCause \/ torn)'
  BY DEF LockHasCause
<1>1. CASE state = "EMERGENCY_LOCK"
  BY <1>1, CauseStays DEF LockHasCause
<1>2. CASE state # "EMERGENCY_LOCK"
  <2>1. VerifyManifest \/ VerifySelf \/ VerifyFails \/ Inspect \/ InspectFails
    BY <1>2
       DEF Next, GuardianStep, vars, BeginCycle, CheckUnlock, TakeApproval,
           ConsumeFails, AdoptSnapshot, ReplaceManifest, ReplaceSignature,
           Rollback, FinishCycle, Crash, EditCore, WriteToPipe, PlaceToken,
           InstallBaseline, Damage, Tick, EndCycle
  <2>2. CASE VerifyManifest
    <3>1. /\ pc = "manifest" /\ manifest # NoManifest
          /\ \/ sig # manifest
             \/ manifest.guardian = NoHash
             \/ ~SnapshotsMatch(manifest)
      BY <1>2, <2>2 DEF VerifyManifest, EndCycle, GoTo
    <3>2. ~SnapshotsMatch(manifest) => torn \/ damaged # {}
      BY <3>1 DEF DiskInv, UndamagedMatch, SnapshotsMatch
    <3>3. LockCause \/ torn
      BY <3>1, <3>2 DEF DiskInv, LockCause
    <3>4. QED
      BY <3>3, CauseStays
  <2>3. CASE VerifySelf
    <3>1. script # expected_self_hash /\ pc = "self"
      BY <1>2, <2>3 DEF VerifySelf, EndCycle
    <3>2. script = "changed"
      BY <3>1 DEF TrustedInv, ManifestInv, Verified, Typed, TypeOK
    <3>3. QED
      BY <3>2, CauseStays DEF LockCause
  <2>4. CASE VerifyFails \/ Inspect \/ InspectFails
    BY <1>2, <2>4 DEF VerifyFails, Inspect, InspectFails, EndCycle, LockAndGoOn,
                      LockCause
  <2>5. QED
    BY <2>1, <2>2, <2>3, <2>4
<1>3. QED
  BY <1>1, <1>2

\* If the operator signs the snapshots that are there, the daemon locks for a
\* cause from outside, a read that failed or a core file it cannot restore, or
\* after an update that was cut short, and for no other reason, whatever people edit and however long it runs.
THEOREM LocksHaveCause == BaselinesMatch /\ Spec => []LockHasCause
<1>1. BaselinesMatch /\ Init => DiskInv
  BY ListedAreFiles, GuardianConstants
     DEF Init, DiskInv, BaselinesMatch, UndamagedMatch
<1>2. Init => LockHasCause
  BY DEF Init, LockHasCause
<1>3. CASE BaselinesMatch
  <2>1. Init => DiskInv
    BY <1>1, <1>3
  <2>2. Typed /\ TrustedInv /\ DiskInv /\ [Next]_vars => DiskInv'
    BY <1>3, DiskStep
  <2>3. QED
    BY <1>2, <2>1, <2>2, LockStep, AlwaysTyped, AlwaysTrustedInv, PTL DEF Spec
<1>4. QED
  BY <1>3
=============================================================================
