---------------------------- MODULE HaosGuardian ----------------------------
(***************************************************************************)
(* The HAOS guardian daemon (haos/haos_guardian_v2.4_p1_62.py).  Once a    *)
(* second it checks the chain of trust (signed manifest, own script,       *)
(* snapshots) and then every core file: a file that differs from its       *)
(* snapshot is adopted if a human signed a token for exactly that content, *)
(* and rolled back otherwise.                                              *)
(*                                                                         *)
(* The daemon is one thread, but people edit the core files and place      *)
(* tokens at any time, and the process, a read or a write may fail at any  *)
(* point: a step ends where the code has looked at or replaced one thing   *)
(* on disk.                                                                *)
(***************************************************************************)
EXTENDS Integers, Sequences, FiniteSets

CONSTANTS
  File, FileOrder,     \* immutable_files, and the order they are visited in
  Content,             \* contents of a file, told apart by their hash
  Cut,                 \* Cut[c]: the first 10 MB of c, all that is ever copied
  InitialSnap,         \* the snapshots the operator made; some may be missing
  Baselines,           \* the signed manifests the operator may install
  NoManifest, NoHash,
  Approvals,           \* the APPROVE tokens in play
  Unlocks,             \* the UNLOCK tokens in play
  Edits,               \* what people do to core files: pairs of file and value
  Damages,             \* what may happen to snapshots: pairs of file and value
  \* bounds of the model:
  MaxClock, MaxDamage,
  MaxCrashes, MaxErrors, MaxFailures   \* crashes, failed reads and writes, both

\* A core file may be gone, be replaced by a link, a directory or a named pipe,
\* or deny access (EACCES).
Broken == {"absent", "symlink", "denied", "directory", "pipe"}

\* A token is its signed payload: the signature is an HMAC of it.
ApproveToken ==
  [file : File, hash : Content, expires_at : Nat, authentic : BOOLEAN]
UnlockToken == [expires_at : Nat, authentic : BOOLEAN]
Tokens == Approvals \cup Unlocks

Manifest ==
  [files : UNION {[F -> Content] : F \in SUBSET File},
   guardian : {"genuine", NoHash}]

ASSUME GuardianConstants ==
  /\ FileOrder \in Seq(File)
  /\ {FileOrder[i] : i \in DOMAIN FileOrder} = File
  /\ Content \cap (Broken \cup {NoHash}) = {}
  /\ Cut \in [Content -> Content]
  /\ InitialSnap \in [File -> Content \cup {"absent"}]
  /\ Baselines \subseteq Manifest
  /\ NoManifest \notin Manifest
  /\ Approvals \subseteq ApproveToken
  /\ Unlocks \subseteq UnlockToken
  /\ Edits \subseteq File \X (Content \cup Broken)
  /\ Damages \subseteq File \X (Content \cup {"absent"})

ASSUME GuardianNumbers ==
  /\ MaxClock \in Nat
  /\ MaxCrashes \in Nat
  /\ MaxErrors \in Nat
  /\ MaxFailures \in Nat
  /\ MaxDamage \in Nat

VARIABLES
  clock,           \* time.time()
  core, snap,      \* the files under haos_dir and under snapshot_dir
  manifest, sig,   \* manifest.json; the manifest that manifest.sig signs
  script,          \* the guardian's own script: "genuine" or "changed"
  approvals,       \* the tokens that lie in approvals_dir
  consumed,        \* consumed_tokens.json
  cache,           \* consumed_signatures, the process's copy of it
  state,           \* GuardianState
  expected_self_hash,
  pc, index, seen, has_error,   \* where the cycle is, and its locals
  uses,            \* history: how often each token has taken effect
  \* history of what went wrong:
  crashes, errors, \* crashes; failed reads and writes
  misreads,        \* those that took the list of consumed tokens for empty
  damaged,         \* the files whose snapshot was damaged
  unreadable,      \* since the process started or was unlocked, something could
                   \* not be read, or a core file not be restored
  torn             \* an update was cut short

disk == <<core, snap, manifest, sig, script, approvals, consumed>>
locals == <<pc, index, seen, has_error>>
faults == <<crashes, errors, misreads, damaged, unreadable, torn>>
vars == <<clock, disk, cache, state, expected_self_hash, locals, uses, faults>>

NothingSeen == [src |-> NoHash, snap |-> NoHash]

GuardianState ==
  {"STARTING", "UNINITIALIZED", "TRUSTED", "EMERGENCY_LOCK"}

\* Types of the daemon's variables, of the disk and of the history.
TypeOK ==
  /\ clock \in Nat
  /\ core \in [File -> Content \cup Broken]
  /\ snap \in [File -> Content \cup {"absent"}]
  /\ manifest \in Manifest \cup {NoManifest}
  /\ sig \in Manifest \cup {NoManifest}
  /\ script \in {"genuine", "changed"}
  /\ approvals \subseteq Tokens
  /\ consumed \subseteq Tokens
  /\ cache \subseteq Tokens
  /\ state \in GuardianState
  /\ expected_self_hash \in {"genuine", NoHash}
  /\ pc \in {"idle", "unlock", "manifest", "self", "file", "token", "adopt",
             "manifest_write", "sig_write", "rollback", "opening", "copying"}
  /\ index \in 1 .. Len(FileOrder) + 1
  /\ seen \in [src : Content \cup {NoHash}, snap : Content \cup {NoHash}]
  /\ has_error \in BOOLEAN
  /\ uses \in [Tokens -> Nat]
  /\ crashes \in Nat
  /\ errors \in Nat
  /\ misreads \in Nat
  /\ damaged \subseteq File
  /\ unreadable \in BOOLEAN
  /\ torn \in BOOLEAN

Init ==
  /\ clock = 0
  /\ snap = InitialSnap
  /\ core \in [File -> Content]
  /\ \A f \in File : snap[f] # "absent" => core[f] = snap[f]
  /\ manifest \in Baselines \cup {NoManifest}
  /\ sig = manifest
  /\ script = "genuine"
  /\ approvals = {}
  /\ consumed = {}
  /\ cache = {}
  /\ state = "STARTING"
  /\ expected_self_hash = NoHash
  /\ pc = "idle"
  /\ index = 1
  /\ seen = NothingSeen
  /\ has_error = FALSE
  /\ uses = [t \in Tokens |-> 0]
  /\ crashes = 0
  /\ errors = 0
  /\ misreads = 0
  /\ damaged = {}
  /\ unreadable = FALSE
  /\ torn = FALSE
-----------------------------------------------------------------------------
(***************************************************************************)
(* The chain of trust (check_and_enforce_all, steps 0 to 2).               *)
(***************************************************************************)

EndCycle(s) ==
  /\ state' = s
  /\ pc' = "idle"
  /\ UNCHANGED <<index, seen, has_error>>

GoTo(step) == pc' = step /\ UNCHANGED <<index, seen, has_error>>

BeginCycle ==
  /\ pc = "idle"
  /\ GoTo(IF state = "EMERGENCY_LOCK" THEN "unlock" ELSE "manifest")
  /\ UNCHANGED <<clock, disk, cache, state, expected_self_hash, uses, faults>>

\* A read or a write fails.
Failed ==
  /\ errors < MaxErrors
  /\ crashes + errors < MaxFailures
  /\ errors' = errors + 1

\* _load_consumed_tokens: a list that cannot be read or parsed is an empty one.
Listed(tokens) ==
  \/ tokens = consumed /\ UNCHANGED <<errors, misreads>>
  \/ tokens = {} /\ consumed # {} /\ Failed /\ misreads' = misreads + 1

\* Mutant: the set on disk is not looked at.
ConsumesAnyway(t) ==
  /\ consumed' = consumed \cup {t}
  /\ cache' = consumed \cup {t}
  /\ approvals' \in {approvals, approvals \ {t}}
  /\ UNCHANGED <<errors, misreads>>

\* _try_consume_token_atomic, which writes what it has loaded back with the
\* token added, and the removal of the token's file, which may fail.
Consumes(t) ==
  /\ \E listed \in {consumed, {}} :
       /\ Listed(listed)
       /\ t \notin listed
       /\ consumed' = listed \cup {t}
       /\ cache' = listed \cup {t}
  /\ approvals' \in {approvals, approvals \ {t}}

ValidUnlocks ==
  {t \in approvals \cap Unlocks : t.authentic /\ t.expires_at > clock}

\* check_unlock_token
CheckUnlock ==
  /\ pc = "unlock"
  /\ \/ \E t \in ValidUnlocks :
          /\ Consumes(t)
          /\ uses' = [uses EXCEPT ![t] = @ + 1]
          /\ state' = "STARTING"
          /\ unreadable' = FALSE
          /\ GoTo("manifest")
     \/ /\ ValidUnlocks \subseteq consumed
        /\ EndCycle(state)
        /\ UNCHANGED <<approvals, consumed, cache, uses, errors, misreads, unreadable>>
  /\ UNCHANGED <<clock, core, snap, manifest, sig, script, expected_self_hash,
                 crashes, damaged, torn>>

SnapshotsMatch(m) == \A f \in DOMAIN m.files : snap[f] = m.files[f]

\* verify_manifest
VerifyManifest ==
  /\ pc = "manifest"
  /\ \/ /\ NoManifest \in {manifest, sig}
        /\ EndCycle("UNINITIALIZED")
        /\ UNCHANGED expected_self_hash
     \/ /\ NoManifest \notin {manifest, sig}
        /\ sig # manifest \/ manifest.guardian = NoHash
        /\ EndCycle("EMERGENCY_LOCK")
        /\ UNCHANGED expected_self_hash
     \/ /\ NoManifest \notin {manifest, sig}
        /\ sig = manifest
        /\ manifest.guardian # NoHash
        /\ expected_self_hash' = manifest.guardian
        /\ \/ SnapshotsMatch(manifest) /\ GoTo("self") /\ UNCHANGED state
           \/ ~SnapshotsMatch(manifest) /\ EndCycle("EMERGENCY_LOCK")
  /\ UNCHANGED <<clock, disk, cache, uses, faults>>

\* verify_guardian_self_integrity
VerifySelf ==
  /\ pc = "self"
  /\ \/ /\ script # expected_self_hash
        /\ EndCycle("EMERGENCY_LOCK")
     \/ /\ script = expected_self_hash
        /\ pc' = "file"
        /\ index' = 1
        /\ has_error' = FALSE
        /\ UNCHANGED <<seen, state>>
  /\ UNCHANGED <<clock, disk, cache, expected_self_hash, uses, faults>>

\* Manifest, signature, a snapshot or the script cannot be read: the daemon
\* locks; or a file that is there cannot be stat'ed and is taken for missing.
VerifyFails ==
  /\ pc \in {"manifest", "self"}
  /\ Failed
  /\ \/ EndCycle("EMERGENCY_LOCK") /\ unreadable' = TRUE
     \/ pc = "manifest" /\ EndCycle("UNINITIALIZED") /\ UNCHANGED unreadable
  /\ expected_self_hash' \in
       {expected_self_hash} \cup {m.guardian : m \in {manifest} \ {NoManifest}}
  /\ UNCHANGED <<clock, disk, cache, uses, crashes, misreads, damaged, torn>>
-----------------------------------------------------------------------------
(***************************************************************************)
(* One core file (check_and_enforce_file); current is the file at index.   *)
(***************************************************************************)

current == FileOrder[index]

NextFile(failed) ==
  /\ pc' = "file"
  /\ index' = index + 1
  /\ seen' = NothingSeen
  /\ has_error' = (has_error \/ failed)

\* A token for this content that the process does not take for consumed.
ValidApprovals(f, hash) ==
  {t \in (approvals \cap Approvals) \ cache :
     /\ t.file = f
     /\ t.authentic
     /\ t.expires_at > clock
     /\ t.hash = hash}

\* get_file_hash_safe, when it can read what is there.
HashOf(v) == IF v \in Content THEN v ELSE NoHash

\* The file and its snapshot have been hashed: all is well if they are equal.
Hashed(src, sn) ==
  \/ src = sn /\ NextFile(FALSE)
  \/ /\ src # sn
     /\ seen' = [src |-> src, snap |-> sn]
     /\ pc' = "token"
     /\ UNCHANGED <<index, has_error>>

RestoreFrom(sn) ==
  /\ seen' = [src |-> NoHash, snap |-> sn]
  /\ pc' = "rollback"
  /\ UNCHANGED <<index, has_error>>

LockAndGoOn ==
  /\ state' = "EMERGENCY_LOCK"
  /\ unreadable' = TRUE
  /\ NextFile(FALSE)

\* The file and its snapshot are read; without a snapshot a file that can be
\* stat'ed is left alone, so that denied access to it goes unnoticed.  A pipe
\* that is opened waits for somebody to write to it.  What may still change
\* between the reads leads to one of the same outcomes.
Inspect ==
  /\ pc = "file"
  /\ index <= Len(FileOrder)
  /\ LET f == current
     IN \/ /\ \/ core[f] = "denied"
              \/ core[f] \in {"absent", "symlink"} /\ snap[f] = "absent"
           /\ LockAndGoOn
        \/ /\ \/ /\ core[f] \in {"absent", "symlink"}
                 /\ snap[f] # "absent"
                 /\ RestoreFrom(snap[f])
              \/ /\ core[f] \in Content \cup {"directory"}
                 /\ snap[f] # "absent"
                 /\ Hashed(HashOf(core[f]), snap[f])
              \/ core[f] = "pipe" /\ snap[f] # "absent" /\ GoTo("opening")
              \/ /\ core[f] \notin {"absent", "symlink"}
                 /\ snap[f] = "absent"
                 /\ NextFile(FALSE)
           /\ UNCHANGED <<state, unreadable>>
  /\ UNCHANGED <<clock, disk, cache, expected_self_hash, uses, crashes, errors,
                 misreads, damaged, torn>>

\* The file or its snapshot is there and cannot be read.  That locks the daemon,
\* ends the file's turn with an error, hides the snapshot, or a hash is missing
\* where there should be one.
InspectFails ==
  /\ pc = "file"
  /\ index <= Len(FileOrder)
  /\ Failed
  /\ LET f == current
     IN \/ LockAndGoOn
        \/ /\ snap[f] # "absent"
           /\ \/ core[f] \in {"absent", "symlink"} /\ (NextFile(TRUE) \/ RestoreFrom(NoHash))
              \/ core[f] \notin {"absent", "symlink"} /\ NextFile(FALSE)
              \/ /\ core[f] \in Content \cup {"directory"}
                 /\ \E src \in {HashOf(core[f]), NoHash}, sn \in {snap[f], NoHash} :
                      Hashed(src, sn)
           /\ UNCHANGED <<state, unreadable>>
  /\ UNCHANGED <<clock, disk, cache, expected_self_hash, uses, crashes, misreads,
                 damaged, torn>>

\* get_valid_approval_token: a token is consumed, or none is valid.
TakeApproval ==
  /\ pc = "token"
  /\ LET valid == ValidApprovals(current, seen.src)
     IN \/ \E t \in valid :
             /\ Consumes(t)
             /\ uses' = [uses EXCEPT ![t] = @ + 1]
             /\ GoTo("adopt")
        \/ /\ valid \subseteq consumed
           /\ GoTo("rollback")
           /\ UNCHANGED <<approvals, consumed, cache, uses, errors, misreads>>
  /\ UNCHANGED <<clock, core, snap, manifest, sig, script, state,
                 expected_self_hash, crashes, damaged, unreadable, torn>>

\* A token cannot be read or consumed.  If consumed_tokens.json could not be
\* written the process counts it as consumed all the same and looks for another
\* one; else an approved edit is rolled back, or the daemon stays locked.
ConsumeFails ==
  /\ \/ /\ pc = "token"
        /\ \E t \in ValidApprovals(current, seen.src) \ consumed :
             \/ cache' \in {consumed \cup {t}, {t}} /\ UNCHANGED <<state, locals>>
             \/ GoTo("rollback") /\ UNCHANGED <<state, cache>>
     \/ /\ pc = "unlock"
        /\ \E t \in ValidUnlocks \ consumed :
             \/ cache' \in {consumed \cup {t}, {t}} /\ UNCHANGED <<state, locals>>
             \/ EndCycle(state) /\ UNCHANGED cache
  /\ Failed
  /\ UNCHANGED <<clock, disk, expected_self_hash, uses, crashes, misreads, damaged,
                 unreadable, torn>>

\* Mutant: the content is not compared with what was approved.
CopiesAny(c) ==
  /\ snap' = [snap EXCEPT ![current] = Cut[c]]
  /\ GoTo("manifest_write")

\* safe_atomic_copy reads content c from the core file and replaces the
\* snapshot, if what it has read is what was approved.
Copies(c) ==
  \/ /\ Cut[c] = seen.src
     /\ snap' = [snap EXCEPT ![current] = seen.src]
     /\ GoTo("manifest_write")
  \/ Cut[c] # seen.src /\ NextFile(TRUE) /\ UNCHANGED snap

\* update_snapshot_and_manifest: the snapshot is replaced, if the file still
\* has the approved content.
AdoptSnapshot ==
  /\ pc = "adopt"
  /\ \/ core[current] \in Content /\ Copies(core[current]) /\ UNCHANGED errors
     \/ core[current] = "pipe" /\ GoTo("copying") /\ UNCHANGED <<snap, errors>>
     \/ core[current] \in Broken \ {"pipe"} /\ NextFile(TRUE) /\ UNCHANGED <<snap, errors>>
     \/ Failed /\ NextFile(TRUE) /\ UNCHANGED snap
  /\ UNCHANGED <<clock, core, manifest, sig, script, approvals, consumed, cache,
                 state, expected_self_hash, uses, crashes, misreads, damaged,
                 unreadable, torn>>

\* Mutant: the manifest is signed again with the hashes it had.
CurrentManifestStale(unread) == manifest

\* The manifest lists the snapshots as they are on disk now, without those that
\* cannot be read.
CurrentManifest(unread) ==
  [files |-> [f \in {g \in File \ unread : snap[g] # "absent"} |-> snap[f]],
   guardian |-> expected_self_hash]

\* manifest.json is replaced ...
ReplaceManifest ==
  /\ pc = "manifest_write"
  /\ \/ /\ manifest' = CurrentManifest({})
        /\ GoTo("sig_write")
        /\ UNCHANGED <<errors, torn>>
     \/ /\ Failed
        /\ \E f \in File : manifest' = CurrentManifest({f})
        /\ GoTo("sig_write")
        /\ UNCHANGED torn
     \/ /\ Failed
        /\ torn' = TRUE
        /\ NextFile(TRUE)
        /\ UNCHANGED manifest
  /\ UNCHANGED <<clock, core, snap, sig, script, approvals, consumed, cache,
                 state, expected_self_hash, uses, crashes, misreads, damaged,
                 unreadable>>

\* ... and then manifest.sig, which was computed for it.
ReplaceSignature ==
  /\ pc = "sig_write"
  /\ \/ /\ sig' = manifest
        /\ NextFile(FALSE)
        /\ UNCHANGED <<errors, torn>>
     \/ /\ Failed
        /\ torn' = TRUE
        /\ NextFile(TRUE)
        /\ UNCHANGED sig
  /\ UNCHANGED <<clock, core, snap, manifest, script, approvals, consumed, cache,
                 state, expected_self_hash, uses, crashes, misreads, damaged,
                 unreadable>>

\* Mutant: a file that is gone is left alone.
RestorableIfThere(f) ==
  core[f] \notin {"absent", "directory"} /\ snap[f] # "absent"
    /\ seen.snap \in {NoHash, Cut[snap[f]]}

\* The snapshot still is what was hashed, if it could be, and nothing but a
\* directory stands in its file's place.
Restorable(f) ==
  core[f] # "directory" /\ snap[f] # "absent" /\ seen.snap \in {NoHash, Cut[snap[f]]}

\* safe_atomic_copy from the snapshot.
Rollback ==
  /\ pc = "rollback"
  /\ \/ /\ Restorable(current)
        /\ core' = [core EXCEPT ![current] = Cut[snap[current]]]
        /\ NextFile(FALSE)
        /\ UNCHANGED errors
     \/ ~Restorable(current) /\ NextFile(TRUE) /\ UNCHANGED <<core, errors>>
     \/ Failed /\ NextFile(TRUE) /\ UNCHANGED core
  /\ UNCHANGED <<clock, snap, manifest, sig, script, approvals, consumed, cache,
                 state, expected_self_hash, uses, crashes, misreads, damaged,
                 unreadable, torn>>

\* Mutant: an error in a file is forgotten at the end of the cycle.
TrustAnyCycle ==
  /\ pc = "file"
  /\ index > Len(FileOrder)
  /\ EndCycle(IF state \in {"EMERGENCY_LOCK", "UNINITIALIZED"} THEN state ELSE "TRUSTED")
  /\ UNCHANGED <<clock, disk, cache, expected_self_hash, uses, faults>>

FinishCycle ==
  /\ pc = "file"
  /\ index > Len(FileOrder)
  /\ EndCycle(IF has_error \/ state \in {"EMERGENCY_LOCK", "UNINITIALIZED"}
              THEN state ELSE "TRUSTED")
  /\ UNCHANGED <<clock, disk, cache, expected_self_hash, uses, faults>>
-----------------------------------------------------------------------------
(***************************************************************************)
(* What happens around the daemon.                                         *)
(***************************************************************************)

\* The process dies and is started again; the list of consumed tokens it
\* starts with is empty when it cannot be read.
Crash ==
  /\ crashes < MaxCrashes
  /\ crashes + errors < MaxFailures
  /\ crashes' = crashes + 1
  /\ torn' = (torn \/ pc \in {"manifest_write", "sig_write"})
  /\ cache' \in {consumed, {}}
  /\ state' = "STARTING"
  /\ expected_self_hash' = NoHash
  /\ pc' = "idle"
  /\ index' = 1
  /\ seen' = NothingSeen
  /\ has_error' = FALSE
  /\ unreadable' = FALSE
  /\ UNCHANGED <<clock, disk, uses, errors, misreads, damaged>>

EditCore ==
  /\ \E e \in Edits : core' = [core EXCEPT ![e[1]] = e[2]]
  /\ UNCHANGED <<clock, snap, manifest, sig, script, approvals, consumed, cache,
                 state, expected_self_hash, locals, uses, faults>>

\* Somebody writes to the pipe the daemon waits for; a pipe may give the copy
\* less than was written to it.
WriteToPipe ==
  /\ pc \in {"opening", "copying"}
  /\ core[current] = "pipe"
  /\ \E c \in Content :
       \/ pc = "opening" /\ Hashed(c, HashOf(snap[current])) /\ UNCHANGED snap
       \/ pc = "copying" /\ (Copies(c) \/ (NextFile(TRUE) /\ UNCHANGED snap))
  /\ UNCHANGED <<clock, core, manifest, sig, script, approvals, consumed, cache,
                 state, expected_self_hash, uses, faults>>

\* A token may be placed again after it was used.
PlaceToken ==
  /\ \E t \in Tokens : approvals' = approvals \cup {t}
  /\ UNCHANGED <<clock, core, snap, manifest, sig, script, consumed, cache, state,
                 expected_self_hash, locals, uses, faults>>

\* The operator signs the snapshots of a daemon that has no manifest yet.
InstallBaseline ==
  /\ NoManifest \in {manifest, sig}
  /\ \E m \in Baselines : manifest' = m /\ sig' = m
  /\ UNCHANGED <<clock, core, snap, script, approvals, consumed, cache, state,
                 expected_self_hash, locals, uses, faults>>

\* A snapshot or the script is damaged from outside.
Damage ==
  /\ Cardinality(damaged) < MaxDamage
  /\ script = "genuine"
  /\ \/ \E d \in Damages :
          /\ snap[d[1]] \notin {d[2], "absent"}
          /\ snap' = [snap EXCEPT ![d[1]] = d[2]]
          /\ damaged' = damaged \cup {d[1]}
          /\ UNCHANGED script
     \/ /\ script' = "changed"
        /\ UNCHANGED <<snap, damaged>>
  /\ UNCHANGED <<clock, core, manifest, sig, approvals, consumed, cache, state,
                 expected_self_hash, locals, uses, crashes, errors, misreads,
                 unreadable, torn>>

Tick ==
  /\ clock < MaxClock
  /\ clock' = clock + 1
  /\ UNCHANGED <<disk, cache, state, expected_self_hash, locals, uses, faults>>

GuardianStep ==
  \/ BeginCycle
  \/ CheckUnlock
  \/ VerifyManifest
  \/ VerifySelf
  \/ VerifyFails
  \/ Inspect
  \/ InspectFails
  \/ TakeApproval
  \/ ConsumeFails
  \/ AdoptSnapshot
  \/ ReplaceManifest
  \/ ReplaceSignature
  \/ Rollback
  \/ FinishCycle

Next ==
  \/ GuardianStep
  \/ Crash
  \/ EditCore
  \/ WriteToPipe
  \/ PlaceToken
  \/ InstallBaseline
  \/ Damage
  \/ Tick

Spec == Init /\ [][Next]_vars

\* The main loop goes on for ever and its steps are finite; who waits for a pipe
\* waits for whoever may write to it.
FairSpec == Spec /\ WF_vars(GuardianStep)
-----------------------------------------------------------------------------
(***************************************************************************)
(* Properties.                                                             *)
(***************************************************************************)

Approved(f, hash) ==
  \/ hash = InitialSnap[f]
  \/ \E t \in Approvals :
       uses[t] > 0 /\ t.authentic /\ t.file = f /\ t.hash = hash

\* What a file is rolled back to is the operator's snapshot or a content a
\* human signed, however the file is edited while it is being adopted
\* (get_valid_approval_token, safe_atomic_copy).
BaselineIsApproved ==
  \A f \in File \ damaged :
    snap[f] \in Content => Approved(f, snap[f])

\* A token takes effect once, also when its file could not be removed or is
\* placed again and the daemon was restarted, and once more for every time that
\* the list of consumed tokens could not be read and was written anew
\* (_load_consumed_tokens, _try_consume_token_atomic).
TokenUsedOnce == \A t \in Tokens : uses[t] <= 1 + misreads

\* The daemon calls itself TRUSTED only after a cycle that leaves a signed
\* manifest which its snapshots match.
TrustedIsConsistent ==
  [][state' = "TRUSTED" /\ state # "TRUSTED" =>
       /\ sig = manifest
       /\ \A f \in DOMAIN manifest.files \ damaged : snap[f] = manifest.files[f]]_vars

\* What can lock the daemon: damage from outside, a manifest without
\* guardian_hash, and, since the process started or was unlocked, a core file
\* that denies access or is gone without a snapshot, or a read that failed.
LockCause ==
  \/ damaged # {}
  \/ unreadable
  \/ script = "changed"
  \/ manifest # NoManifest /\ manifest.guardian = NoHash

\* The daemon locks for a cause or because an update was cut short.
LockHasCause == state = "EMERGENCY_LOCK" => LockCause \/ torn

\* The docstring of update_snapshot_and_manifest: the snapshot is updated and
\* the manifest signed anew in one atomic step, so no crash locks the daemon.
UpdateIsAtomic == state = "EMERGENCY_LOCK" => LockCause

\* An edit does not last: the file equals its snapshot again, rolled back or
\* adopted, or the daemon is locked or was never initialized.  It does last where
\* a directory stands in the file's place, where the snapshot is over 10 MB, and
\* as long as the daemon waits for somebody to write to a pipe.
EditIsSettled ==
  \A f \in File :
    core[f] # snap[f] ~>
      \/ core[f] = snap[f]
      \/ snap[f] = "absent" \/ Cut[snap[f]] # snap[f]
      \/ core[f] = "directory"
      \/ pc \in {"opening", "copying"}
      \/ state \in {"EMERGENCY_LOCK", "UNINITIALIZED"}
=============================================================================
