--------------------------- MODULE AuthorityBroker ---------------------------
(***************************************************************************)
(* The Authority Broker (hermes_core/authority/broker.py): one listener    *)
(* hands every client connection to a thread of its own, and the threads   *)
(* share the manifest store and the nonce ledger under one lock.  A lock   *)
(* section is one step; the code between two lock sections reads the clock *)
(* or works on local data, so time and other threads move between them.    *)
(*                                                                         *)
(* A request is read and its time taken (Receive), judged (Evaluate), its  *)
(* approval nonce consumed (ConsumeApproval), the nonce of the new grant   *)
(* consumed (ConsumeGrantNonce) and the grant signed and sent (Issue).     *)
(***************************************************************************)
EXTENDS Integers, FiniteSets

CONSTANTS
  Handler,              \* client connections, one handler thread each
  Peer, AllowedPeer,    \* SO_PEERCRED identities; those the broker admits
  Task,                 \* task_id values
  Primitive, HighRisk,  \* primitives; HIGH_RISK_PRIMITIVES
  Hash,                 \* canonical hashes of execution semantics
  Resource,             \* members of TaskManifest.allowed_resources
  Approval,             \* the token_nonces in play, each as it is sent
  Blank,                \* those of white space alone
  Stripped,             \* Stripped[a]: the nonce the approver's signature
                        \* covers, which is a without white space around it
  Token,                \* Token[a]: the fields of the proof sent with nonce a
  NoApproval,           \* human_approval is None
  Manifests, NoManifest,\* the TaskManifests in play; a missing one
  InitialStore,         \* manifest_store given to the constructor
  Requests,             \* the CapabilityRequests clients send
  HasProvenanceVerifier, HasApprovalVerifier,
  GrantTTL,             \* DEFAULT_GRANT_TTL_SECONDS
  MaxGrantTTL,          \* MAX_GRANT_TTL_SECONDS
  MaxApprovalTTL,       \* MAX_APPROVAL_TTL_SECONDS
  ClockSkew,            \* the 1.0 s the approval verifier tolerates
  MaxLedger,            \* max_nonce_ledger_entries
  MaxClock, MaxRequests, MaxCrashes   \* bounds of the model

Trusted == {"HUMAN_CONFIRMED", "SYSTEM_INTERNAL"}
Untrusted == "EXTERNAL_UNTRUSTED"
Taint == Trusted \cup {Untrusted, "OTHER"}

Manifest == [primitives : SUBSET Primitive, resources : SUBSET Resource]

HumanApprovalProof ==
  [issued_at : Nat, valid_until : Nat, hash : Hash, authentic : BOOLEAN]

CapabilityRequest ==
  [peer : Peer, task : Task, primitive : Primitive, taint : Taint,
   ingress : {"none", "valid", "forged"}, hash : Hash,
   approval : Approval \cup {NoApproval}]

\* uuid4 gives every request that gets that far a nonce of its own; the
\* model takes the request's number.  Approval nonces are not numbers.
GrantNonce == 1 .. MaxRequests
Nonce == Approval \cup GrantNonce

CapabilityGrant ==
  [nonce : GrantNonce, issued_at : Nat, expires_at : Nat, peer : Peer,
   primitive : Primitive, hash : Hash, binding : SUBSET Resource,
   request : CapabilityRequest]   \* request: history, not in the code

ASSUME BrokerConstants ==
  /\ AllowedPeer \subseteq Peer
  /\ HighRisk \subseteq Primitive
  /\ Token \in [Approval -> HumanApprovalProof]
  /\ NoApproval \notin Approval
  /\ Blank \subseteq Approval
  /\ Manifests \subseteq Manifest
  /\ NoManifest \notin Manifest
  /\ InitialStore \in [Task -> Manifests \cup {NoManifest}]
  /\ Requests \subseteq CapabilityRequest
  /\ HasProvenanceVerifier \in BOOLEAN
  /\ HasApprovalVerifier \in BOOLEAN

ASSUME BrokerNumbers ==
  /\ GrantTTL \in Nat \ {0}
  /\ MaxGrantTTL \in Nat
  /\ GrantTTL <= MaxGrantTTL
  /\ MaxApprovalTTL \in Nat
  /\ ClockSkew \in Nat
  /\ MaxLedger \in Nat \ {0}
  /\ MaxClock \in Nat
  /\ MaxRequests \in Nat
  /\ MaxCrashes \in Nat

\* A signed approval may be sent with its nonce spelled in several ways; the
\* signature holds for all of them and fixes the other fields.
ASSUME SpellingsOfOneApproval ==
  \A a, b \in Approval : Stripped[a] = Stripped[b] => Token[a] = Token[b]

\* uuid4: a grant's nonce is never the nonce of an approval.
ASSUME NoncesDistinct == Approval \cap GrantNonce = {}

-----------------------------------------------------------------------------
VARIABLES
  clock,           \* time.time(), in seconds; never steps back
  status,          \* "running", "stopped" (stop()) or "crashed"
  crashes,         \* how often the process died; bounded by MaxCrashes
  manifest_store,  \* task_id -> TaskManifest or NoManifest
  ledger,          \* _nonce_ledger: nonce -> expiry, NotHeld if not a key
  received,        \* requests read so far; bounded by MaxRequests
  pc, job, reply,  \* of each handler thread: next step, locals, answer
  window,          \* history: the expiry each nonce was last accepted with
  uses,            \* history: how often each nonce was accepted
  grants           \* history: every grant signed

vars == <<clock, status, crashes, manifest_store, ledger, received,
          pc, job, reply, window, uses, grants>>

NotHeld == -1
NoJob == [idle |-> TRUE]
NoReply == [status |-> "NONE"]

Job ==
  [request : CapabilityRequest, id : GrantNonce, now : Nat, gc_now : Nat,
   manifest : Manifests \cup {NoManifest}]

DenialCode ==
  {"DENY_UNKNOWN_STATE", "DENY_TIMEOUT", "DENY_UNAUTHORIZED_PEER",
   "DENY_INVALID_MANIFEST", "DENY_POLICY_VIOLATION",
   "DENY_SIGNATURE_TAMPERED", "DENY_UNAUTHORIZED_GRANT", "DENY_TTL_EXPIRED",
   "DENY_EXECUTION_SEMANTICS_DRIFT", "DENY_REPLAY_ATTACK",
   "DENY_NONCE_STORE_SATURATED"}

Granted == [status : {"GRANTED"}, grant : CapabilityGrant]
Denied == [status : {"DENIED"}, code : DenialCode]

Working == {"received", "approval", "approval_gc", "grant", "grant_gc", "sign"}

\* Types of every variable of the broker, its threads and its history.
TypeOK ==
  /\ clock \in Nat
  /\ status \in {"running", "stopped", "crashed"}
  /\ crashes \in Nat
  /\ manifest_store \in [Task -> Manifests \cup {NoManifest}]
  /\ ledger \in [Nonce -> Nat \cup {NotHeld}]
  /\ received \in 0 .. MaxRequests
  /\ pc \in [Handler -> Working \cup {"idle", "reading", "replied"}]
  /\ job \in [Handler -> Job \cup {NoJob}]
  /\ \A h \in Handler : pc[h] \in Working => job[h] \in Job
  /\ reply \in [Handler -> Granted \cup Denied \cup {NoReply}]
  /\ window \in [Nonce -> Nat \cup {NotHeld}]
  /\ uses \in [Nonce -> Nat]
  /\ grants \subseteq CapabilityGrant

Init ==
  /\ clock = 0
  /\ status = "running"
  /\ crashes = 0
  /\ manifest_store = InitialStore
  /\ ledger = [n \in Nonce |-> NotHeld]
  /\ received = 0
  /\ pc = [h \in Handler |-> "idle"]
  /\ job = [h \in Handler |-> NoJob]
  /\ reply = [h \in Handler |-> NoReply]
  /\ window = [n \in Nonce |-> NotHeld]
  /\ uses = [n \in Nonce |-> 0]
  /\ grants = {}
-----------------------------------------------------------------------------
(***************************************************************************)
(* The checks of evaluate_request before a nonce is touched.               *)
(***************************************************************************)

\* V-03: a claim of trust without an ingress signature counts as untrusted,
\* with or without a provenance verifier.
EffectiveTaint(r) ==
  IF r.taint \in Trusted /\ r.ingress = "none" THEN Untrusted ELSE r.taint

NeedsApproval(r) ==
  r.primitive \in HighRisk \/ EffectiveTaint(r) = Untrusted

\* Mutant: the digest does not cover the execution semantics.
VerifyApprovalOfAnyHash(proof, hash, now) ==
  /\ now <= proof.valid_until
  /\ proof.issued_at <= now + ClockSkew
  /\ proof.valid_until - proof.issued_at <= MaxApprovalTTL
  /\ proof.authentic

\* ApprovalTokenVerifier.verify_approval at time now
VerifyApproval(proof, hash, now) ==
  /\ now <= proof.valid_until
  /\ proof.issued_at <= now + ClockSkew
  /\ proof.valid_until - proof.issued_at <= MaxApprovalTTL
  /\ proof.hash = hash
  /\ proof.authentic

\* The code a failed approval is refused with.
ApprovalFault(proof, hash, now) ==
  IF proof.valid_until < now THEN "DENY_TTL_EXPIRED"
  ELSE IF proof.hash # hash THEN "DENY_EXECUTION_SEMANTICS_DRIFT"
  ELSE "DENY_SIGNATURE_TAMPERED"

\* The first check that request r fails against manifest m at time now, or
\* "OK".
Verdict(r, m, now) ==
  IF m = NoManifest THEN "DENY_INVALID_MANIFEST"
  ELSE IF r.primitive \notin m.primitives THEN "DENY_POLICY_VIOLATION"
  ELSE IF HasProvenanceVerifier /\ r.ingress = "forged"
       THEN "DENY_SIGNATURE_TAMPERED"
  ELSE IF ~NeedsApproval(r) THEN "OK"
  ELSE IF r.approval = NoApproval \/ ~HasApprovalVerifier
       THEN "DENY_UNAUTHORIZED_GRANT"
  ELSE IF ~VerifyApproval(Token[r.approval], r.hash, now)
       THEN ApprovalFault(Token[r.approval], r.hash, now)
  ELSE IF r.approval \in Blank THEN "DENY_REPLAY_ATTACK"
  ELSE "OK"
-----------------------------------------------------------------------------
(***************************************************************************)
(* The handler thread (_handle_client, evaluate_request).                  *)
(***************************************************************************)

Answer(h, r) ==
  /\ pc' = [pc EXCEPT ![h] = "replied"]
  /\ job' = [job EXCEPT ![h] = NoJob]
  /\ reply' = [reply EXCEPT ![h] = r]

Deny(h, code) == Answer(h, [status |-> "DENIED", code |-> code])

\* The listener accepts a connection and starts its handler thread.
AcceptConnection(h) ==
  /\ status = "running"
  /\ pc[h] = "idle"
  /\ pc' = [pc EXCEPT ![h] = "reading"]
  /\ UNCHANGED <<clock, status, crashes, manifest_store, ledger, received,
                 job, reply, window, uses, grants>>

\* A connection is refused before evaluate_request: a peer that is not
\* admitted, an empty or malformed payload, 3 s without a byte of it.
RejectConnection(h) ==
  /\ pc[h] = "reading"
  /\ \E code \in {"DENY_UNAUTHORIZED_PEER", "DENY_UNKNOWN_STATE", "DENY_TIMEOUT"} :
       /\ code = "DENY_UNAUTHORIZED_PEER" => Peer \ AllowedPeer # {}
       /\ Deny(h, code)
  /\ UNCHANGED <<clock, status, crashes, manifest_store, ledger, received,
                 window, uses, grants>>

\* Mutant: every grant is given the same nonce.
ReceiveWithFixedNonce(h, r) ==
  /\ pc[h] = "reading"
  /\ received < MaxRequests
  /\ r.peer \in AllowedPeer
  /\ received' = received + 1
  /\ pc' = [pc EXCEPT ![h] = "received"]
  /\ job' = [job EXCEPT ![h] =
       [request |-> r, id |-> 1, now |-> clock, gc_now |-> 0,
        manifest |-> NoManifest]]
  /\ UNCHANGED <<clock, status, crashes, manifest_store, ledger, reply,
                 window, uses, grants>>

\* An admitted peer's request has been read to its end.  A peer that sends a
\* byte now and then and no newline keeps the thread reading for as long as it
\* likes: neither the time nor the size of a payload is bounded as a whole.
\* evaluate_request takes its time once, and every later check uses that time.
Receive(h, r) ==
  /\ pc[h] = "reading"
  /\ received < MaxRequests
  /\ r.peer \in AllowedPeer
  /\ received' = received + 1
  /\ pc' = [pc EXCEPT ![h] = "received"]
  /\ job' = [job EXCEPT ![h] =
       [request |-> r, id |-> received + 1, now |-> clock, gc_now |-> 0,
        manifest |-> NoManifest]]
  /\ UNCHANGED <<clock, status, crashes, manifest_store, ledger, reply,
                 window, uses, grants>>

\* The manifest is looked up under the lock; the checks that follow use that
\* manifest and the request's own time.
Evaluate(h) ==
  /\ pc[h] = "received"
  /\ LET r == job[h].request
         m == manifest_store[r.task]
         verdict == Verdict(r, m, job[h].now)
     IN \/ /\ verdict # "OK"
           /\ Deny(h, verdict)
        \/ /\ verdict = "OK"
           /\ pc' = [pc EXCEPT ![h] = IF NeedsApproval(r) THEN "approval" ELSE "grant"]
           /\ job' = [job EXCEPT ![h].manifest = m]
           /\ UNCHANGED reply
  /\ UNCHANGED <<clock, status, crashes, manifest_store, ledger, received,
                 window, uses, grants>>

\* _atomic_consume_nonce reads the clock before it waits for the lock.
ReadGcClock(h) ==
  /\ pc[h] \in {"approval", "grant"}
  /\ pc' = [pc EXCEPT ![h] = IF @ = "approval" THEN "approval_gc" ELSE "grant_gc"]
  /\ job' = [job EXCEPT ![h].gc_now = clock]
  /\ UNCHANGED <<clock, status, crashes, manifest_store, ledger, received,
                 reply, window, uses, grants>>

HeldNonces(l) == {n \in Nonce : l[n] # NotHeld}

\* Mutant: an entry is collected a second before it expires.
CollectedEarly(l, t) == [n \in Nonce |-> IF l[n] <= t + 1 THEN NotHeld ELSE l[n]]

\* The ledger without the entries that are expired at time t.
Collected(l, t) == [n \in Nonce |-> IF l[n] <= t THEN NotHeld ELSE l[n]]

\* Mutant: one entry too many.
FullOffByOne(l) == Cardinality(HeldNonces(l)) > MaxLedger

Full(l) == Cardinality(HeldNonces(l)) >= MaxLedger

\* The lock section of _atomic_consume_nonce.
ConsumeNonce(h, n, expiry, next) ==
  LET kept == Collected(ledger, job[h].gc_now)
  IN \/ /\ ledger[n] # NotHeld
        /\ Deny(h, "DENY_REPLAY_ATTACK")
        /\ UNCHANGED <<ledger, window, uses>>
     \/ /\ ledger[n] = NotHeld
        /\ Full(kept)
        /\ ledger' = kept
        /\ Deny(h, "DENY_NONCE_STORE_SATURATED")
        /\ UNCHANGED <<window, uses>>
     \/ /\ ledger[n] = NotHeld
        /\ ~Full(kept)
        /\ ledger' = [kept EXCEPT ![n] = expiry]
        /\ window' = [window EXCEPT ![n] = expiry]
        /\ uses' = [uses EXCEPT ![n] = @ + 1]
        /\ pc' = [pc EXCEPT ![h] = next]
        /\ UNCHANGED <<job, reply>>

\* The ledger's key is the nonce as it was sent.
ConsumeApproval(h) ==
  /\ pc[h] = "approval_gc"
  /\ LET a == job[h].request.approval
     IN ConsumeNonce(h, a, Token[a].valid_until, "grant")
  /\ UNCHANGED <<clock, status, crashes, manifest_store, received, grants>>

\* The grant's expiry counts from the request's time, not from now.
ConsumeGrantNonce(h) ==
  /\ pc[h] = "grant_gc"
  /\ ConsumeNonce(h, job[h].id, job[h].now + GrantTTL, "sign")
  /\ UNCHANGED <<clock, status, crashes, manifest_store, received, grants>>

\* Mutant: the binding is read from the store when the grant is built.
NewGrantOfCurrentManifest(j) ==
  [nonce |-> j.id, issued_at |-> j.now, expires_at |-> j.now + GrantTTL,
   peer |-> j.request.peer, primitive |-> j.request.primitive,
   hash |-> j.request.hash,
   binding |-> manifest_store[j.request.task].resources,
   request |-> j.request]

NewGrant(j) ==
  [nonce |-> j.id, issued_at |-> j.now, expires_at |-> j.now + GrantTTL,
   peer |-> j.request.peer, primitive |-> j.request.primitive,
   hash |-> j.request.hash, binding |-> j.manifest.resources,
   request |-> j.request]

Issue(h) ==
  /\ pc[h] = "sign"
  /\ grants' = grants \cup {NewGrant(job[h])}
  /\ Answer(h, [status |-> "GRANTED", grant |-> NewGrant(job[h])])
  /\ UNCHANGED <<clock, status, crashes, manifest_store, ledger, received,
                 window, uses>>

\* Mutant: the connection is closed on the success path only.
CloseAfterSuccess(h) ==
  /\ pc[h] = "replied"
  /\ reply[h].status = "GRANTED"
  /\ pc' = [pc EXCEPT ![h] = "idle"]
  /\ reply' = [reply EXCEPT ![h] = NoReply]
  /\ UNCHANGED <<clock, status, crashes, manifest_store, ledger, received,
                 job, window, uses, grants>>

\* finally: conn.close()
CloseConnection(h) ==
  /\ pc[h] = "replied"
  /\ pc' = [pc EXCEPT ![h] = "idle"]
  /\ reply' = [reply EXCEPT ![h] = NoReply]
  /\ UNCHANGED <<clock, status, crashes, manifest_store, ledger, received,
                 job, window, uses, grants>>
-----------------------------------------------------------------------------
(***************************************************************************)
(* The rest of the process.                                                *)
(***************************************************************************)

Tick ==
  /\ clock < MaxClock
  /\ clock' = clock + 1
  /\ UNCHANGED <<status, crashes, manifest_store, ledger, received, pc, job,
                 reply, window, uses, grants>>

\* register_manifest replaces the manifest of a task at any time.
RegisterManifest(t, m) ==
  /\ status # "crashed"
  /\ manifest_store' = [manifest_store EXCEPT ![t] = m]
  /\ UNCHANGED <<clock, status, crashes, ledger, received, pc, job, reply,
                 window, uses, grants>>

\* Mutant: stop() empties the ledger of a broker that is started again.
StopForgetting ==
  /\ status = "running"
  /\ status' = "stopped"
  /\ ledger' = [n \in Nonce |-> NotHeld]
  /\ UNCHANGED <<clock, crashes, manifest_store, received, pc, job, reply,
                 window, uses, grants>>

\* stop() closes the listener; running handlers go on and the ledger stays.
Stop ==
  /\ status = "running"
  /\ status' = "stopped"
  /\ UNCHANGED <<clock, crashes, manifest_store, ledger, received, pc, job,
                 reply, window, uses, grants>>

Start ==
  /\ status # "running"
  /\ status' = "running"
  /\ UNCHANGED <<clock, crashes, manifest_store, ledger, received, pc, job,
                 reply, window, uses, grants>>

\* The process dies and with it its threads, its ledger and every manifest
\* registered at run time; a new process is given the same manifest_store.
Crash ==
  /\ crashes < MaxCrashes
  /\ status # "crashed"
  /\ status' = "crashed"
  /\ crashes' = crashes + 1
  /\ manifest_store' = InitialStore
  /\ ledger' = [n \in Nonce |-> NotHeld]
  /\ window' = [n \in Nonce |-> NotHeld]
  /\ uses' = [n \in Nonce |-> 0]
  /\ pc' = [h \in Handler |-> "idle"]
  /\ job' = [h \in Handler |-> NoJob]
  /\ reply' = [h \in Handler |-> NoReply]
  /\ UNCHANGED <<clock, received, grants>>

\* The steps of a thread that has read its request.
WorkStep(h) ==
  \/ Evaluate(h)
  \/ ReadGcClock(h)
  \/ ConsumeApproval(h)
  \/ ConsumeGrantNonce(h)
  \/ Issue(h)
  \/ CloseConnection(h)

HandlerStep(h) ==
  \/ RejectConnection(h)
  \/ \E r \in Requests : Receive(h, r)
  \/ WorkStep(h)

Next ==
  \/ Tick
  \/ \E t \in Task, m \in Manifests : RegisterManifest(t, m)
  \/ Stop
  \/ Start
  \/ Crash
  \/ \E h \in Handler :
       \/ AcceptConnection(h)
       \/ HandlerStep(h)

Spec == Init /\ [][Next]_vars

\* Handler threads are scheduled preemptively, their lock sections are finite
\* and sending an answer ends within the 3 s the socket is given, so a thread
\* that has its request goes on.  Reading is up to the client, and clients and
\* time owe nothing.
FairSpec == Spec /\ \A h \in Handler : WF_vars(WorkStep(h))
-----------------------------------------------------------------------------
(***************************************************************************)
(* Properties.                                                             *)
(***************************************************************************)

\* A nonce whose window is open is still a key of the ledger, with that
\* expiry: garbage collection by any thread, on a clock reading as old as it
\* may be, never evicts a live nonce (_atomic_consume_nonce).
LiveNonceHeld ==
  \A n \in Nonce : window[n] > clock => ledger[n] = window[n]

\* The ledger never outgrows max_nonce_ledger_entries, whatever the threads
\* do between reading the clock and taking the lock.
LedgerBounded ==
  /\ IsFiniteSet(HeldNonces(ledger))
  /\ Cardinality(HeldNonces(ledger)) <= MaxLedger

\* A grant names a primitive and resources of one and the same manifest, even
\* when the task's manifest is replaced while the request is processed.
GrantFollowsOneManifest ==
  \A g \in grants : \E m \in Manifests :
    /\ g.primitive \in m.primitives
    /\ g.binding = m.resources

\* A grant for a high-risk primitive or an untrusted request rests on an
\* authentic approval of exactly its execution semantics that had not expired
\* at the grant's time of issue (V-03 to V-06).
ApprovalBacksGrant ==
  \A g \in grants :
    NeedsApproval(g.request) =>
      /\ HasApprovalVerifier
      /\ g.request.approval \in Approval
      /\ LET proof == Token[g.request.approval]
         IN proof.authentic /\ proof.hash = g.hash
            /\ g.issued_at <= proof.valid_until

\* Once its approval nonce is consumed a request is refused only because the
\* ledger is full: no other check runs after the approval is spent.
OnlySaturationAfterApproval ==
  [][\A h \in Handler :
       (/\ pc[h] \in {"grant", "grant_gc", "sign"}
        /\ pc'[h] = "replied"
        /\ reply'[h].status = "DENIED")
       => reply'[h].code = "DENY_NONCE_STORE_SATURATED"]_vars

\* The broker implements the ledger's promise: a nonce is accepted only when
\* the window of its last acceptance is closed.
Ledger == INSTANCE ReplayLedger WITH
  Nonce <- Nonce, clock <- clock, window <- window, uses <- uses
ImplementsReplayLedger == Ledger!Spec

\* Every request that has been read, and every connection that is refused, is
\* answered and closed, or dies with the process; a connection whose client
\* never ends its payload may stay open (_handle_client).
EveryRequestAnswered ==
  \A h \in Handler : pc[h] \in Working \cup {"replied"} ~> pc[h] = "idle"

\* What the code and its tests say of an approval: it is good for one grant
\* (broker.py V-08, test AT-08), here among the requests that were judged
\* strictly before it expired.
ApprovalUsedOnce ==
  \A g1, g2 \in {g \in grants : NeedsApproval(g.request)} :
    /\ g1.request.approval = g2.request.approval
    /\ g1.issued_at < Token[g1.request.approval].valid_until
    /\ g2.issued_at < Token[g2.request.approval].valid_until
    => g1 = g2
=============================================================================
