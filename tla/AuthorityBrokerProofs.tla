------------------------ MODULE AuthorityBrokerProofs ------------------------
(***************************************************************************)
(* Theorems about the Authority Broker for every value of its constants.   *)
(***************************************************************************)
EXTENDS AuthorityBroker, FiniteSetTheorems, TLAPS

-----------------------------------------------------------------------------
(***************************************************************************)
(* Facts about the operators of the broker.                                *)
(***************************************************************************)

\* Garbage collection keeps the ledger a ledger.
LEMMA CollectedType ==
  ASSUME NEW l \in [Nonce -> Nat \cup {NotHeld}], NEW t \in Nat
  PROVE  Collected(l, t) \in [Nonce -> Nat \cup {NotHeld}]
BY DEF Collected, NotHeld

\* Garbage collection at time t leaves every entry that outlives t.
LEMMA CollectedKeepsLive ==
  ASSUME NEW l \in [Nonce -> Nat \cup {NotHeld}], NEW t \in Nat,
         NEW n \in Nonce, l[n] > t
  PROVE  Collected(l, t)[n] = l[n]
BY DEF Collected, NotHeld

\* A request that gets past the checks is refused with a listed code or has
\* what it needs.
LEMMA VerdictType ==
  ASSUME NEW r, NEW m, NEW t
  PROVE  Verdict(r, m, t) \in DenialCode \cup {"OK"}
BY DEF Verdict, ApprovalFault, DenialCode

\* An accepted request rests on a manifest that lists its primitive, and on
\* an approval of its own semantics, unexpired at its time, if it needs one.
LEMMA AcceptedRequest ==
  ASSUME NEW r \in CapabilityRequest, NEW m, NEW t,
         Verdict(r, m, t) = "OK"
  PROVE  /\ m # NoManifest
         /\ r.primitive \in m.primitives
         /\ NeedsApproval(r) =>
              /\ HasApprovalVerifier
              /\ r.approval \in Approval
              /\ VerifyApproval(Token[r.approval], r.hash, t)
BY DEF Verdict, ApprovalFault, CapabilityRequest

-----------------------------------------------------------------------------
(***************************************************************************)
(* The inductive invariant.  TypeOK is not inductive alone: that a signed   *)
(* grant has its type rests on what Evaluate established of the request.    *)
(* LiveNonceHeld rests on GcClockPast: a thread collects with a clock       *)
(* reading that is never ahead of the clock.  That the second nonce is      *)
(* never refused as a replay rests on FreshId: no two threads share an id   *)
(* and the ledger has no entry of an id still to be consumed.               *)
(***************************************************************************)
Checked == {"approval", "approval_gc", "grant", "grant_gc", "sign"}

CheckedJobs ==
  \A h \in Handler : pc[h] \in Checked =>
    LET j == job[h]
    IN /\ j.manifest \in Manifests
       /\ j.request.primitive \in j.manifest.primitives
       /\ NeedsApproval(j.request) =>
            /\ HasApprovalVerifier
            /\ j.request.approval \in Approval
            /\ VerifyApproval(Token[j.request.approval], j.request.hash, j.now)

ApprovalStage ==
  \A h \in Handler :
    pc[h] \in {"approval", "approval_gc"} => NeedsApproval(job[h].request)

GcClockPast ==
  \A h \in Handler :
    pc[h] \in {"approval_gc", "grant_gc"} => job[h].gc_now <= clock

FreshId ==
  /\ \A h \in Handler : pc[h] \in Working => job[h].id <= received
  /\ \A h, k \in Handler :
       h # k /\ pc[h] \in Working /\ pc[k] \in Working => job[h].id # job[k].id
  /\ \A n \in GrantNonce : n > received => ledger[n] = NotHeld
  /\ \A h \in Handler :
       pc[h] \in Working \ {"sign"} => ledger[job[h].id] = NotHeld

IInv ==
  /\ TypeOK
  /\ CheckedJobs
  /\ ApprovalStage
  /\ GcClockPast
  /\ LiveNonceHeld
  /\ FreshId
-----------------------------------------------------------------------------
(***************************************************************************)
(* Type correctness.                                                       *)
(***************************************************************************)

LEMMA InitType == Init => TypeOK
BY BrokerConstants, BrokerNumbers
   DEF Init, TypeOK, NotHeld, NoJob, NoReply, Working

\* Answering a connection preserves the types of the thread's variables.
LEMMA AnswerType ==
  ASSUME TypeOK, NEW h \in Handler, NEW r \in Granted \cup Denied, Answer(h, r)
  PROVE  /\ pc' \in [Handler -> Working \cup {"idle", "reading", "replied"}]
         /\ job' \in [Handler -> Job \cup {NoJob}]
         /\ \A k \in Handler : pc'[k] \in Working => job'[k] \in Job
         /\ reply' \in [Handler -> Granted \cup Denied \cup {NoReply}]
BY DEF TypeOK, Answer, Working

LEMMA DenyType ==
  ASSUME NEW code \in DenialCode
  PROVE  [status |-> "DENIED", code |-> code] \in Granted \cup Denied
BY DEF Denied

LEMMA ConsumeNonceType ==
  ASSUME TypeOK, NEW h \in Handler, NEW n \in Nonce, NEW expiry \in Nat,
         NEW next \in Working, pc[h] \in Working, ConsumeNonce(h, n, expiry, next)
  PROVE  /\ ledger' \in [Nonce -> Nat \cup {NotHeld}]
         /\ window' \in [Nonce -> Nat \cup {NotHeld}]
         /\ uses' \in [Nonce -> Nat]
         /\ pc' \in [Handler -> Working \cup {"idle", "reading", "replied"}]
         /\ job' \in [Handler -> Job \cup {NoJob}]
         /\ \A k \in Handler : pc'[k] \in Working => job'[k] \in Job
         /\ reply' \in [Handler -> Granted \cup Denied \cup {NoReply}]
<1> DEFINE kept == Collected(ledger, job[h].gc_now)
<1>1. job[h] \in Job /\ job[h].gc_now \in Nat
  BY DEF TypeOK, Job
<1>2. kept \in [Nonce -> Nat \cup {NotHeld}]
  BY <1>1, CollectedType DEF TypeOK
<1>3. CASE /\ ledger[n] # NotHeld
           /\ Deny(h, "DENY_REPLAY_ATTACK")
           /\ UNCHANGED <<ledger, window, uses>>
  BY <1>3, AnswerType, DenyType DEF Deny, DenialCode, TypeOK
<1>4. CASE /\ ledger' = kept
           /\ Deny(h, "DENY_NONCE_STORE_SATURATED")
           /\ UNCHANGED <<window, uses>>
  BY <1>2, <1>4, AnswerType, DenyType DEF Deny, DenialCode, TypeOK
<1>5. CASE /\ ledger' = [kept EXCEPT ![n] = expiry]
           /\ window' = [window EXCEPT ![n] = expiry]
           /\ uses' = [uses EXCEPT ![n] = @ + 1]
           /\ pc' = [pc EXCEPT ![h] = next]
           /\ UNCHANGED <<job, reply>>
  <2> HIDE DEF kept
  <2> QED BY <1>1, <1>2, <1>5 DEF TypeOK
<1>6. QED
  BY <1>3, <1>4, <1>5 DEF ConsumeNonce

LEMMA NewGrantType ==
  ASSUME NEW j \in Job, j.manifest # NoManifest
  PROVE  NewGrant(j) \in CapabilityGrant
<1>1. j.manifest \in Manifest
  BY BrokerConstants DEF Job
<1>2. j.now + GrantTTL \in Nat
  BY BrokerNumbers DEF Job
<1>3. QED
  BY <1>1, <1>2 DEF NewGrant, CapabilityGrant, Job, Manifest, CapabilityRequest

-----------------------------------------------------------------------------
(***************************************************************************)
(* Every step preserves the inductive invariant.                           *)
(***************************************************************************)

LEMMA InitInv == Init => IInv
BY InitType
   DEF Init, IInv, CheckedJobs, Checked, ApprovalStage, GcClockPast,
       LiveNonceHeld, FreshId, Working, Nonce, NotHeld

\* The parts of the invariant about threads survive a step that ends the
\* work of thread h and leaves the other threads alone.
LEMMA AnswerInv ==
  ASSUME IInv, NEW h \in Handler, NEW r, Answer(h, r),
         UNCHANGED <<clock, received>>
  PROVE  CheckedJobs' /\ ApprovalStage' /\ GcClockPast'
<1>1. \A k \in Handler : k # h => pc'[k] = pc[k] /\ job'[k] = job[k]
  BY DEF Answer, IInv, TypeOK
<1>2. pc'[h] = "replied"
  BY DEF Answer, IInv, TypeOK
<1>3. QED
  BY <1>1, <1>2
     DEF IInv, CheckedJobs, Checked, ApprovalStage, GcClockPast

LEMMA AcceptConnectionInv ==
  ASSUME IInv, NEW h \in Handler, AcceptConnection(h)
  PROVE  IInv'
<1>1. TypeOK'
  BY DEF AcceptConnection, IInv, TypeOK, Working
<1>2. CheckedJobs' /\ ApprovalStage' /\ GcClockPast'
  BY DEF AcceptConnection, IInv, TypeOK, CheckedJobs, Checked, ApprovalStage,
         GcClockPast
<1>3. LiveNonceHeld'
  BY DEF AcceptConnection, IInv, LiveNonceHeld
<1>4. FreshId'
  BY DEF AcceptConnection, IInv, TypeOK, FreshId, Working
<1>5. QED
  BY <1>1, <1>2, <1>3, <1>4 DEF IInv

LEMMA RejectConnectionInv ==
  ASSUME IInv, NEW h \in Handler, RejectConnection(h)
  PROVE  IInv'
<1>1. PICK code \in {"DENY_UNAUTHORIZED_PEER", "DENY_UNKNOWN_STATE", "DENY_TIMEOUT"} :
        Deny(h, code)
  BY DEF RejectConnection
<1>2. TypeOK'
  BY <1>1, AnswerType, DenyType DEF RejectConnection, Deny, DenialCode, IInv, TypeOK
<1>3. CheckedJobs' /\ ApprovalStage' /\ GcClockPast'
  BY <1>1, AnswerInv DEF RejectConnection, Deny
<1>4. LiveNonceHeld'
  BY DEF RejectConnection, IInv, LiveNonceHeld
<1>5. FreshId'
  BY <1>1 DEF RejectConnection, Deny, Answer, IInv, TypeOK, FreshId, Working
<1>6. QED
  BY <1>2, <1>3, <1>4, <1>5 DEF IInv

LEMMA ReceiveInv ==
  ASSUME IInv, NEW h \in Handler, NEW r \in Requests, Receive(h, r)
  PROVE  IInv'
<1>1. received + 1 \in GrantNonce /\ received' \in 0 .. MaxRequests
  BY BrokerNumbers DEF Receive, IInv, TypeOK, GrantNonce
<1> DEFINE new == [request |-> r, id |-> received + 1, now |-> clock,
                   gc_now |-> 0, manifest |-> NoManifest]
<1>2. new \in Job
  BY <1>1, BrokerConstants DEF Job, IInv, TypeOK
<1>3. TypeOK'
  BY <1>1, <1>2 DEF Receive, IInv, TypeOK, Working
<1>4. CheckedJobs' /\ ApprovalStage' /\ GcClockPast'
  BY DEF Receive, IInv, TypeOK, CheckedJobs, Checked, ApprovalStage, GcClockPast
<1>5. LiveNonceHeld'
  BY DEF Receive, IInv, LiveNonceHeld
<1>6. FreshId'
  <2>1. /\ pc' = [pc EXCEPT ![h] = "received"]
        /\ job' = [job EXCEPT ![h] = new]
        /\ received' = received + 1
        /\ ledger' = ledger
        /\ received \in Nat
    BY DEF Receive, IInv, TypeOK
  <2>2. new.id = received + 1
    OBVIOUS
  <2>3. \A k \in Handler : pc[k] \in Working => job[k].id \in Nat
    BY DEF IInv, TypeOK, Job, GrantNonce
  <2> HIDE DEF new
  <2>4. \A k \in Handler : pc'[k] \in Working => job'[k].id <= received'
    BY <2>1, <2>2, <2>3 DEF IInv, TypeOK, FreshId
  <2>5. \A k, l \in Handler :
          k # l /\ pc'[k] \in Working /\ pc'[l] \in Working => job'[k].id # job'[l].id
    BY <2>1, <2>2, <2>3 DEF IInv, TypeOK, FreshId
  <2>6. \A n \in GrantNonce : n > received' => ledger'[n] = NotHeld
    BY <2>1 DEF IInv, FreshId, GrantNonce
  <2>7. ledger[received + 1] = NotHeld
    BY <1>1, <2>1 DEF IInv, FreshId, GrantNonce
  <2>8. \A k \in Handler : pc'[k] \in Working \ {"sign"} => ledger'[job'[k].id] = NotHeld
    BY <2>1, <2>2, <2>7 DEF IInv, TypeOK, FreshId
  <2>9. QED
    BY <2>4, <2>5, <2>6, <2>8 DEF FreshId
<1>7. QED
  BY <1>3, <1>4, <1>5, <1>6 DEF IInv

LEMMA EvaluateInv ==
  ASSUME IInv, NEW h \in Handler, Evaluate(h)
  PROVE  IInv'
<1> DEFINE r == job[h].request
           m == manifest_store[r.task]
           verdict == Verdict(r, m, job[h].now)
<1>1. /\ pc[h] = "received"
      /\ job[h] \in Job
      /\ r \in CapabilityRequest
      /\ m \in Manifests \cup {NoManifest}
      /\ UNCHANGED <<clock, status, crashes, manifest_store, ledger, received,
                     window, uses, grants>>
  BY DEF Evaluate, IInv, TypeOK, Working, Job, CapabilityRequest
<1>2. LiveNonceHeld'
  BY <1>1 DEF IInv, LiveNonceHeld
<1>3. CASE verdict # "OK" /\ Deny(h, verdict)
  <2>1. verdict \in DenialCode
    BY <1>3, VerdictType
  <2> HIDE DEF verdict
  <2>2. TypeOK'
    BY <1>1, <1>3, <2>1, AnswerType, DenyType DEF Deny, IInv, TypeOK
  <2>3. CheckedJobs' /\ ApprovalStage' /\ GcClockPast'
    BY <1>1, <1>3, AnswerInv DEF Deny
  <2>4. FreshId'
    BY <1>1, <1>3 DEF Deny, Answer, IInv, TypeOK, FreshId, Working
  <2>5. QED
    BY <1>2, <2>2, <2>3, <2>4 DEF IInv
<1>4. CASE /\ verdict = "OK"
           /\ pc' = [pc EXCEPT ![h] = IF NeedsApproval(r) THEN "approval" ELSE "grant"]
           /\ job' = [job EXCEPT ![h].manifest = m]
           /\ UNCHANGED reply
  <2>1. /\ m # NoManifest
        /\ r.primitive \in m.primitives
        /\ NeedsApproval(r) =>
              /\ HasApprovalVerifier
              /\ r.approval \in Approval
              /\ VerifyApproval(Token[r.approval], r.hash, job[h].now)
    BY <1>1, <1>4, AcceptedRequest
  <2> DEFINE new == [job[h] EXCEPT !.manifest = m]
  <2>2. /\ new \in Job
        /\ new.manifest = m
        /\ new.request = r
        /\ new.now = job[h].now
        /\ new.id = job[h].id
    BY <1>1 DEF Job
  <2>3. job' = [job EXCEPT ![h] = new]
    BY <1>4
  <2> HIDE DEF new, m, r, verdict
  <2>4. \A k \in Handler : k # h => pc'[k] = pc[k] /\ job'[k] = job[k]
    BY <1>4, <2>3 DEF IInv, TypeOK
  <2>5. /\ pc'[h] = IF NeedsApproval(r) THEN "approval" ELSE "grant"
        /\ job'[h] = new
    BY <1>4, <2>3 DEF IInv, TypeOK
  <2>6. TypeOK'
    BY <1>1, <1>4, <2>2, <2>3, <2>4, <2>5 DEF IInv, TypeOK, Working
  <2>7. CheckedJobs'
    BY <1>1, <2>1, <2>2, <2>4, <2>5 DEF IInv, CheckedJobs
  <2>8. ApprovalStage'
    BY <2>2, <2>4, <2>5 DEF IInv, ApprovalStage
  <2>9. GcClockPast'
    BY <1>1, <2>4, <2>5 DEF IInv, GcClockPast
  <2>10. FreshId'
    <3>1. \A k \in Handler : /\ pc'[k] \in Working => pc[k] \in Working
                             /\ pc'[k] \in Working \ {"sign"} => pc[k] \in Working \ {"sign"}
                             /\ job'[k].id = job[k].id
      BY <1>1, <2>2, <2>4, <2>5 DEF Working, r
    <3>2. QED
      BY <1>1, <3>1 DEF IInv, FreshId
  <2>11. QED
    BY <1>2, <2>6, <2>7, <2>8, <2>9, <2>10 DEF IInv
<1>5. QED
  BY <1>3, <1>4 DEF Evaluate

LEMMA ReadGcClockInv ==
  ASSUME IInv, NEW h \in Handler, ReadGcClock(h)
  PROVE  IInv'
<1> DEFINE new == [job[h] EXCEPT !.gc_now = clock]
<1>1. /\ pc[h] \in {"approval", "grant"}
      /\ job[h] \in Job
      /\ clock \in Nat
      /\ UNCHANGED <<clock, status, crashes, manifest_store, ledger, received,
                     reply, window, uses, grants>>
  BY DEF ReadGcClock, IInv, TypeOK, Working
<1>2. /\ new \in Job
      /\ new.manifest = job[h].manifest
      /\ new.request = job[h].request
      /\ new.now = job[h].now
      /\ new.id = job[h].id
      /\ new.gc_now = clock
  BY <1>1 DEF Job
<1>3. /\ pc' = [pc EXCEPT ![h] = IF @ = "approval" THEN "approval_gc" ELSE "grant_gc"]
      /\ job' = [job EXCEPT ![h] = new]
  BY DEF ReadGcClock
<1> HIDE DEF new
<1>4. \A k \in Handler : k # h => pc'[k] = pc[k] /\ job'[k] = job[k]
  BY <1>3 DEF IInv, TypeOK
<1>5. /\ pc'[h] = IF pc[h] = "approval" THEN "approval_gc" ELSE "grant_gc"
      /\ job'[h] = new
  BY <1>3 DEF IInv, TypeOK
<1>6. TypeOK'
  BY <1>1, <1>2, <1>3, <1>4, <1>5 DEF IInv, TypeOK, Working
<1>7. CheckedJobs'
  BY <1>1, <1>2, <1>4, <1>5 DEF IInv, CheckedJobs, Checked
<1>8. ApprovalStage'
  BY <1>1, <1>2, <1>4, <1>5 DEF IInv, ApprovalStage
<1>9. GcClockPast'
  BY <1>1, <1>2, <1>4, <1>5 DEF IInv, GcClockPast
<1>10. LiveNonceHeld'
  BY <1>1 DEF IInv, LiveNonceHeld
<1>11. FreshId'
  <2>1. \A k \in Handler : /\ pc'[k] \in Working => pc[k] \in Working
                           /\ pc'[k] \in Working \ {"sign"} => pc[k] \in Working \ {"sign"}
                           /\ job'[k].id = job[k].id
    BY <1>1, <1>2, <1>4, <1>5 DEF Working
  <2>2. QED
    BY <1>1, <2>1 DEF IInv, FreshId
<1>12. QED
  BY <1>6, <1>7, <1>8, <1>9, <1>10, <1>11 DEF IInv

\* The lock section keeps live nonces and the ids still to be consumed.
LEMMA ConsumeNonceInv ==
  ASSUME IInv, NEW h \in Handler, NEW n \in Nonce, NEW expiry \in Nat,
         NEW next \in {"grant", "sign"}, ConsumeNonce(h, n, expiry, next),
         \/ pc[h] = "approval_gc" /\ next = "grant" /\ n \in Approval
         \/ pc[h] = "grant_gc" /\ next = "sign" /\ n = job[h].id,
         UNCHANGED <<clock, status, crashes, manifest_store, received, grants>>
  PROVE  IInv'
<1> DEFINE kept == Collected(ledger, job[h].gc_now)
<1>1. /\ job[h] \in Job
      /\ job[h].gc_now \in Nat
      /\ job[h].gc_now <= clock
      /\ clock \in Nat
      /\ pc[h] \in Working
      /\ next \in Working
  BY DEF IInv, TypeOK, GcClockPast, Working, Job
<1>2. kept \in [Nonce -> Nat \cup {NotHeld}]
  BY <1>1, CollectedType DEF IInv, TypeOK
<1>3. TypeOK'
  BY <1>1, ConsumeNonceType DEF IInv, TypeOK
<1>4. ASSUME NEW x \in Nonce, window[x] > clock
      PROVE  kept[x] = window[x]
  <2>1. ledger[x] = window[x] /\ window[x] \in Int
    BY <1>4 DEF IInv, TypeOK, LiveNonceHeld, NotHeld
  <2>2. ledger[x] > job[h].gc_now
    BY <1>1, <1>4, <2>1
  <2>3. QED
    BY <1>1, <2>1, <2>2, CollectedKeepsLive DEF IInv, TypeOK
<1>5. \A x \in Nonce : ledger[x] = NotHeld => kept[x] = NotHeld
  BY <1>1 DEF Collected, NotHeld
<1>6. GrantNonce \subseteq Nonce /\ Approval \cap GrantNonce = {}
  BY NoncesDistinct DEF Nonce
<1>7. CASE \E code : Deny(h, code) /\ ledger' \in {ledger, kept} /\ window' = window
  <2>1. PICK code : Deny(h, code)
    BY <1>7
  <2>2. CheckedJobs' /\ ApprovalStage' /\ GcClockPast'
    BY <2>1, AnswerInv DEF Deny
  <2>3. LiveNonceHeld'
    BY <1>4, <1>7 DEF IInv, LiveNonceHeld
  <2>4. FreshId'
    <3>1. \A x \in GrantNonce : ledger[x] = NotHeld => ledger'[x] = NotHeld
      BY <1>5, <1>6, <1>7
    <3>2. \A k \in Handler : pc'[k] \in Working => k # h /\ pc'[k] = pc[k] /\ job'[k] = job[k]
      BY <2>1 DEF Deny, Answer, IInv, TypeOK, Working
    <3>3. \A k \in Handler : pc[k] \in Working => job[k].id \in GrantNonce
      BY DEF IInv, TypeOK, Job
    <3>4. QED
      BY <3>1, <3>2, <3>3 DEF IInv, FreshId
  <2>5. QED
    BY <1>3, <2>2, <2>3, <2>4 DEF IInv
<1>8. CASE /\ ledger[n] = NotHeld
           /\ ledger' = [kept EXCEPT ![n] = expiry]
           /\ window' = [window EXCEPT ![n] = expiry]
           /\ uses' = [uses EXCEPT ![n] = @ + 1]
           /\ pc' = [pc EXCEPT ![h] = next]
           /\ UNCHANGED <<job, reply>>
  <2> HIDE DEF kept
  <2>1. CheckedJobs'
    BY <1>8 DEF IInv, TypeOK, CheckedJobs, Checked
  <2>2. ApprovalStage'
    BY <1>8 DEF IInv, TypeOK, ApprovalStage
  <2>3. GcClockPast'
    BY <1>8 DEF IInv, TypeOK, GcClockPast
  <2>4. LiveNonceHeld'
    BY <1>2, <1>4, <1>8 DEF IInv, TypeOK, LiveNonceHeld
  <2>5. FreshId'
    <3>1. \A k \in Handler : pc'[k] \in Working => pc[k] \in Working
      BY <1>1, <1>8 DEF IInv, TypeOK
    <3>2. \A k \in Handler : pc[k] \in Working => job[k].id \in GrantNonce
      BY DEF IInv, TypeOK, Job
    <3>3. \A x \in GrantNonce : x # n /\ ledger[x] = NotHeld => ledger'[x] = NotHeld
      BY <1>2, <1>5, <1>6, <1>8
    <3>4. \A x \in GrantNonce : x > received' => ledger'[x] = NotHeld
      <4> SUFFICES ASSUME NEW x \in GrantNonce, x > received
                   PROVE  ledger'[x] = NotHeld
        OBVIOUS
      <4>1. x # n
        BY <1>1, <1>6 DEF IInv, TypeOK, FreshId, GrantNonce
      <4>2. QED
        BY <3>3, <4>1 DEF IInv, FreshId
    <3>5. ASSUME NEW k \in Handler, pc'[k] \in Working \ {"sign"}
          PROVE  ledger'[job'[k].id] = NotHeld
      <4>1. pc[k] \in Working \ {"sign"}
        BY <1>1, <1>8, <3>5 DEF IInv, TypeOK, Working
      <4>2. job[k].id # n
        BY <1>1, <1>6, <1>8, <3>2, <3>5, <4>1 DEF IInv, TypeOK, FreshId
      <4>3. QED
        BY <1>8, <3>2, <3>3, <4>1, <4>2 DEF IInv, FreshId
    <3>6. QED
      BY <1>8, <3>1, <3>4, <3>5 DEF IInv, FreshId
  <2>6. QED
    BY <1>3, <2>1, <2>2, <2>3, <2>4, <2>5 DEF IInv
<1>9. QED
  BY <1>7, <1>8 DEF ConsumeNonce

LEMMA ConsumeApprovalInv ==
  ASSUME IInv, NEW h \in Handler, ConsumeApproval(h)
  PROVE  IInv'
<1> DEFINE a == job[h].request.approval
<1>1. /\ pc[h] = "approval_gc"
      /\ ConsumeNonce(h, a, Token[a].valid_until, "grant")
      /\ UNCHANGED <<clock, status, crashes, manifest_store, received, grants>>
  BY DEF ConsumeApproval
<1>2. a \in Approval
  BY <1>1 DEF IInv, ApprovalStage, CheckedJobs, Checked
<1>3. a \in Nonce /\ Token[a].valid_until \in Nat
  BY <1>2, BrokerConstants DEF Nonce, HumanApprovalProof
<1> HIDE DEF a
<1>4. QED
  BY <1>1, <1>2, <1>3, ConsumeNonceInv

LEMMA ConsumeGrantNonceInv ==
  ASSUME IInv, NEW h \in Handler, ConsumeGrantNonce(h)
  PROVE  IInv'
<1>1. /\ pc[h] = "grant_gc"
      /\ ConsumeNonce(h, job[h].id, job[h].now + GrantTTL, "sign")
      /\ UNCHANGED <<clock, status, crashes, manifest_store, received, grants>>
  BY DEF ConsumeGrantNonce
<1>2. job[h].id \in Nonce /\ job[h].now + GrantTTL \in Nat
  BY <1>1, BrokerNumbers DEF IInv, TypeOK, Working, Job, Nonce
<1>3. QED
  BY <1>1, <1>2, ConsumeNonceInv

LEMMA IssueInv ==
  ASSUME IInv, NEW h \in Handler, Issue(h)
  PROVE  IInv'
<1> DEFINE g == NewGrant(job[h])
<1>1. /\ pc[h] = "sign"
      /\ grants' = grants \cup {g}
      /\ Answer(h, [status |-> "GRANTED", grant |-> g])
      /\ UNCHANGED <<clock, status, crashes, manifest_store, ledger, received,
                     window, uses>>
  BY DEF Issue
<1>2. g \in CapabilityGrant
  BY <1>1, BrokerConstants, NewGrantType
     DEF IInv, TypeOK, Working, CheckedJobs, Checked
<1> HIDE DEF g
<1>3. [status |-> "GRANTED", grant |-> g] \in Granted \cup Denied
  BY <1>2 DEF Granted
<1>4. TypeOK'
  BY <1>1, <1>2, <1>3, AnswerType DEF IInv, TypeOK
<1>5. CheckedJobs' /\ ApprovalStage' /\ GcClockPast'
  BY <1>1, AnswerInv
<1>6. LiveNonceHeld'
  BY <1>1 DEF IInv, LiveNonceHeld
<1>7. FreshId'
  BY <1>1 DEF Answer, IInv, TypeOK, FreshId, Working
<1>8. QED
  BY <1>4, <1>5, <1>6, <1>7 DEF IInv

LEMMA CloseConnectionInv ==
  ASSUME IInv, NEW h \in Handler, CloseConnection(h)
  PROVE  IInv'
<1>1. TypeOK'
  BY DEF CloseConnection, IInv, TypeOK, Working
<1>2. CheckedJobs' /\ ApprovalStage' /\ GcClockPast'
  BY DEF CloseConnection, IInv, TypeOK, CheckedJobs, Checked, ApprovalStage,
         GcClockPast
<1>3. LiveNonceHeld'
  BY DEF CloseConnection, IInv, LiveNonceHeld
<1>4. FreshId'
  BY DEF CloseConnection, IInv, TypeOK, FreshId, Working
<1>5. QED
  BY <1>1, <1>2, <1>3, <1>4 DEF IInv

LEMMA TickInv ==
  ASSUME IInv, Tick
  PROVE  IInv'
<1>1. clock' = clock + 1 /\ clock \in Nat
  BY DEF Tick, IInv, TypeOK
<1>2. TypeOK'
  BY <1>1 DEF Tick, IInv, TypeOK
<1>3. CheckedJobs' /\ ApprovalStage'
  BY DEF Tick, IInv, CheckedJobs, ApprovalStage
<1>4. GcClockPast'
  BY <1>1 DEF Tick, IInv, TypeOK, GcClockPast, Working, Job
<1>5. LiveNonceHeld'
  BY <1>1 DEF Tick, IInv, TypeOK, LiveNonceHeld, NotHeld
<1>6. FreshId'
  BY DEF Tick, IInv, FreshId
<1>7. QED
  BY <1>2, <1>3, <1>4, <1>5, <1>6 DEF IInv

\* Manifests may change under a thread: it works on the one it looked up.
LEMMA RegisterManifestInv ==
  ASSUME IInv, NEW t \in Task, NEW m \in Manifests, RegisterManifest(t, m)
  PROVE  IInv'
BY DEF RegisterManifest, IInv, TypeOK, CheckedJobs, ApprovalStage, GcClockPast,
       LiveNonceHeld, FreshId

LEMMA StopStartInv ==
  ASSUME IInv, Stop \/ Start
  PROVE  IInv'
BY DEF Stop, Start, IInv, TypeOK, CheckedJobs, ApprovalStage, GcClockPast,
       LiveNonceHeld, FreshId

LEMMA CrashInv ==
  ASSUME IInv, Crash
  PROVE  IInv'
<1>1. TypeOK'
  BY BrokerConstants, BrokerNumbers
     DEF Crash, IInv, TypeOK, NotHeld, NoJob, NoReply, Working
<1>2. CheckedJobs' /\ ApprovalStage' /\ GcClockPast'
  BY DEF Crash, CheckedJobs, Checked, ApprovalStage, GcClockPast
<1>3. LiveNonceHeld'
  BY DEF Crash, IInv, TypeOK, LiveNonceHeld, NotHeld
<1>4. FreshId'
  BY DEF Crash, FreshId, Working, Nonce
<1>5. QED
  BY <1>1, <1>2, <1>3, <1>4 DEF IInv

LEMMA StutterInv ==
  ASSUME IInv, UNCHANGED vars
  PROVE  IInv'
BY DEF vars, IInv, TypeOK, CheckedJobs, ApprovalStage, GcClockPast,
       LiveNonceHeld, FreshId

LEMMA NextInv == IInv /\ [Next]_vars => IInv'
<1> SUFFICES ASSUME IInv, [Next]_vars
             PROVE  IInv'
  OBVIOUS
<1>1. CASE UNCHANGED vars
  BY <1>1, StutterInv
<1>2. CASE Tick \/ Stop \/ Start \/ Crash
  BY <1>2, TickInv, StopStartInv, CrashInv
<1>3. CASE \E t \in Task, m \in Manifests : RegisterManifest(t, m)
  BY <1>3, RegisterManifestInv
<1>4. ASSUME NEW h \in Handler,
             \/ AcceptConnection(h)
             \/ RejectConnection(h)
             \/ \E r \in Requests : Receive(h, r)
      PROVE  IInv'
  BY <1>4, AcceptConnectionInv, RejectConnectionInv, ReceiveInv
<1>5. ASSUME NEW h \in Handler, HandlerStep(h)
      PROVE  IInv'
  BY <1>4, <1>5, EvaluateInv, ReadGcClockInv, ConsumeApprovalInv,
     ConsumeGrantNonceInv, IssueInv, CloseConnectionInv DEF HandlerStep, WorkStep
<1>6. QED
  BY <1>1, <1>2, <1>3, <1>4, <1>5 DEF Next

LEMMA Invariance == Spec => []IInv
BY InitInv, NextInv, PTL DEF Spec

-----------------------------------------------------------------------------
(***************************************************************************)
(* The theorems.                                                           *)
(***************************************************************************)

\* Every variable keeps its type, for any number of handler threads,
\* approvals, tasks and manifests.
THEOREM TypeCorrect == Spec => []TypeOK
<1>1. IInv => TypeOK
  BY DEF IInv
<1>2. QED
  BY <1>1, Invariance, PTL

\* No interleaving of handler threads makes the ledger forget a nonce whose
\* window is open (_atomic_consume_nonce).
THEOREM LiveNoncesStay == Spec => []LiveNonceHeld
<1>1. IInv => LiveNonceHeld
  BY DEF IInv
<1>2. QED
  BY <1>1, Invariance, PTL

-----------------------------------------------------------------------------
(***************************************************************************)
(* Refinement of the ledger's promise.                                     *)
(***************************************************************************)

\* A thread that accepts a nonce finds its window closed: an open window
\* would still be in the ledger.
LEMMA ConsumeNonceImplements ==
  ASSUME IInv, NEW h \in Handler, NEW n \in Nonce, NEW expiry \in Nat,
         NEW next, ConsumeNonce(h, n, expiry, next), UNCHANGED clock
  PROVE  Ledger!Accept(n) \/ UNCHANGED Ledger!vars
<1>1. CASE UNCHANGED <<window, uses>>
  BY <1>1 DEF Ledger!vars
<1>2. CASE /\ ledger[n] = NotHeld
           /\ window' = [window EXCEPT ![n] = expiry]
           /\ uses' = [uses EXCEPT ![n] = @ + 1]
  <2>1. window[n] <= clock
    BY <1>2 DEF IInv, TypeOK, LiveNonceHeld, NotHeld
  <2>2. window'[n] = expiry
    BY <1>2 DEF IInv, TypeOK
  <2>3. QED
    BY <1>2, <2>1, <2>2 DEF Ledger!Accept
<1>3. QED
  BY <1>1, <1>2 DEF ConsumeNonce

LEMMA NextImplements == IInv /\ [Next]_vars => [Ledger!Next]_(Ledger!vars)
<1> SUFFICES ASSUME IInv, [Next]_vars
             PROVE  Ledger!Next \/ UNCHANGED Ledger!vars
  OBVIOUS
<1>1. CASE UNCHANGED vars
  BY <1>1 DEF vars, Ledger!vars
<1>2. CASE Tick
  BY <1>2 DEF Tick, Ledger!Next, Ledger!Tick
<1>3. CASE Crash
  BY <1>3 DEF Crash, Ledger!Next, Ledger!Forget, Ledger!NoWindow, NotHeld
<1>4. CASE Stop \/ Start \/ \E t \in Task, m \in Manifests : RegisterManifest(t, m)
  BY <1>4 DEF Stop, Start, RegisterManifest, Ledger!vars
<1>5. ASSUME NEW h \in Handler,
             \/ AcceptConnection(h)
             \/ RejectConnection(h)
             \/ \E r \in Requests : Receive(h, r)
      PROVE  UNCHANGED Ledger!vars
  BY <1>5 DEF AcceptConnection, RejectConnection, Receive, Ledger!vars
<1>6. ASSUME NEW h \in Handler,
             Evaluate(h) \/ ReadGcClock(h) \/ Issue(h) \/ CloseConnection(h)
      PROVE  UNCHANGED Ledger!vars
  BY <1>6 DEF Evaluate, ReadGcClock, Issue, CloseConnection, Ledger!vars
<1>7. ASSUME NEW h \in Handler, ConsumeApproval(h)
      PROVE  Ledger!Next \/ UNCHANGED Ledger!vars
  <2> DEFINE a == job[h].request.approval
  <2>1. a \in Approval
    BY <1>7 DEF ConsumeApproval, IInv, ApprovalStage, CheckedJobs, Checked
  <2>2. a \in Nonce /\ Token[a].valid_until \in Nat
    BY <2>1, BrokerConstants DEF Nonce, HumanApprovalProof
  <2>3. ConsumeNonce(h, a, Token[a].valid_until, "grant") /\ UNCHANGED clock
    BY <1>7 DEF ConsumeApproval
  <2> HIDE DEF a
  <2>4. QED
    BY <2>2, <2>3, ConsumeNonceImplements DEF Ledger!Next
<1>8. ASSUME NEW h \in Handler, ConsumeGrantNonce(h)
      PROVE  Ledger!Next \/ UNCHANGED Ledger!vars
  <2>1. job[h].id \in Nonce /\ job[h].now + GrantTTL \in Nat
    BY <1>8, BrokerNumbers DEF ConsumeGrantNonce, IInv, TypeOK, Working, Job, Nonce
  <2>2. QED
    BY <1>8, <2>1, ConsumeNonceImplements DEF ConsumeGrantNonce, Ledger!Next
<1>9. QED
  BY <1>1, <1>2, <1>3, <1>4, <1>5, <1>6, <1>7, <1>8 DEF Next, HandlerStep, WorkStep

\* The broker, with any number of threads, keeps the promise of ReplayLedger:
\* within one life of the process a nonce is never accepted twice before the
\* expiry it was first accepted with.
THEOREM BrokerImplementsReplayLedger == Spec => ImplementsReplayLedger
<1>1. Init => Ledger!Init
  BY DEF Init, Ledger!Init, Ledger!NoWindow, NotHeld
<1>2. QED
  BY <1>1, NextImplements, Invariance, PTL DEF Spec, ImplementsReplayLedger, Ledger!Spec

-----------------------------------------------------------------------------
(***************************************************************************)
(* Grants.                                                                 *)
(***************************************************************************)

GrantInv == GrantFollowsOneManifest /\ ApprovalBacksGrant

\* Only Issue adds a grant, and the thread that issues it has been checked.
LEMMA GrantStep == IInv /\ GrantInv /\ [Next]_vars => GrantInv'
<1> SUFFICES ASSUME IInv, GrantInv, [Next]_vars
             PROVE  GrantInv'
  OBVIOUS
<1>1. CASE grants' = grants
  BY <1>1 DEF GrantInv, GrantFollowsOneManifest, ApprovalBacksGrant
<1>2. ASSUME NEW h \in Handler, Issue(h)
      PROVE  GrantInv'
  <2> DEFINE j == job[h]
             g == NewGrant(j)
  <2>1. /\ grants' = grants \cup {g}
        /\ j \in Job
        /\ j.manifest \in Manifests
        /\ j.request.primitive \in j.manifest.primitives
        /\ NeedsApproval(j.request) =>
            /\ HasApprovalVerifier
            /\ j.request.approval \in Approval
            /\ VerifyApproval(Token[j.request.approval], j.request.hash, j.now)
    BY <1>2 DEF Issue, IInv, TypeOK, Working, CheckedJobs, Checked
  <2>2. /\ g.primitive = j.request.primitive
        /\ g.binding = j.manifest.resources
        /\ g.request = j.request
        /\ g.hash = j.request.hash
        /\ g.issued_at = j.now
    BY DEF NewGrant
  <2> HIDE DEF g, j
  <2>3. GrantFollowsOneManifest'
    BY <2>1, <2>2 DEF GrantInv, GrantFollowsOneManifest
  <2>4. ApprovalBacksGrant'
    BY <2>1, <2>2 DEF GrantInv, ApprovalBacksGrant, VerifyApproval
  <2>5. QED
    BY <2>3, <2>4 DEF GrantInv
<1>3. QED
  BY <1>1, <1>2
     DEF Next, vars, HandlerStep, WorkStep, Tick, Stop, Start, Crash, RegisterManifest,
         AcceptConnection, RejectConnection, Receive, Evaluate, ReadGcClock, ConsumeApproval,
         ConsumeGrantNonce, CloseConnection

LEMMA GrantInvariance == Spec => []GrantInv
<1>1. Init => GrantInv
  BY DEF Init, GrantInv, GrantFollowsOneManifest, ApprovalBacksGrant
<1>2. QED
  BY <1>1, GrantStep, Invariance, PTL DEF Spec

\* No grant mixes two manifests, however often a task's manifest is replaced
\* while its requests are processed.
THEOREM GrantsFollowOneManifest == Spec => []GrantFollowsOneManifest
<1>1. GrantInv => GrantFollowsOneManifest
  BY DEF GrantInv
<1>2. QED
  BY <1>1, GrantInvariance, PTL

\* Every grant that needs a human approval has one for its own semantics.
THEOREM ApprovalsBackGrants == Spec => []ApprovalBacksGrant
<1>1. GrantInv => ApprovalBacksGrant
  BY DEF GrantInv
<1>2. QED
  BY <1>1, GrantInvariance, PTL

-----------------------------------------------------------------------------
(***************************************************************************)
(* Refusals after the approval is spent.                                   *)
(***************************************************************************)

\* The nonce of a new grant is fresh, so the lock section that consumes it
\* refuses only when the ledger is full.
LEMMA SecondNonceFresh ==
  ASSUME IInv, NEW h \in Handler, ConsumeGrantNonce(h), pc'[h] = "replied"
  PROVE  Deny(h, "DENY_NONCE_STORE_SATURATED")
<1>1. ledger[job[h].id] = NotHeld
  BY DEF ConsumeGrantNonce, IInv, FreshId, Working
<1>2. pc' # [pc EXCEPT ![h] = "sign"]
  BY DEF IInv, TypeOK
<1>3. QED
  BY <1>1, <1>2 DEF ConsumeGrantNonce, ConsumeNonce

LEMMA RefusalStep ==
  ASSUME IInv, Next, NEW h \in Handler,
         pc[h] \in {"grant", "grant_gc", "sign"}, pc'[h] = "replied",
         reply'[h].status = "DENIED"
  PROVE  reply'[h].code = "DENY_NONCE_STORE_SATURATED"
<1>1. /\ pc \in [Handler -> Working \cup {"idle", "reading", "replied"}]
      /\ reply \in [Handler -> Granted \cup Denied \cup {NoReply}]
  BY DEF IInv, TypeOK
<1>2. pc'[h] # pc[h]
  OBVIOUS
<1>3. ~(Tick \/ Stop \/ Start \/ \E t \in Task, m \in Manifests : RegisterManifest(t, m))
  BY <1>2 DEF Tick, Stop, Start, RegisterManifest
<1>4. ~Crash
  BY DEF Crash
<1>5. ASSUME NEW k \in Handler,
             \/ AcceptConnection(k)
             \/ RejectConnection(k)
             \/ \E r \in Requests : Receive(k, r)
      PROVE  FALSE
  BY <1>1, <1>2, <1>5 DEF AcceptConnection, RejectConnection, Receive, Deny, Answer
<1>6. ASSUME NEW k \in Handler,
             Evaluate(k) \/ ReadGcClock(k) \/ ConsumeApproval(k) \/ CloseConnection(k)
      PROVE  FALSE
  BY <1>1, <1>2, <1>6
     DEF Evaluate, ReadGcClock, ConsumeApproval, CloseConnection, ConsumeNonce,
         Deny, Answer
<1>7. ASSUME NEW k \in Handler, Issue(k)
      PROVE  FALSE
  BY <1>1, <1>2, <1>7 DEF Issue, Answer
<1>8. ASSUME NEW k \in Handler, ConsumeGrantNonce(k)
      PROVE  reply'[h].code = "DENY_NONCE_STORE_SATURATED"
  <2>1. k = h
    BY <1>1, <1>2, <1>8 DEF ConsumeGrantNonce, ConsumeNonce, Deny, Answer
  <2>2. Deny(h, "DENY_NONCE_STORE_SATURATED")
    BY <1>8, <2>1, SecondNonceFresh
  <2>3. QED
    BY <1>1, <2>2 DEF Deny, Answer
<1>9. QED
  BY <1>3, <1>4, <1>5, <1>6, <1>7, <1>8 DEF Next, HandlerStep, WorkStep

\* A spent approval is lost to a full ledger only, never to a later check.
THEOREM SpentApprovalsLostToSaturationOnly == Spec => OnlySaturationAfterApproval
<1> DEFINE Refusal ==
      \A h \in Handler :
        (/\ pc[h] \in {"grant", "grant_gc", "sign"}
         /\ pc'[h] = "replied"
         /\ reply'[h].status = "DENIED")
        => reply'[h].code = "DENY_NONCE_STORE_SATURATED"
<1>1. IInv /\ [Next]_vars => [Refusal]_vars
  BY RefusalStep
<1>2. QED
  BY <1>1, Invariance, PTL DEF Spec, OnlySaturationAfterApproval

-----------------------------------------------------------------------------
(***************************************************************************)
(* The bound of the ledger.                                                *)
(***************************************************************************)

LEMMA AddOne ==
  ASSUME NEW S, NEW x, IsFiniteSet(S)
  PROVE  /\ IsFiniteSet(S \cup {x})
         /\ Cardinality(S \cup {x}) <= Cardinality(S) + 1
<1>1. Cardinality(S) \in Nat
  BY FS_CardinalityType
<1>2. QED
  BY <1>1, FS_AddElement

LEMMA ConsumeNonceBounded ==
  ASSUME IInv, LedgerBounded, NEW h \in Handler, NEW n \in Nonce,
         NEW expiry \in Nat, NEW next, ConsumeNonce(h, n, expiry, next),
         job[h].gc_now \in Nat
  PROVE  LedgerBounded'
<1> DEFINE kept == Collected(ledger, job[h].gc_now)
<1>1. kept \in [Nonce -> Nat \cup {NotHeld}]
  BY CollectedType DEF IInv, TypeOK
<1>2. HeldNonces(kept) \subseteq HeldNonces(ledger)
  BY DEF HeldNonces, Collected, NotHeld
<1>3. /\ IsFiniteSet(HeldNonces(kept))
      /\ Cardinality(HeldNonces(kept)) <= Cardinality(HeldNonces(ledger))
      /\ Cardinality(HeldNonces(kept)) \in Nat
      /\ Cardinality(HeldNonces(ledger)) \in Nat
  BY <1>2, FS_Subset, FS_CardinalityType DEF LedgerBounded
<1>4. CASE ledger' \in {ledger, kept}
  BY <1>3, <1>4, BrokerNumbers DEF LedgerBounded
<1>5. CASE /\ ~Full(kept)
           /\ ledger' = [kept EXCEPT ![n] = expiry]
  <2> HIDE DEF kept
  <2>1. HeldNonces(ledger') = HeldNonces(kept) \cup {n}
    BY <1>1, <1>5 DEF HeldNonces, NotHeld
  <2>2. /\ IsFiniteSet(HeldNonces(ledger'))
        /\ Cardinality(HeldNonces(ledger')) <= Cardinality(HeldNonces(kept)) + 1
    BY <1>3, <2>1, AddOne
  <2>3. Cardinality(HeldNonces(ledger')) \in Nat
    BY <2>2, FS_CardinalityType
  <2>4. QED
    BY <1>3, <1>5, <2>2, <2>3, BrokerNumbers DEF LedgerBounded, Full
<1>6. QED
  BY <1>4, <1>5 DEF ConsumeNonce

LEMMA LedgerBoundedStep == IInv /\ LedgerBounded /\ [Next]_vars => LedgerBounded'
<1> SUFFICES ASSUME IInv, LedgerBounded, [Next]_vars
             PROVE  LedgerBounded'
  OBVIOUS
<1>1. CASE ledger' = ledger
  BY <1>1 DEF LedgerBounded
<1>2. CASE Crash
  <2>1. HeldNonces(ledger') = {}
    BY <1>2 DEF Crash, HeldNonces
  <2>2. QED
    BY <2>1, FS_EmptySet, BrokerNumbers DEF LedgerBounded
<1>3. ASSUME NEW h \in Handler, ConsumeApproval(h)
      PROVE  LedgerBounded'
  <2> DEFINE a == job[h].request.approval
  <2>1. a \in Approval /\ job[h].gc_now \in Nat
    BY <1>3 DEF ConsumeApproval, IInv, TypeOK, Job, Working, ApprovalStage,
                CheckedJobs, Checked
  <2>2. a \in Nonce /\ Token[a].valid_until \in Nat
    BY <2>1, BrokerConstants DEF Nonce, HumanApprovalProof
  <2>3. ConsumeNonce(h, a, Token[a].valid_until, "grant")
    BY <1>3 DEF ConsumeApproval
  <2> HIDE DEF a
  <2>4. QED
    BY <2>1, <2>2, <2>3, ConsumeNonceBounded
<1>4. ASSUME NEW h \in Handler, ConsumeGrantNonce(h)
      PROVE  LedgerBounded'
  <2>1. /\ job[h].id \in Nonce
        /\ job[h].now + GrantTTL \in Nat
        /\ job[h].gc_now \in Nat
    BY <1>4, BrokerNumbers DEF ConsumeGrantNonce, IInv, TypeOK, Working, Job, Nonce
  <2>2. QED
    BY <1>4, <2>1, ConsumeNonceBounded DEF ConsumeGrantNonce
<1>5. QED
  BY <1>1, <1>2, <1>3, <1>4
     DEF Next, vars, HandlerStep, WorkStep, Tick, Stop, Start, RegisterManifest,
         AcceptConnection, RejectConnection, Receive, Evaluate, ReadGcClock, Issue,
         CloseConnection

\* The ledger stays within its configured size for any number of threads.
THEOREM LedgerStaysBounded == Spec => []LedgerBounded
<1>1. Init => LedgerBounded
  <2>1. ASSUME Init PROVE HeldNonces(ledger) = {}
    BY <2>1 DEF Init, HeldNonces
  <2>2. QED
    BY <2>1, FS_EmptySet, BrokerNumbers DEF LedgerBounded
<1>2. QED
  BY <1>1, LedgerBoundedStep, Invariance, PTL DEF Spec

-----------------------------------------------------------------------------
(***************************************************************************)
(* Who has spent an approval.                                              *)
(***************************************************************************)

\* A thread that has consumed nonce a of an approval and has yet to sign.
Spending(h, a) ==
  /\ pc[h] \in {"grant", "grant_gc", "sign"}
  /\ NeedsApproval(job[h].request)
  /\ job[h].request.approval = a

RestsOn(g, a) == NeedsApproval(g.request) /\ g.request.approval = a

\* As long as its approval is valid and the broker has not died, a nonce has
\* been spent, as it was sent, by one thread or one grant, and is accounted for.
SpentOnce ==
  crashes = 0 =>
    \A a \in Approval :
      clock < Token[a].valid_until =>
        /\ \A h, k \in Handler : Spending(h, a) /\ Spending(k, a) => h = k
        /\ \A f, g \in grants : RestsOn(f, a) /\ RestsOn(g, a) => f = g
        /\ \A h \in Handler, g \in grants : ~(Spending(h, a) /\ RestsOn(g, a))
        /\ \A h \in Handler :
             Spending(h, a) => window[a] = Token[a].valid_until
        /\ \A g \in grants :
             RestsOn(g, a) => window[a] = Token[a].valid_until

\* A step by which nobody begins to spend.
LEMMA SpentOnceKept ==
  ASSUME TypeOK, SpentOnce, crashes' = crashes, grants' = grants,
         clock' = clock \/ clock' = clock + 1,
         \A a \in Approval : window'[a] = window[a],
         \A h \in Handler, a \in Approval : (Spending(h, a))' => Spending(h, a)
  PROVE  SpentOnce'
<1> SUFFICES ASSUME crashes = 0, NEW a \in Approval, clock' < Token[a].valid_until
             PROVE
        /\ \A h, k \in Handler : (Spending(h, a))' /\ (Spending(k, a))' => h = k
        /\ \A f, g \in grants : RestsOn(f, a) /\ RestsOn(g, a) => f = g
        /\ \A h \in Handler, g \in grants : ~((Spending(h, a))' /\ RestsOn(g, a))
        /\ \A h \in Handler :
             (Spending(h, a))' => window[a] = Token[a].valid_until
        /\ \A g \in grants : RestsOn(g, a) => window[a] = Token[a].valid_until
  BY DEF SpentOnce, RestsOn
<1>1. clock \in Nat /\ Token[a].valid_until \in Nat
  BY BrokerConstants DEF TypeOK, HumanApprovalProof
<1>2. clock < Token[a].valid_until
  BY <1>1
<1>3. QED
  BY <1>2 DEF SpentOnce

\* A thread that ends its work or goes on with the same request at an earlier
\* stage spends nothing.
LEMMA ThreadKeepsSpending ==
  ASSUME TypeOK, NEW h \in Handler,
         \A k \in Handler : k # h => pc'[k] = pc[k] /\ job'[k] = job[k],
         \/ pc'[h] \notin {"grant", "grant_gc", "sign"}
         \/ ~NeedsApproval(job'[h].request)
         \/ /\ pc[h] \in {"grant", "grant_gc", "sign"}
            /\ job'[h].request = job[h].request
  PROVE  \A k \in Handler, a \in Approval : (Spending(k, a))' => Spending(k, a)
<1> SUFFICES ASSUME NEW k \in Handler, NEW a \in Approval, (Spending(k, a))'
             PROVE  Spending(k, a)
  OBVIOUS
<1>1. CASE k # h
  BY <1>1 DEF Spending, NeedsApproval, EffectiveTaint
<1>2. CASE k = h
  BY <1>2 DEF Spending, NeedsApproval, EffectiveTaint
<1>3. QED
  BY <1>1, <1>2

\* A thread that is answered spends nothing more.
LEMMA DenySpends ==
  ASSUME TypeOK, NEW h \in Handler, NEW code, Deny(h, code)
  PROVE  \A k \in Handler, a \in Approval : (Spending(k, a))' => Spending(k, a)
<1>1. \A k \in Handler : k # h => pc'[k] = pc[k] /\ job'[k] = job[k]
  BY DEF Deny, Answer, TypeOK
<1>2. pc'[h] = "replied"
  BY DEF Deny, Answer, TypeOK
<1>3. QED
  BY <1>1, <1>2, ThreadKeepsSpending

LEMMA EvaluateSpends ==
  ASSUME TypeOK, SpentOnce, NEW h \in Handler, Evaluate(h)
  PROVE  SpentOnce'
<1>1. UNCHANGED <<crashes, grants, clock, window>>
  BY DEF Evaluate
<1>2. \A k \in Handler, a \in Approval : (Spending(k, a))' => Spending(k, a)
  <2>1. CASE \E code : Deny(h, code)
    BY <2>1, DenySpends
  <2> DEFINE m == manifest_store[job[h].request.task]
  <2>2. CASE /\ pc' = [pc EXCEPT ![h] = IF NeedsApproval(job[h].request)
                                          THEN "approval" ELSE "grant"]
             /\ job' = [job EXCEPT ![h].manifest = m]
    <3>1. \A k \in Handler : k # h => pc'[k] = pc[k] /\ job'[k] = job[k]
      BY <2>2 DEF TypeOK
    <3>2. job[h] \in Job
      BY DEF Evaluate, TypeOK, Working
    <3>3. job'[h] = [job[h] EXCEPT !.manifest = m]
      BY <2>2 DEF TypeOK
    <3> HIDE DEF m
    <3>4. job'[h].request = job[h].request
      BY <3>2, <3>3 DEF Job
    <3>5. pc'[h] = "approval" \/ ~NeedsApproval(job[h].request)
      BY <2>2 DEF TypeOK
    <3>6. pc'[h] \notin {"grant", "grant_gc", "sign"}
            \/ ~NeedsApproval(job'[h].request)
      BY <3>4, <3>5 DEF NeedsApproval, EffectiveTaint
    <3>7. QED
      BY <3>1, <3>6, ThreadKeepsSpending
  <2>3. QED
    BY <2>1, <2>2 DEF Evaluate
<1>3. QED
  BY <1>1, <1>2, SpentOnceKept

\* Only a nonce that is not in the ledger is accepted, and that of a valid
\* approval that was spent is: the new spender is the only one.
LEMMA ConsumeApprovalSpends ==
  ASSUME IInv, SpentOnce, NEW h \in Handler, ConsumeApproval(h)
  PROVE  SpentOnce'
<1> DEFINE a == job[h].request.approval
           next == "grant"
<1>1. UNCHANGED <<crashes, grants, clock>> /\ TypeOK
  BY DEF ConsumeApproval, IInv
<1>2. a \in Approval
  BY DEF ConsumeApproval, IInv, ApprovalStage, CheckedJobs, Checked
<1>3. CASE (\E code : Deny(h, code)) /\ UNCHANGED window
  <2>1. \A k \in Handler, b \in Approval : (Spending(k, b))' => Spending(k, b)
    BY <1>1, <1>3, DenySpends
  <2>2. QED
    BY <1>1, <1>3, <2>1, SpentOnceKept
<1>4. CASE /\ ledger[a] = NotHeld
           /\ window' = [window EXCEPT ![a] = Token[a].valid_until]
           /\ pc' = [pc EXCEPT ![h] = "grant"]
           /\ UNCHANGED <<job, reply>>
  <2>1. \A k \in Handler : k # h => pc'[k] = pc[k]
    BY <1>1, <1>4 DEF TypeOK
  <2>2. window'[a] = Token[a].valid_until
    BY <1>1, <1>2, <1>4 DEF TypeOK, Nonce
  <2>3. \A b \in Approval : b # a => window'[b] = window[b]
    BY <1>1, <1>4 DEF TypeOK, Nonce
  <2>4. \A k \in Handler, b \in Approval :
          (Spending(k, b))' => Spending(k, b) \/ (k = h /\ b = a)
    BY <1>4, <2>1 DEF Spending, NeedsApproval, EffectiveTaint
  <2>5. ASSUME crashes = 0, clock < Token[a].valid_until
        PROVE  /\ \A k \in Handler : ~Spending(k, a)
               /\ \A g \in grants : ~RestsOn(g, a)
    <3>1. window[a] # Token[a].valid_until
      <4>1. a \in Nonce
        BY <1>2 DEF Nonce
      <4>2. Token[a].valid_until \in Nat /\ clock \in Nat
        BY <1>1, <1>2, BrokerConstants DEF TypeOK, HumanApprovalProof
      <4>3. window[a] > clock => ledger[a] = window[a]
        BY <4>1 DEF IInv, LiveNonceHeld
      <4>4. QED
        BY <1>4, <2>5, <4>2, <4>3 DEF NotHeld
    <3>2. QED
      BY <1>2, <2>5, <3>1 DEF SpentOnce
  <2> HIDE DEF a
  <2>6. SUFFICES ASSUME crashes = 0, NEW b \in Approval,
                        clock < Token[b].valid_until
                 PROVE
        /\ \A l, k \in Handler : (Spending(l, b))' /\ (Spending(k, b))' => l = k
        /\ \A f, g \in grants : RestsOn(f, b) /\ RestsOn(g, b) => f = g
        /\ \A l \in Handler, g \in grants : ~((Spending(l, b))' /\ RestsOn(g, b))
        /\ \A l \in Handler :
             (Spending(l, b))' => window'[b] = Token[b].valid_until
        /\ \A g \in grants : RestsOn(g, b) => window'[b] = Token[b].valid_until
    BY <1>1 DEF SpentOnce, RestsOn
  <2>7. CASE b = a
    BY <2>2, <2>4, <2>5, <2>6, <2>7
  <2>8. CASE b # a
    BY <2>3, <2>4, <2>6, <2>8 DEF SpentOnce
  <2>9. QED
    BY <2>7, <2>8
<1>5. QED
  BY <1>3, <1>4 DEF ConsumeApproval, ConsumeNonce

\* The nonce of a grant is not that of an approval.
LEMMA ConsumeGrantNonceSpends ==
  ASSUME IInv, SpentOnce, NEW h \in Handler, ConsumeGrantNonce(h)
  PROVE  SpentOnce'
<1>1. UNCHANGED <<crashes, grants, clock>> /\ TypeOK
  BY DEF ConsumeGrantNonce, IInv
<1>2. pc[h] = "grant_gc" /\ job[h].id \in GrantNonce
  BY DEF ConsumeGrantNonce, IInv, TypeOK, Working, Job
<1>3. CASE (\E code : Deny(h, code)) /\ UNCHANGED window
  <2>1. \A k \in Handler, b \in Approval : (Spending(k, b))' => Spending(k, b)
    BY <1>1, <1>3, DenySpends
  <2>2. QED
    BY <1>1, <1>3, <2>1, SpentOnceKept
<1>4. CASE /\ window' = [window EXCEPT ![job[h].id] = job[h].now + GrantTTL]
           /\ pc' = [pc EXCEPT ![h] = "sign"]
           /\ UNCHANGED <<job, reply>>
  <2>1. \A b \in Approval : window'[b] = window[b]
    BY <1>1, <1>2, <1>4, NoncesDistinct DEF TypeOK, Nonce
  <2>2. \A k \in Handler : k # h => pc'[k] = pc[k] /\ job'[k] = job[k]
    BY <1>1, <1>4 DEF TypeOK
  <2>3. \A k \in Handler, b \in Approval : (Spending(k, b))' => Spending(k, b)
    BY <1>1, <1>2, <1>4, <2>2, ThreadKeepsSpending
  <2>4. QED
    BY <1>1, <2>1, <2>3, SpentOnceKept
<1>5. QED
  BY <1>3, <1>4 DEF ConsumeGrantNonce, ConsumeNonce

\* What the thread has spent passes to the grant it signs.
LEMMA IssueSpends ==
  ASSUME IInv, SpentOnce, NEW h \in Handler, Issue(h)
  PROVE  SpentOnce'
<1> DEFINE new == NewGrant(job[h])
<1>1. /\ UNCHANGED <<crashes, clock, window>> /\ grants' = grants \cup {new}
      /\ pc[h] = "sign" /\ TypeOK
  BY DEF Issue, IInv
<1>2. new.request = job[h].request
  BY DEF NewGrant
<1>3. \A a \in Approval : RestsOn(new, a) => Spending(h, a)
  BY <1>1, <1>2 DEF RestsOn, Spending
<1>4. pc'[h] = "replied" /\ \A k \in Handler : k # h => pc'[k] = pc[k] /\ job'[k] = job[k]
  BY <1>1 DEF Issue, Answer, TypeOK
<1>5. \A k \in Handler, a \in Approval : (Spending(k, a))' => Spending(k, a) /\ k # h
  BY <1>4 DEF Spending, NeedsApproval, EffectiveTaint
<1> HIDE DEF new
<1>6. SUFFICES ASSUME crashes = 0, NEW a \in Approval, clock < Token[a].valid_until
               PROVE
        /\ \A l, k \in Handler : (Spending(l, a))' /\ (Spending(k, a))' => l = k
        /\ \A f, g \in grants' : RestsOn(f, a) /\ RestsOn(g, a) => f = g
        /\ \A l \in Handler, g \in grants' : ~((Spending(l, a))' /\ RestsOn(g, a))
        /\ \A l \in Handler :
             (Spending(l, a))' => window[a] = Token[a].valid_until
        /\ \A g \in grants' : RestsOn(g, a) => window[a] = Token[a].valid_until
  BY <1>1 DEF SpentOnce, RestsOn
<1>7. /\ \A l, k \in Handler : Spending(l, a) /\ Spending(k, a) => l = k
      /\ \A f, g \in grants : RestsOn(f, a) /\ RestsOn(g, a) => f = g
      /\ \A l \in Handler, g \in grants : ~(Spending(l, a) /\ RestsOn(g, a))
      /\ \A l \in Handler : Spending(l, a) => window[a] = Token[a].valid_until
      /\ \A g \in grants : RestsOn(g, a) => window[a] = Token[a].valid_until
  BY <1>6 DEF SpentOnce
<1>8. QED
  BY <1>1, <1>3, <1>5, <1>7

LEMMA SpentOnceStep == IInv /\ SpentOnce /\ [Next]_vars => SpentOnce'
<1> SUFFICES ASSUME IInv, SpentOnce, [Next]_vars PROVE SpentOnce'
  OBVIOUS
<1>1. TypeOK
  BY DEF IInv
<1>2. CASE /\ UNCHANGED <<pc, job, window, grants, crashes>>
           /\ clock' = clock \/ clock' = clock + 1
  <2>1. \A h \in Handler, a \in Approval : (Spending(h, a))' => Spending(h, a)
    BY <1>2 DEF Spending, NeedsApproval, EffectiveTaint
  <2>2. QED
    BY <1>1, <1>2, <2>1, SpentOnceKept
<1>3. CASE Tick \/ Stop \/ Start \/ (\E t \in Task, m \in Manifests : RegisterManifest(t, m))
           \/ UNCHANGED vars
  BY <1>2, <1>3 DEF Tick, Stop, Start, RegisterManifest, vars
<1>4. CASE Crash
  <2>1. crashes' = crashes + 1 /\ crashes \in Nat
    BY <1>1, <1>4 DEF Crash, TypeOK
  <2>2. QED
    BY <2>1 DEF SpentOnce
<1>5. ASSUME NEW h \in Handler,
             \/ AcceptConnection(h) \/ CloseConnection(h) \/ ReadGcClock(h)
             \/ \E r \in Requests : Receive(h, r)
      PROVE  SpentOnce'
  <2>1. UNCHANGED <<crashes, grants, clock, window>>
    BY <1>5 DEF AcceptConnection, CloseConnection, ReadGcClock, Receive
  <2>2. \A k \in Handler : k # h => pc'[k] = pc[k] /\ job'[k] = job[k]
    BY <1>1, <1>5 DEF AcceptConnection, CloseConnection, ReadGcClock, Receive,
                      TypeOK
  <2>3. \/ pc'[h] \notin {"grant", "grant_gc", "sign"}
        \/ /\ pc[h] \in {"grant", "grant_gc", "sign"}
           /\ job'[h].request = job[h].request
    <3>1. CASE ReadGcClock(h)
      <4>1. /\ pc[h] \in {"approval", "grant"} /\ job[h] \in Job
            /\ job'[h] = [job[h] EXCEPT !.gc_now = clock]
            /\ pc'[h] = IF pc[h] = "approval" THEN "approval_gc" ELSE "grant_gc"
        BY <1>1, <3>1 DEF ReadGcClock, TypeOK, Working
      <4>2. job'[h].request = job[h].request
        BY <4>1 DEF Job
      <4>3. QED
        BY <4>1, <4>2
    <3>2. CASE ~ReadGcClock(h)
      BY <1>1, <1>5, <3>2 DEF AcceptConnection, CloseConnection, Receive, TypeOK
    <3>3. QED
      BY <3>1, <3>2
  <2>4. \A k \in Handler, a \in Approval : (Spending(k, a))' => Spending(k, a)
    BY <1>1, <2>2, <2>3, ThreadKeepsSpending
  <2>5. QED
    BY <1>1, <2>1, <2>4, SpentOnceKept
<1>6. ASSUME NEW h \in Handler, RejectConnection(h) PROVE SpentOnce'
  <2>1. UNCHANGED <<crashes, grants, clock, window>> /\ \E code : Deny(h, code)
    BY <1>6 DEF RejectConnection
  <2>2. \A k \in Handler, a \in Approval : (Spending(k, a))' => Spending(k, a)
    BY <1>1, <2>1, DenySpends
  <2>3. QED
    BY <1>1, <2>1, <2>2, SpentOnceKept
<1>7. QED
  BY <1>1, <1>3, <1>4, <1>5, <1>6, EvaluateSpends, ConsumeApprovalSpends,
     ConsumeGrantNonceSpends, IssueSpends DEF Next, HandlerStep, WorkStep

\* Until its approval expires or the broker dies, a nonce is good for one grant
\* as it was sent, whatever threads race for it; an approval is good for as many
\* as its nonce is spelled in (V-08, _atomic_consume_nonce).
THEOREM ApprovalsAreSpentOnce == Spec => []SpentOnce
<1>1. Init => SpentOnce
  BY DEF Init, SpentOnce, Spending
<1>2. QED
  BY <1>1, SpentOnceStep, Invariance, PTL DEF Spec
=============================================================================
