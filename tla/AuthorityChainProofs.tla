------------------------ MODULE AuthorityChainProofs ------------------------
(***************************************************************************)
(* The chain runs the broker unchanged, so the theorems about the broker   *)
(* hold in it; and what a caller holds, does and did is what it was given. *)
(***************************************************************************)
EXTENDS AuthorityChain, AuthorityBrokerProofs

\* A step of the broker that does not depend on the clients.
LEMMA BrokerStepIsNext ==
  ASSUME NEW h \in Handler, BrokerStep(h)
  PROVE  Next
BY DEF BrokerStep, Next, HandlerStep, WorkStep

LEMMA EnvironmentIsNext == Environment => Next
BY DEF Environment, Next

\* A client writes only requests that the broker's environment may send.
LEMMA SentRequests == ChainSpec => [](sent \in [Handler -> Requests \cup {NoRequest}])
<1> DEFINE Inv == sent \in [Handler -> Requests \cup {NoRequest}]
<1>1. ChainInit => Inv
  BY DEF ChainInit
<1>2. Inv /\ [ChainNext]_<<vars, chainVars>> => Inv'
  <2> SUFFICES ASSUME Inv, [ChainNext]_<<vars, chainVars>> PROVE Inv'
    OBVIOUS
  <2>1. CASE UNCHANGED sent
    BY <2>1
  <2>2. ASSUME NEW c \in Caller, NEW op \in Operations, NEW h \in Handler,
               Call(c, op, h)
        PROVE  Inv'
    BY <2>2, ChainConstants DEF Call
  <2>3. ASSUME NEW h \in Handler,
               \/ CloseAbandoned(h)
               \/ \E c \in Caller : TakeAnswer(c, h)
        PROVE  Inv'
    BY <2>3 DEF CloseAbandoned, TakeAnswer
  <2>4. CASE BrokerCrash
    BY <2>4 DEF BrokerCrash
  <2>5. QED
    BY <2>1, <2>2, <2>3, <2>4
       DEF ChainNext, chainVars, CallerStep, GiveUp, VerifyGrant, Operate,
           ExecuteProcess, WriteFile, DeleteFile, SendRequest, TakesEffect,
           Refuse, Deliver, BrokerStep, Environment
<1>3. QED
  BY <1>1, <1>2, PTL DEF ChainSpec

LEMMA ChainStep ==
  sent \in [Handler -> Requests \cup {NoRequest}] /\ [ChainNext]_<<vars, chainVars>>
    => [Next]_vars
<1> SUFFICES ASSUME sent \in [Handler -> Requests \cup {NoRequest}],
                    [ChainNext]_<<vars, chainVars>>
             PROVE  Next \/ UNCHANGED vars
  OBVIOUS
<1>1. ASSUME NEW h \in Handler,
             \/ \E c \in Caller, op \in Operations : Call(c, op, h)
             \/ \E c \in Caller : TakeAnswer(c, h)
             \/ CloseAbandoned(h)
      PROVE  Next
  BY <1>1 DEF Call, TakeAnswer, CloseAbandoned, Next, HandlerStep, WorkStep
<1>2. ASSUME NEW h \in Handler, Deliver(h)
      PROVE  Next
  <2>1. sent[h] \in Requests
    BY <1>2 DEF Deliver
  <2>2. QED
    BY <1>2, <2>1 DEF Deliver, Next, HandlerStep, WorkStep
<1>3. ASSUME NEW c \in Caller, GiveUp(c) \/ VerifyGrant(c) \/ Operate(c)
      PROVE  UNCHANGED vars
  BY <1>3 DEF GiveUp, VerifyGrant, Operate, ExecuteProcess, WriteFile,
              DeleteFile, SendRequest, TakesEffect, Refuse
<1>4. CASE BrokerCrash
  BY <1>4 DEF BrokerCrash, Next
<1>5. QED
  BY <1>1, <1>2, <1>3, <1>4, BrokerStepIsNext, EnvironmentIsNext
     DEF ChainNext, CallerStep

\* The clients are an environment the broker already allows for: every
\* theorem about Spec is one about ChainSpec.
THEOREM ChainRunsBroker == ChainSpec => BrokerUnchanged
<1>1. ChainInit => Init
  BY DEF ChainInit
<1>2. QED
  BY <1>1, SentRequests, ChainStep, PTL DEF ChainSpec, Spec, BrokerUnchanged

\* The invariant of the broker holds at both ends of a step of the chain.
LEMMA BrokerInvariance == ChainSpec => []IInv
BY ChainRunsBroker, Invariance, PTL DEF BrokerUnchanged

LEMMA SentStays == ChainSpec => [][[Next]_vars]_<<vars, chainVars>>
BY SentRequests, ChainStep, PTL DEF ChainSpec
-----------------------------------------------------------------------------
(***************************************************************************)
(* What a step of the broker does to its thread, seen from the chain.      *)
(***************************************************************************)

OthersKeep(h) ==
  \A k \in Handler : k # h =>
    pc'[k] = pc[k] /\ job'[k] = job[k] /\ reply'[k] = reply[k]

WorksOn(h) ==
  /\ pc[h] \in Working /\ pc'[h] \in Working
  /\ job'[h].request = job[h].request
  /\ job'[h].id = job[h].id
  /\ job'[h].now = job[h].now
  /\ reply'[h] = reply[h]
  /\ grants' = grants

Refuses(h) ==
  /\ pc'[h] = "replied"
  /\ reply'[h].status = "DENIED"
  /\ grants' = grants

Grants(h) ==
  /\ pc[h] = "sign" /\ pc'[h] = "replied"
  /\ reply'[h] = [status |-> "GRANTED", grant |-> NewGrant(job[h])]
  /\ grants' = grants \cup {NewGrant(job[h])}

LEMMA DenyRefuses ==
  ASSUME TypeOK, NEW h \in Handler, NEW code, Deny(h, code), grants' = grants
  PROVE  OthersKeep(h) /\ Refuses(h)
BY DEF TypeOK, Deny, Answer, OthersKeep, Refuses

LEMMA ConsumeNonceOutcome ==
  ASSUME TypeOK, NEW h \in Handler, pc[h] \in Working, NEW n, NEW expiry,
         NEW next \in Working, ConsumeNonce(h, n, expiry, next), grants' = grants
  PROVE  OthersKeep(h) /\ (WorksOn(h) \/ Refuses(h))
<1>1. CASE \E code : Deny(h, code)
  BY <1>1, DenyRefuses
<1>2. CASE pc' = [pc EXCEPT ![h] = next] /\ UNCHANGED <<job, reply>>
  BY <1>2 DEF TypeOK, OthersKeep, WorksOn
<1>3. QED
  BY <1>1, <1>2 DEF ConsumeNonce

LEMMA BrokerStepOutcome ==
  ASSUME TypeOK, NEW h \in Handler, BrokerStep(h)
  PROVE  /\ OthersKeep(h)
         /\ WorksOn(h) \/ Refuses(h) \/ Grants(h)
         /\ UNCHANGED <<clock, received, chainVars>>
<1>1. UNCHANGED <<clock, received, chainVars>>
  BY DEF BrokerStep, RejectConnection, Evaluate, ReadGcClock, ConsumeApproval,
         ConsumeGrantNonce, Issue
<1>2. CASE RejectConnection(h)
  BY <1>1, <1>2, DenyRefuses DEF RejectConnection
<1>3. CASE Evaluate(h)
  <2> DEFINE m == manifest_store[job[h].request.task]
  <2>1. CASE \E code : Deny(h, code)
    BY <1>1, <1>3, <2>1, DenyRefuses DEF Evaluate
  <2>2. CASE /\ pc' = [pc EXCEPT ![h] = IF NeedsApproval(job[h].request)
                                          THEN "approval" ELSE "grant"]
             /\ job' = [job EXCEPT ![h].manifest = m]
             /\ UNCHANGED reply
    <3>1. pc[h] = "received" /\ grants' = grants
      BY <1>3 DEF Evaluate
    <3>2. pc[h] \in Working /\ job[h] \in Job
      BY <3>1 DEF TypeOK, Working
    <3>3. pc'[h] \in Working
      BY <2>2 DEF TypeOK, Working
    <3>4. job'[h] = [job[h] EXCEPT !.manifest = m]
      BY <2>2 DEF TypeOK
    <3> HIDE DEF m
    <3>5. /\ job'[h].request = job[h].request /\ job'[h].id = job[h].id
          /\ job'[h].now = job[h].now
      BY <3>2, <3>4 DEF Job
    <3>6. OthersKeep(h)
      BY <2>2 DEF TypeOK, OthersKeep
    <3>7. QED
      BY <1>1, <2>2, <3>1, <3>2, <3>3, <3>5, <3>6 DEF WorksOn
  <2>3. QED
    BY <1>3, <2>1, <2>2 DEF Evaluate
<1>4. CASE ReadGcClock(h)
  <2>1. /\ pc[h] \in {"approval", "grant"} /\ grants' = grants /\ reply' = reply
        /\ pc' = [pc EXCEPT ![h] = IF @ = "approval" THEN "approval_gc" ELSE "grant_gc"]
        /\ job' = [job EXCEPT ![h].gc_now = clock]
    BY <1>4 DEF ReadGcClock
  <2>2. pc[h] \in Working /\ job[h] \in Job
    BY <2>1 DEF TypeOK, Working
  <2>3. pc'[h] \in Working
    BY <2>1 DEF TypeOK, Working
  <2>4. job'[h] = [job[h] EXCEPT !.gc_now = clock]
    BY <2>1 DEF TypeOK
  <2>5. /\ job'[h].request = job[h].request /\ job'[h].id = job[h].id
        /\ job'[h].now = job[h].now
    BY <2>2, <2>4 DEF Job
  <2>6. OthersKeep(h)
    BY <2>1 DEF TypeOK, OthersKeep
  <2>7. QED
    BY <1>1, <2>1, <2>2, <2>3, <2>5, <2>6 DEF WorksOn
<1>5. CASE ConsumeApproval(h)
  BY <1>1, <1>5, ConsumeNonceOutcome DEF ConsumeApproval, Working
<1>6. CASE ConsumeGrantNonce(h)
  BY <1>1, <1>6, ConsumeNonceOutcome DEF ConsumeGrantNonce, Working
<1>7. CASE Issue(h)
  BY <1>1, <1>7 DEF Issue, Answer, TypeOK, OthersKeep, Grants
<1>8. QED
  BY <1>2, <1>3, <1>4, <1>5, <1>6, <1>7 DEF BrokerStep
-----------------------------------------------------------------------------
(***************************************************************************)
(* Types.                                                                  *)
(***************************************************************************)

CallerType == [Caller -> {NoCall} \cup Waiting \cup Holding \cup Verified]

\* In each state a caller has the fields of that state.
LEMMA CallerFields ==
  ASSUME caller \in CallerType, NEW c \in Caller
  PROVE  /\ caller[c].state = "waiting" => caller[c] \in Waiting
         /\ caller[c].state = "granted" => caller[c] \in Holding
         /\ caller[c].state = "verified" => caller[c] \in Verified
BY DEF CallerType, NoCall, Waiting, Holding, Verified

\* An answer that grants carries a grant.
LEMMA GrantedReply ==
  ASSUME TypeOK, NEW h \in Handler, reply[h].status = "GRANTED"
  PROVE  reply[h].grant \in CapabilityGrant
BY DEF TypeOK, Granted, Denied, NoReply

LEMMA CallerTypeStep ==
  ASSUME TypeOK, caller \in CallerType, [ChainNext]_<<vars, chainVars>>
  PROVE  caller' \in CallerType
<1>1. CASE caller' = caller
  BY <1>1
<1>2. ASSUME NEW c \in Caller, caller' = [caller EXCEPT ![c] = NoCall]
      PROVE  caller' \in CallerType
  BY <1>2 DEF CallerType
<1>3. ASSUME NEW c \in Caller, NEW op \in Operations, NEW h \in Handler,
             Call(c, op, h)
      PROVE  caller' \in CallerType
  <2>1. [state |-> "waiting", op |-> op, conn |-> h] \in Waiting
    BY DEF Waiting
  <2>2. QED
    BY <1>3, <2>1 DEF Call, CallerType
<1>4. ASSUME NEW c \in Caller, NEW h \in Handler, TakeAnswer(c, h)
      PROVE  caller' \in CallerType
  <2>1. CASE reply[h].status = "GRANTED"
    <3>1. caller[c] \in Waiting
      BY <1>4, CallerFields DEF TakeAnswer, AwaitsAnswer
    <3>2. [state |-> "granted", op |-> caller[c].op, grant |-> reply[h].grant]
            \in Holding
      BY <2>1, <3>1, GrantedReply DEF Waiting, Holding
    <3>3. QED
      BY <1>4, <2>1, <3>2 DEF TakeAnswer, CallerType
  <2>2. CASE reply[h].status # "GRANTED"
    BY <1>4, <2>2, <1>2 DEF TakeAnswer, CallerType
  <2>3. QED
    BY <2>1, <2>2
<1>5. ASSUME NEW c \in Caller, VerifyGrant(c) PROVE caller' \in CallerType
  <2>1. caller[c] \in Holding
    BY <1>5, CallerFields DEF VerifyGrant
  <2>2. [state |-> "verified", op |-> caller[c].op, grant |-> caller[c].grant,
         at |-> clock] \in Verified
    BY <2>1 DEF TypeOK, Holding, Verified
  <2>3. QED
    BY <1>5, <2>2 DEF VerifyGrant, CallerType
<1>6. CASE BrokerCrash
  <2>1. ASSUME NEW c \in Caller, caller[c].state = "waiting"
        PROVE  [caller[c] EXCEPT !.conn = NoConnection] \in Waiting
    BY <2>1, CallerFields DEF Waiting
  <2>2. QED
    BY <1>6, <2>1 DEF BrokerCrash, CallerType
<1>7. ASSUME NEW c \in Caller, GiveUp(c) \/ Operate(c)
      PROVE  caller' \in CallerType
  BY <1>2, <1>7 DEF GiveUp, Operate, ExecuteProcess, WriteFile, DeleteFile,
                    SendRequest, TakesEffect, Refuse
<1>8. QED
  BY <1>1, <1>3, <1>4, <1>5, <1>6, <1>7
     DEF ChainNext, CallerStep, chainVars, CloseAbandoned, Deliver, BrokerStep,
         Environment

\* Only an operation that takes its effect is counted.
LEMMA PerformedStep ==
  ASSUME [ChainNext]_<<vars, chainVars>>, performed' # performed
  PROVE  \E c \in Caller : caller[c].state = "verified" /\ TakesEffect(c)
BY DEF ChainNext, CallerStep, chainVars, Call, TakeAnswer, GiveUp, VerifyGrant,
       Operate, ExecuteProcess, WriteFile, DeleteFile, SendRequest, Passed,
       Refuse, CloseAbandoned, Deliver, BrokerStep, BrokerCrash, Environment

LEMMA PerformedTypeStep ==
  ASSUME caller \in CallerType, performed \in [GrantNonce -> Nat],
         [ChainNext]_<<vars, chainVars>>
  PROVE  performed' \in [GrantNonce -> Nat]
<1>1. CASE performed' = performed
  BY <1>1
<1>2. CASE performed' # performed
  <2>1. PICK c \in Caller : caller[c].state = "verified" /\ TakesEffect(c)
    BY <1>2, PerformedStep
  <2>2. caller[c].grant.nonce \in GrantNonce
    BY <2>1, CallerFields DEF Verified, CapabilityGrant
  <2>3. QED
    BY <2>1, <2>2 DEF TakesEffect
<1>3. QED
  BY <1>1, <1>2

\* The chain's variables have their types, for any number of callers,
\* operations and connections.
THEOREM ChainTypeCorrect == ChainSpec => []ChainTypeOK
<1> DEFINE Inv == caller \in CallerType /\ performed \in [GrantNonce -> Nat]
<1>1. ChainInit => Inv
  BY DEF ChainInit, CallerType
<1>2. IInv /\ Inv /\ [ChainNext]_<<vars, chainVars>> => Inv'
  BY CallerTypeStep, PerformedTypeStep DEF IInv
<1>3. /\ IInv /\ Inv /\ sent \in [Handler -> Requests \cup {NoRequest}]
      => ChainTypeOK
  BY DEF IInv, ChainTypeOK, CallerType
<1>4. QED
  BY <1>1, <1>2, <1>3, BrokerInvariance, SentRequests, PTL DEF ChainSpec
-----------------------------------------------------------------------------
(***************************************************************************)
(* What grants look like.                                                  *)
(***************************************************************************)

\* A grant says what its request says, from a time that has come, for the
\* broker's lifetime of grants; requests at work were read before now.
GrantShape ==
  /\ \A h \in Handler : pc[h] \in Working => job[h].now <= clock
  /\ \A g \in grants :
       /\ g.primitive = g.request.primitive
       /\ g.hash = g.request.hash
       /\ g.issued_at <= clock
       /\ g.expires_at = g.issued_at + GrantTTL

\* The clock never steps back.
LEMMA ClockStep == TypeOK /\ [Next]_vars => clock' >= clock /\ clock' \in Nat
<1>1. [Next]_vars => clock' = clock \/ clock' = clock + 1
  BY DEF Next, vars, Tick, RegisterManifest, Stop, Start, Crash,
         AcceptConnection, HandlerStep, WorkStep, RejectConnection, Receive, Evaluate,
         ReadGcClock, ConsumeApproval, ConsumeGrantNonce, Issue, CloseConnection
<1>2. TypeOK => clock \in Nat
  BY DEF TypeOK
<1>3. QED
  BY <1>1, <1>2

\* A thread is at work with the request it has worked on, or has just read one.
LEMMA AtWorkBefore ==
  ASSUME TypeOK, [ChainNext]_<<vars, chainVars>>, NEW h \in Handler,
         pc'[h] \in Working
  PROVE  \/ /\ pc[h] \in Working
            /\ job'[h].request = job[h].request /\ job'[h].id = job[h].id
            /\ job'[h].now = job[h].now
         \/ Deliver(h)
<1>1. ASSUME NEW k \in Handler, Deliver(k), k # h
      PROVE  pc'[h] = pc[h] /\ job'[h] = job[h]
  BY <1>1 DEF Deliver, Receive, TypeOK
<1>2. ASSUME NEW k \in Handler, BrokerStep(k)
      PROVE  /\ pc[h] \in Working
             /\ job'[h].request = job[h].request /\ job'[h].id = job[h].id
             /\ job'[h].now = job[h].now
  BY <1>2, BrokerStepOutcome DEF OthersKeep, WorksOn, Refuses, Grants, Working
<1>3. ASSUME NEW k \in Handler, CloseConnection(k) \/ AcceptConnection(k)
      PROVE  pc[h] \in Working /\ job'[h] = job[h]
  BY <1>3 DEF CloseConnection, AcceptConnection, TypeOK, Working
<1>4. ~Crash
  BY DEF Crash, Working
<1>5. ASSUME UNCHANGED <<pc, job>> PROVE pc[h] \in Working /\ job'[h] = job[h]
  BY <1>5
<1>6. QED
  BY <1>1, <1>2, <1>3, <1>4, <1>5
     DEF ChainNext, CallerStep, chainVars, vars, Call, TakeAnswer, GiveUp,
         VerifyGrant, Operate, ExecuteProcess, WriteFile, DeleteFile,
         SendRequest, TakesEffect, Refuse, CloseAbandoned, BrokerCrash,
         Environment, Tick, Stop, Start, RegisterManifest

\* A grant that is new was built by a thread that was about to sign.
LEMMA GrantsStep ==
  ASSUME TypeOK, [ChainNext]_<<vars, chainVars>>
  PROVE  \/ grants' = grants
         \/ \E h \in Handler : BrokerStep(h) /\ Grants(h)
<1>1. ASSUME NEW h \in Handler, BrokerStep(h)
      PROVE  grants' = grants \/ Grants(h)
  BY <1>1, BrokerStepOutcome DEF WorksOn, Refuses
<1>2. QED
  BY <1>1
     DEF ChainNext, CallerStep, chainVars, vars, Call, TakeAnswer, GiveUp,
         VerifyGrant, Operate, ExecuteProcess, WriteFile, DeleteFile,
         SendRequest, TakesEffect, Refuse, Deliver, Receive, CloseAbandoned,
         CloseConnection, AcceptConnection, BrokerCrash, Crash,
         Environment, Tick, Stop, Start, RegisterManifest

LEMMA GrantShapeStep ==
  ASSUME IInv, GrantShape, [ChainNext]_<<vars, chainVars>>, [Next]_vars
  PROVE  GrantShape'
<1>1. TypeOK /\ TypeOK'
  BY NextInv DEF IInv
<1>2. clock' >= clock /\ clock' \in Nat /\ clock \in Nat
  BY <1>1, ClockStep DEF TypeOK
<1>3. ASSUME NEW h \in Handler, pc'[h] \in Working
      PROVE  job'[h].now <= clock'
  <2>1. CASE /\ pc[h] \in Working
             /\ job'[h].now = job[h].now
    <3>1. job[h].now \in Nat /\ job[h].now <= clock
      BY <1>1, <2>1 DEF GrantShape, TypeOK, Job
    <3>2. QED
      BY <1>2, <2>1, <3>1
  <2>2. CASE Deliver(h)
    BY <1>1, <1>2, <2>2 DEF Deliver, Receive, TypeOK
  <2>3. QED
    BY <1>1, <1>3, <2>1, <2>2, AtWorkBefore
<1>4. ASSUME NEW g \in grants
      PROVE  /\ g.primitive = g.request.primitive /\ g.hash = g.request.hash
             /\ g.issued_at <= clock' /\ g.expires_at = g.issued_at + GrantTTL
  <2>1. g.issued_at \in Nat
    BY <1>1 DEF TypeOK, CapabilityGrant
  <2>2. g.issued_at <= clock
    BY DEF GrantShape
  <2>3. g.issued_at <= clock'
    BY <1>2, <2>1, <2>2
  <2>4. QED
    BY <2>3 DEF GrantShape
<1>5. ASSUME NEW h \in Handler, BrokerStep(h), Grants(h)
      PROVE  LET g == NewGrant(job[h])
             IN  /\ g.primitive = g.request.primitive
                 /\ g.hash = g.request.hash
                 /\ g.issued_at <= clock'
                 /\ g.expires_at = g.issued_at + GrantTTL
  <2>1. job[h].now <= clock /\ clock' = clock
    BY <1>1, <1>5, BrokerStepOutcome DEF Grants, Working, GrantShape
  <2>2. QED
    BY <2>1 DEF NewGrant
<1>6. \A g \in grants' :
        /\ g.primitive = g.request.primitive /\ g.hash = g.request.hash
        /\ g.issued_at <= clock' /\ g.expires_at = g.issued_at + GrantTTL
  BY <1>1, <1>4, <1>5, GrantsStep DEF Grants
<1>7. QED
  BY <1>3, <1>6 DEF GrantShape
-----------------------------------------------------------------------------
(***************************************************************************)
(* Who holds which answer.                                                 *)
(***************************************************************************)

\* A thread works on the request its client wrote, answers with a grant for
\* it, and no other client waits on its connection.
JobsFit ==
  \A h \in Handler : pc[h] \in Working => job[h].request = sent[h]

RepliesFit ==
  \A h \in Handler :
    reply[h].status = "GRANTED" =>
      /\ pc[h] = "replied"
      /\ reply[h].grant \in grants
      /\ reply[h].grant.request = sent[h]

AwaitsFit ==
  \A c \in Caller, h \in Handler :
    AwaitsAnswer(c, h) =>
      /\ pc[h] # "idle"
      /\ sent[h] = RequestOf(caller[c].op)
      /\ \A d \in Caller : AwaitsAnswer(d, h) => d = c

Matched == JobsFit /\ RepliesFit /\ AwaitsFit /\ GrantAnswersCall

LEMMA MatchedCall ==
  ASSUME TypeOK, caller \in CallerType, Matched,
         sent \in [Handler -> Requests \cup {NoRequest}],
         NEW c \in Caller, NEW op \in Operations, NEW h \in Handler,
         Call(c, op, h)
  PROVE  Matched'
<1>1. /\ pc[h] = "idle" /\ pc' = [pc EXCEPT ![h] = "reading"]
      /\ job' = job /\ reply' = reply /\ grants' = grants
      /\ caller' = [caller EXCEPT ![c] = [state |-> "waiting", op |-> op, conn |-> h]]
      /\ sent' = [sent EXCEPT ![h] = RequestOf(op)]
  BY DEF Call, AcceptConnection
<1>2. pc'[h] = "reading" /\ sent'[h] = RequestOf(op)
  BY <1>1 DEF TypeOK
<1>3. \A k \in Handler : k # h => pc'[k] = pc[k] /\ sent'[k] = sent[k]
  BY <1>1 DEF TypeOK
<1>4. caller'[c] = [state |-> "waiting", op |-> op, conn |-> h]
  BY <1>1 DEF CallerType
<1>5. \A d \in Caller : d # c => caller'[d] = caller[d]
  BY <1>1 DEF CallerType
<1>6. JobsFit'
  BY <1>1, <1>2, <1>3 DEF Matched, JobsFit, Working
<1>7. RepliesFit'
  BY <1>1, <1>3 DEF Matched, RepliesFit
<1>8. AwaitsFit'
  <2>1. \A d \in Caller : ~AwaitsAnswer(d, h)
    BY <1>1 DEF Matched, AwaitsFit
  <2>2. \A d \in Caller : (AwaitsAnswer(d, h))' <=> d = c
    BY <1>4, <1>5, <2>1 DEF AwaitsAnswer
  <2>3. \A d \in Caller, k \in Handler :
          k # h => ((AwaitsAnswer(d, k))' => AwaitsAnswer(d, k) /\ d # c)
    BY <1>4, <1>5 DEF AwaitsAnswer
  <2>4. ASSUME NEW d \in Caller, NEW k \in Handler, (AwaitsAnswer(d, k))'
        PROVE  /\ pc'[k] # "idle"
               /\ sent'[k] = RequestOf(caller'[d].op)
               /\ \A e \in Caller : (AwaitsAnswer(e, k))' => e = d
    <3>1. CASE k = h
      <4>1. d = c
        BY <2>2, <2>4, <3>1
      <4>2. QED
        BY <1>2, <1>4, <2>2, <3>1, <4>1
    <3>2. CASE k # h
      <4>1. AwaitsAnswer(d, k) /\ d # c
        BY <2>3, <2>4, <3>2
      <4>2. /\ pc[k] # "idle" /\ sent[k] = RequestOf(caller[d].op)
            /\ \A e \in Caller : AwaitsAnswer(e, k) => e = d
        BY <4>1 DEF Matched, AwaitsFit
      <4>3. QED
        BY <1>3, <1>5, <2>3, <3>2, <4>1, <4>2
    <3>3. QED
      BY <3>1, <3>2
  <2>5. QED
    BY <2>4 DEF AwaitsFit
<1>9. GrantAnswersCall'
  BY <1>1, <1>4, <1>5 DEF Matched, GrantAnswersCall
<1>10. QED
  BY <1>6, <1>7, <1>8, <1>9 DEF Matched

\* A connection is closed: by the client that waits on it, or with none.
LEMMA MatchedClose ==
  ASSUME TypeOK, caller \in CallerType, Matched,
         sent \in [Handler -> Requests \cup {NoRequest}],
         NEW h \in Handler, CloseConnection(h),
         sent' = [sent EXCEPT ![h] = NoRequest],
         \A d \in Caller : ~(AwaitsAnswer(d, h))',
         \A d \in Caller :
           \/ caller'[d] = caller[d]
           \/ caller'[d] = NoCall
           \/ /\ AwaitsAnswer(d, h) /\ reply[h].status = "GRANTED"
              /\ caller'[d] = [state |-> "granted", op |-> caller[d].op,
                               grant |-> reply[h].grant]
  PROVE  Matched'
<1>1. /\ job' = job /\ grants' = grants
      /\ pc' = [pc EXCEPT ![h] = "idle"] /\ reply' = [reply EXCEPT ![h] = NoReply]
  BY DEF CloseConnection
<1>2. pc'[h] = "idle" /\ reply'[h] = NoReply
  BY <1>1 DEF TypeOK
<1>3. \A k \in Handler : k # h =>
        pc'[k] = pc[k] /\ reply'[k] = reply[k] /\ sent'[k] = sent[k]
  BY <1>1 DEF TypeOK
<1>4. JobsFit'
  BY <1>1, <1>2, <1>3 DEF Matched, JobsFit, Working
<1>5. RepliesFit'
  BY <1>1, <1>2, <1>3 DEF Matched, RepliesFit, NoReply
<1>6. \A d \in Caller, k \in Handler : (AwaitsAnswer(d, k))' =>
        k # h /\ AwaitsAnswer(d, k) /\ caller'[d] = caller[d]
  <2> SUFFICES ASSUME NEW d \in Caller, NEW k \in Handler, (AwaitsAnswer(d, k))'
               PROVE  k # h /\ AwaitsAnswer(d, k) /\ caller'[d] = caller[d]
    OBVIOUS
  <2>1. k # h
    OBVIOUS
  <2>2. caller'[d].state = "waiting" /\ caller'[d].conn = k
    BY DEF AwaitsAnswer
  <2>3. caller'[d] = caller[d]
    <3>1. NoCall.state # "waiting"
      BY DEF NoCall
    <3>2. caller'[d] # NoCall
      BY <2>2, <3>1
    <3>3. caller'[d] # [state |-> "granted", op |-> caller[d].op,
                        grant |-> reply[h].grant]
      BY <2>2
    <3>4. QED
      BY <3>2, <3>3
  <2>4. QED
    BY <2>1, <2>2, <2>3 DEF AwaitsAnswer
<1>7. AwaitsFit'
  BY <1>3, <1>6 DEF Matched, AwaitsFit
<1>8. ASSUME NEW d \in Caller, caller'[d].state \in {"granted", "verified"}
      PROVE  /\ caller'[d].grant \in grants
             /\ caller'[d].grant.request = RequestOf(caller'[d].op)
  <2>1. CASE caller'[d] = caller[d]
    BY <1>8, <2>1 DEF Matched, GrantAnswersCall
  <2>2. CASE caller'[d] = NoCall
    BY <1>8, <2>2 DEF NoCall
  <2>3. CASE /\ AwaitsAnswer(d, h) /\ reply[h].status = "GRANTED"
             /\ caller'[d] = [state |-> "granted", op |-> caller[d].op,
                              grant |-> reply[h].grant]
    <3>1. sent[h] = RequestOf(caller[d].op)
      BY <2>3 DEF Matched, AwaitsFit
    <3>2. reply[h].grant \in grants /\ reply[h].grant.request = sent[h]
      BY <2>3 DEF Matched, RepliesFit
    <3>3. QED
      BY <2>3, <3>1, <3>2
  <2>4. QED
    BY <2>1, <2>2, <2>3
<1>9. GrantAnswersCall'
  BY <1>1, <1>8 DEF GrantAnswersCall
<1>10. QED
  BY <1>4, <1>5, <1>7, <1>9 DEF Matched

LEMMA MatchedTakeAnswer ==
  ASSUME TypeOK, caller \in CallerType, Matched,
         sent \in [Handler -> Requests \cup {NoRequest}],
         NEW c \in Caller, NEW h \in Handler, TakeAnswer(c, h)
  PROVE  Matched'
<1>1. /\ AwaitsAnswer(c, h) /\ CloseConnection(h)
      /\ sent' = [sent EXCEPT ![h] = NoRequest]
  BY DEF TakeAnswer
<1>2. caller'[c] = IF reply[h].status = "GRANTED"
                     THEN [state |-> "granted", op |-> caller[c].op,
                           grant |-> reply[h].grant]
                     ELSE NoCall
  BY DEF TakeAnswer, CallerType
<1>3. \A d \in Caller : d # c => caller'[d] = caller[d]
  BY DEF TakeAnswer, CallerType
<1>4. \A d \in Caller : d # c => ~AwaitsAnswer(d, h)
  BY <1>1 DEF Matched, AwaitsFit
<1>5. \A d \in Caller : ~(AwaitsAnswer(d, h))'
  BY <1>2, <1>3, <1>4 DEF AwaitsAnswer, NoCall
<1>6. \A d \in Caller :
        \/ caller'[d] = caller[d]
        \/ caller'[d] = NoCall
        \/ /\ AwaitsAnswer(d, h) /\ reply[h].status = "GRANTED"
           /\ caller'[d] = [state |-> "granted", op |-> caller[d].op,
                            grant |-> reply[h].grant]
  BY <1>1, <1>2, <1>3
<1>7. QED
  BY <1>1, <1>5, <1>6, MatchedClose

\* The clients' own steps touch no connection.
LEMMA MatchedLocal ==
  ASSUME caller \in CallerType, Matched, NEW c \in Caller,
         GiveUp(c) \/ VerifyGrant(c) \/ Operate(c)
  PROVE  Matched'
<1>1. UNCHANGED <<pc, job, reply, grants, sent>>
  BY DEF GiveUp, VerifyGrant, Operate, ExecuteProcess, WriteFile, DeleteFile,
         SendRequest, TakesEffect, Refuse, vars
<1>2. \A d \in Caller : d # c => caller'[d] = caller[d]
  BY DEF CallerType, GiveUp, VerifyGrant, Operate, ExecuteProcess, WriteFile,
         DeleteFile, SendRequest, TakesEffect, Refuse
<1>3. \/ caller'[c] = NoCall
      \/ /\ caller[c].state = "granted"
         /\ caller'[c] = [state |-> "verified", op |-> caller[c].op,
                          grant |-> caller[c].grant, at |-> clock]
  BY DEF CallerType, GiveUp, VerifyGrant, Operate, ExecuteProcess, WriteFile,
         DeleteFile, SendRequest, TakesEffect, Refuse
<1>4. JobsFit' /\ RepliesFit'
  BY <1>1 DEF Matched, JobsFit, RepliesFit
<1>5. \A d \in Caller, k \in Handler : (AwaitsAnswer(d, k))' =>
        AwaitsAnswer(d, k) /\ caller'[d] = caller[d]
  BY <1>2, <1>3 DEF AwaitsAnswer, NoCall
<1>6. AwaitsFit'
  BY <1>1, <1>5 DEF Matched, AwaitsFit
<1>7. GrantAnswersCall'
  BY <1>1, <1>2, <1>3 DEF Matched, GrantAnswersCall, NoCall
<1>8. QED
  BY <1>4, <1>6, <1>7 DEF Matched

LEMMA MatchedDeliver ==
  ASSUME TypeOK, Matched, NEW h \in Handler, Deliver(h)
  PROVE  Matched'
<1>1. /\ pc[h] = "reading" /\ pc' = [pc EXCEPT ![h] = "received"]
      /\ job' = [job EXCEPT ![h] =
           [request |-> sent[h], id |-> received + 1, now |-> clock,
            gc_now |-> 0, manifest |-> NoManifest]]
      /\ reply' = reply /\ grants' = grants /\ sent' = sent /\ caller' = caller
  BY DEF Deliver, Receive, chainVars
<1>2. pc'[h] = "received" /\ job'[h].request = sent[h]
  BY <1>1 DEF TypeOK
<1>3. \A k \in Handler : k # h => pc'[k] = pc[k] /\ job'[k] = job[k]
  BY <1>1 DEF TypeOK
<1>4. JobsFit'
  BY <1>1, <1>2, <1>3 DEF Matched, JobsFit
<1>5. RepliesFit'
  BY <1>1, <1>3 DEF Matched, RepliesFit
<1>6. AwaitsFit'
  BY <1>1, <1>2, <1>3 DEF Matched, AwaitsFit, AwaitsAnswer
<1>7. GrantAnswersCall'
  BY <1>1 DEF Matched, GrantAnswersCall
<1>8. QED
  BY <1>4, <1>5, <1>6, <1>7 DEF Matched

LEMMA MatchedBroker ==
  ASSUME TypeOK, Matched, NEW h \in Handler, BrokerStep(h)
  PROVE  Matched'
<1>1. OthersKeep(h) /\ (WorksOn(h) \/ Refuses(h) \/ Grants(h))
  BY BrokerStepOutcome
<1>2. sent' = sent /\ caller' = caller
  BY BrokerStepOutcome DEF chainVars
<1>3. pc[h] # "idle" /\ pc'[h] # "idle"
  <2>1. pc[h] # "idle"
    BY DEF BrokerStep, RejectConnection, Evaluate, ReadGcClock,
           ConsumeApproval, ConsumeGrantNonce, Issue
  <2>2. pc'[h] # "idle"
    BY <1>1 DEF WorksOn, Refuses, Grants, Working
  <2>3. QED
    BY <2>1, <2>2
<1>4. grants \subseteq grants'
  BY <1>1 DEF WorksOn, Refuses, Grants
<1>5. JobsFit'
  BY <1>1, <1>2 DEF OthersKeep, WorksOn, Refuses, Grants, Matched, JobsFit, Working
<1>6. RepliesFit'
  <2> SUFFICES ASSUME NEW k \in Handler, reply'[k].status = "GRANTED"
               PROVE  /\ pc'[k] = "replied"
                      /\ reply'[k].grant \in grants'
                      /\ reply'[k].grant.request = sent'[k]
    BY DEF RepliesFit
  <2>1. CASE k # h
    BY <1>1, <1>2, <1>4, <2>1 DEF OthersKeep, Matched, RepliesFit
  <2>2. CASE k = h /\ WorksOn(h)
    <3>1. reply[h].status = "GRANTED" /\ pc[h] \in Working
      BY <2>2 DEF WorksOn
    <3>2. QED
      BY <3>1 DEF Matched, RepliesFit, Working
  <2>3. CASE k = h /\ Refuses(h)
    BY <2>3 DEF Refuses
  <2>4. CASE k = h /\ Grants(h)
    <3>1. /\ reply'[h].grant = NewGrant(job[h]) /\ pc'[h] = "replied"
          /\ NewGrant(job[h]) \in grants' /\ pc[h] \in Working
      BY <2>4 DEF Grants, Working
    <3>2. NewGrant(job[h]).request = job[h].request
      BY DEF NewGrant
    <3>3. job[h].request = sent[h]
      BY <3>1 DEF Matched, JobsFit
    <3>4. QED
      BY <1>2, <2>4, <3>1, <3>2, <3>3
  <2>5. QED
    BY <1>1, <2>1, <2>2, <2>3, <2>4
<1>7. AwaitsFit'
  BY <1>1, <1>2, <1>3 DEF OthersKeep, Matched, AwaitsFit, AwaitsAnswer
<1>8. GrantAnswersCall'
  BY <1>2, <1>4 DEF Matched, GrantAnswersCall
<1>9. QED
  BY <1>5, <1>6, <1>7, <1>8 DEF Matched

LEMMA MatchedCrash ==
  ASSUME caller \in CallerType, Matched, BrokerCrash
  PROVE  Matched'
<1>1. /\ pc' = [h \in Handler |-> "idle"] /\ reply' = [h \in Handler |-> NoReply]
      /\ grants' = grants
      /\ caller' = [c \in Caller |->
           IF caller[c].state = "waiting"
           THEN [caller[c] EXCEPT !.conn = NoConnection] ELSE caller[c]]
  BY DEF BrokerCrash, Crash
<1>2. JobsFit' /\ RepliesFit'
  BY <1>1 DEF JobsFit, RepliesFit, Working, NoReply
<1>3. ASSUME NEW c \in Caller
      PROVE  /\ caller[c].state = "waiting" =>
                  caller'[c].state = "waiting" /\ caller'[c].conn = NoConnection
             /\ caller[c].state # "waiting" => caller'[c] = caller[c]
  BY <1>1, CallerFields DEF Waiting
<1>4. \A c \in Caller, h \in Handler : ~(AwaitsAnswer(c, h))'
  BY <1>3, ChainConstants DEF AwaitsAnswer
<1>5. AwaitsFit'
  BY <1>4 DEF AwaitsFit
<1>6. GrantAnswersCall'
  BY <1>1, <1>3 DEF Matched, GrantAnswersCall
<1>7. QED
  BY <1>2, <1>5, <1>6 DEF Matched

LEMMA MatchedStep ==
  ASSUME TypeOK, caller \in CallerType, Matched,
         sent \in [Handler -> Requests \cup {NoRequest}],
         [ChainNext]_<<vars, chainVars>>
  PROVE  Matched'
<1>1. CASE UNCHANGED <<pc, job, reply, grants, chainVars>>
  BY <1>1 DEF chainVars, Matched, JobsFit, RepliesFit, AwaitsFit, AwaitsAnswer,
              GrantAnswersCall
<1>2. ASSUME NEW h \in Handler, CloseAbandoned(h) PROVE Matched'
  <2>1. /\ CloseConnection(h) /\ sent' = [sent EXCEPT ![h] = NoRequest]
        /\ caller' = caller
    BY <1>2 DEF CloseAbandoned
  <2>2. \A d \in Caller : ~(AwaitsAnswer(d, h))'
    BY <1>2, <2>1 DEF CloseAbandoned, AwaitsAnswer
  <2>3. QED
    BY <2>1, <2>2, MatchedClose
<1>3. CASE Environment
  BY <1>1, <1>3 DEF Environment, Tick, Stop, Start, RegisterManifest
<1>4. CASE UNCHANGED <<vars, chainVars>>
  BY <1>1, <1>4 DEF vars
<1>5. QED
  BY <1>2, <1>3, <1>4, MatchedCall, MatchedTakeAnswer, MatchedLocal,
     MatchedDeliver, MatchedBroker, MatchedCrash DEF ChainNext, CallerStep
-----------------------------------------------------------------------------
(***************************************************************************)
(* The gates' judgements.                                                  *)
(***************************************************************************)

\* A gate's judgement was made of the grant that is held, at a time past.
Judged ==
  \A c \in Caller :
    caller[c].state = "verified" =>
      /\ caller[c].grant.issued_at <= caller[c].at
      /\ GateAccepts(caller[c].grant, caller[c].op, caller[c].at)

LEMMA JudgedStep ==
  ASSUME IInv, GrantShape, Matched, caller \in CallerType, Judged,
         [ChainNext]_<<vars, chainVars>>
  PROVE  Judged'
<1>1. CASE caller' = caller
  BY <1>1 DEF Judged
<1>2. ASSUME NEW c \in Caller, NEW to, to.state # "verified",
             caller' = [caller EXCEPT ![c] = to]
      PROVE  Judged'
  BY <1>2 DEF Judged, CallerType
<1>3. ASSUME NEW c \in Caller, NEW op \in Operations, NEW h \in Handler,
             Call(c, op, h)
      PROVE  Judged'
  BY <1>2, <1>3 DEF Call
<1>4. ASSUME NEW c \in Caller, NEW h \in Handler, TakeAnswer(c, h)
      PROVE  Judged'
  <2> DEFINE to == IF reply[h].status = "GRANTED"
                     THEN [state |-> "granted", op |-> caller[c].op,
                           grant |-> reply[h].grant]
                     ELSE NoCall
  <2>1. to.state # "verified"
    BY DEF NoCall
  <2>2. caller' = [caller EXCEPT ![c] = to]
    BY <1>4 DEF TakeAnswer
  <2> HIDE DEF to
  <2>3. QED
    BY <1>2, <2>1, <2>2
<1>5. ASSUME NEW c \in Caller, GiveUp(c) \/ Operate(c) PROVE Judged'
  <2>1. NoCall.state # "verified"
    BY DEF NoCall
  <2>2. caller' = [caller EXCEPT ![c] = NoCall]
    BY <1>5 DEF GiveUp, Operate, ExecuteProcess, WriteFile, DeleteFile,
                SendRequest, TakesEffect, Refuse
  <2>3. QED
    BY <1>2, <2>1, <2>2
<1>6. ASSUME NEW c \in Caller, VerifyGrant(c) PROVE Judged'
  <2>1. CASE ~GateAccepts(caller[c].grant, caller[c].op, clock)
    <3>1. caller' = [caller EXCEPT ![c] = NoCall]
      BY <1>6, <2>1 DEF VerifyGrant
    <3>2. NoCall.state # "verified"
      BY DEF NoCall
    <3>3. QED
      BY <1>2, <3>1, <3>2
  <2>2. CASE GateAccepts(caller[c].grant, caller[c].op, clock)
    <3>1. caller' = [caller EXCEPT ![c] =
             [state |-> "verified", op |-> caller[c].op,
              grant |-> caller[c].grant, at |-> clock]]
      BY <1>6, <2>2 DEF VerifyGrant
    <3>2. caller[c].grant \in grants
      BY <1>6 DEF VerifyGrant, Matched, GrantAnswersCall
    <3>3. caller[c].grant.issued_at <= clock
      BY <3>2 DEF GrantShape
    <3>4. /\ caller'[c].grant = caller[c].grant /\ caller'[c].op = caller[c].op
          /\ caller'[c].at = clock
      BY <3>1 DEF CallerType
    <3>5. \A d \in Caller : d # c => caller'[d] = caller[d]
      BY <3>1 DEF CallerType
    <3>6. QED
      BY <2>2, <3>3, <3>4, <3>5 DEF Judged
  <2>3. QED
    BY <2>1, <2>2
<1>7. CASE BrokerCrash
  <2>1. ASSUME NEW c \in Caller, caller'[c].state = "verified"
        PROVE  caller'[c] = caller[c]
    <3>1. CASE caller[c].state = "waiting"
      <4>1. caller[c] \in Waiting
        BY <3>1, CallerFields
      <4>2. caller'[c] = [caller[c] EXCEPT !.conn = NoConnection]
        BY <1>7, <3>1 DEF BrokerCrash
      <4>3. caller'[c].state = "waiting"
        BY <4>1, <4>2 DEF Waiting
      <4>4. QED
        BY <2>1, <4>3
    <3>2. CASE caller[c].state # "waiting"
      BY <1>7, <3>2 DEF BrokerCrash
    <3>3. QED
      BY <3>1, <3>2
  <2>2. QED
    BY <2>1 DEF Judged
<1>8. QED
  BY <1>1, <1>3, <1>4, <1>5, <1>6, <1>7
     DEF ChainNext, CallerStep, chainVars, CloseAbandoned, Deliver, BrokerStep,
         Environment

\* What holds of the chain, together.
ChainInv ==
  /\ caller \in CallerType
  /\ performed \in [GrantNonce -> Nat]
  /\ sent \in [Handler -> Requests \cup {NoRequest}]
  /\ GrantShape
  /\ Matched
  /\ Judged

LEMMA ChainInvariance == ChainSpec => [](IInv /\ GrantInv /\ ChainInv)
<1>1. ChainInit => ChainInv
  <2> SUFFICES ASSUME ChainInit PROVE ChainInv
    OBVIOUS
  <2>1. /\ caller = [c \in Caller |-> NoCall] /\ grants = {}
        /\ pc = [h \in Handler |-> "idle"] /\ reply = [h \in Handler |-> NoReply]
    BY DEF ChainInit, Init
  <2>2. caller \in CallerType /\ performed \in [GrantNonce -> Nat]
        /\ sent \in [Handler -> Requests \cup {NoRequest}]
    BY DEF ChainInit, CallerType
  <2>3. GrantShape
    BY <2>1 DEF GrantShape, Working
  <2>4. Matched
    BY <2>1 DEF Matched, JobsFit, RepliesFit, AwaitsFit, AwaitsAnswer,
                GrantAnswersCall, NoCall, NoReply, Working
  <2>5. Judged
    BY <2>1 DEF Judged, NoCall
  <2>6. QED
    BY <2>2, <2>3, <2>4, <2>5 DEF ChainInv
<1>2. /\ IInv /\ ChainInv /\ [ChainNext]_<<vars, chainVars>>
      /\ (sent \in [Handler -> Requests \cup {NoRequest}])'
      => ChainInv'
  <2> SUFFICES ASSUME IInv, ChainInv, [ChainNext]_<<vars, chainVars>>,
                      (sent \in [Handler -> Requests \cup {NoRequest}])'
               PROVE  ChainInv'
    OBVIOUS
  <2> USE DEF ChainInv
  <2>1. TypeOK
    BY DEF IInv
  <2>2. [Next]_vars
    BY ChainStep
  <2>3. caller' \in CallerType /\ performed' \in [GrantNonce -> Nat]
    BY <2>1, CallerTypeStep, PerformedTypeStep
  <2>4. GrantShape'
    BY <2>2, GrantShapeStep
  <2>5. Matched'
    BY <2>1, MatchedStep
  <2>6. Judged'
    BY JudgedStep
  <2>7. QED
    BY <2>3, <2>4, <2>5, <2>6
<1>3. ChainSpec => []GrantInv
  BY ChainRunsBroker, GrantInvariance, PTL DEF BrokerUnchanged
<1>4. QED
  BY <1>1, <1>2, <1>3, BrokerInvariance, SentRequests, PTL DEF ChainSpec

\* However calls are given up and retried, the grant a caller holds is one the
\* broker signed for its very operation.
THEOREM GrantsAnswerCalls == ChainSpec => []GrantAnswersCall
<1>1. ChainInv => GrantAnswersCall
  BY DEF ChainInv, Matched
<1>2. QED
  BY <1>1, ChainInvariance, PTL

\* For every lifetime of grants and every skew of clocks: a gate acts on a
\* judgement younger than the grant's lifetime, and never on one from the
\* future.
THEOREM JudgementsStayFresh == ChainSpec => []FreshJudgement
<1>1. IInv /\ ChainInv => FreshJudgement
  <2> SUFFICES ASSUME IInv, ChainInv, NEW c \in Caller,
                      caller[c].state = "verified"
               PROVE  /\ caller[c].grant.issued_at <= caller[c].at
                      /\ caller[c].at - caller[c].grant.issued_at < GrantTTL
    BY DEF FreshJudgement
  <2> DEFINE g == caller[c].grant
             at == caller[c].at
  <2>1. g \in CapabilityGrant /\ at \in Nat
    BY CallerFields DEF ChainInv, Verified
  <2>2. g.issued_at <= at /\ GateAccepts(g, caller[c].op, at)
    BY DEF ChainInv, Judged
  <2>3. at < g.expires_at
    BY <2>2 DEF GateAccepts, ProcessGateVerify, StorageGateVerify,
                NetworkGateVerify, InForce
  <2>4. g \in grants
    BY DEF ChainInv, Matched, GrantAnswersCall
  <2>5. g.expires_at = g.issued_at + GrantTTL
    BY <2>4 DEF ChainInv, GrantShape
  <2>6. g.issued_at \in Nat /\ GrantTTL \in Nat
    BY <2>1, BrokerNumbers DEF CapabilityGrant
  <2> HIDE DEF g, at
  <2>7. g.issued_at <= at /\ at - g.issued_at < GrantTTL
    BY <2>1, <2>2, <2>3, <2>5, <2>6
  <2>8. QED
    BY <2>7 DEF g, at
<1>2. QED
  BY <1>1, ChainInvariance, PTL

\* For any manifests, replaced at any time: what a gate is about to do was
\* allowed by one manifest, and by an approval of that very operation where one
\* was needed.
THEOREM EffectsAreAuthorized == ChainSpec => []EffectIsAuthorized
<1>1. IInv /\ GrantInv /\ ChainInv => EffectIsAuthorized
  <2> SUFFICES ASSUME IInv, GrantInv, ChainInv, NEW c \in Caller,
                      caller[c].state = "verified"
               PROVE  LET op == caller[c].op
                      IN /\ \E m \in Manifests :
                              /\ PrimitiveOf[op.kind] \in m.primitives
                              /\ op.kind # "process" =>
                                   Authorizes(m.resources, op.target)
                         /\ NeedsApproval(RequestOf(op)) =>
                              Token[op.approval].hash = op.hash
    BY DEF EffectIsAuthorized
  <2> DEFINE g == caller[c].grant
             op == caller[c].op
  <2>1. g \in grants /\ g.request = RequestOf(op)
    BY DEF ChainInv, Matched, GrantAnswersCall
  <2>2. GateAccepts(g, op, caller[c].at)
    BY DEF ChainInv, Judged
  <2>3. PICK m \in Manifests : g.primitive \in m.primitives /\ g.binding = m.resources
    BY <2>1 DEF GrantInv, GrantFollowsOneManifest
  <2>4. g.primitive = g.request.primitive /\ g.hash = g.request.hash
    BY <2>1 DEF ChainInv, GrantShape
  <2>5. /\ g.primitive = PrimitiveOf[op.kind] /\ g.hash = op.hash
        /\ g.request.approval = op.approval
    BY <2>1, <2>4 DEF RequestOf
  <2>6. op.kind # "process" => Authorizes(g.binding, op.target)
    BY <2>2 DEF GateAccepts, StorageGateVerify, NetworkGateVerify
  <2>7. NeedsApproval(g.request) => Token[g.request.approval].hash = g.hash
    BY <2>1 DEF GrantInv, ApprovalBacksGrant
  <2> HIDE DEF g, op
  <2>8. QED
    BY <2>1, <2>3, <2>5, <2>6, <2>7 DEF g, op
<1>2. QED
  BY <1>1, ChainInvariance, PTL
-----------------------------------------------------------------------------
(***************************************************************************)
(* Every grant is in one place.                                            *)
(***************************************************************************)

\* Nonce n is at work in a thread or in its answer; or a caller holds it.
AtBroker(h, n) ==
  \/ pc[h] \in Working /\ job[h].id = n
  \/ reply[h].status = "GRANTED" /\ reply[h].grant.nonce = n

AtCaller(c, n) ==
  caller[c].state \in {"granted", "verified"} /\ caller[c].grant.nonce = n

\* It is in one of these places, or it has had its effect, or neither.
InOnePlace ==
  \A n \in GrantNonce :
    /\ \A h, k \in Handler : AtBroker(h, n) /\ AtBroker(k, n) => h = k
    /\ \A c, d \in Caller : AtCaller(c, n) /\ AtCaller(d, n) => c = d
    /\ \A h \in Handler, c \in Caller : ~(AtBroker(h, n) /\ AtCaller(c, n))
    /\ \A h \in Handler : AtBroker(h, n) => n <= received /\ performed[n] = 0
    /\ \A c \in Caller : AtCaller(c, n) => n <= received /\ performed[n] = 0
    /\ performed[n] > 0 => n <= received
    /\ performed[n] <= 1

\* Nothing new appears anywhere.
LEMMA OnePlaceKept ==
  ASSUME InOnePlace, received' = received, performed' = performed,
         \A h \in Handler, n \in GrantNonce : (AtBroker(h, n))' => AtBroker(h, n),
         \A c \in Caller, n \in GrantNonce : (AtCaller(c, n))' => AtCaller(c, n)
  PROVE  InOnePlace'
BY DEF InOnePlace

\* A client moves to where no grant is held.
LEMMA CallerLeaves ==
  ASSUME caller \in CallerType, NEW c \in Caller, NEW to,
         to.state \notin {"granted", "verified"},
         caller' = [caller EXCEPT ![c] = to]
  PROVE  \A d \in Caller, n \in GrantNonce : (AtCaller(d, n))' => AtCaller(d, n)
BY DEF CallerType, AtCaller

\* A thread goes on with the nonce it has.
LEMMA BrokerStepPlaces ==
  ASSUME TypeOK, NEW h \in Handler, BrokerStep(h)
  PROVE  \A k \in Handler, n \in GrantNonce : (AtBroker(k, n))' => AtBroker(k, n)
<1>1. OthersKeep(h) /\ (WorksOn(h) \/ Refuses(h) \/ Grants(h))
  BY BrokerStepOutcome
<1>2. SUFFICES ASSUME NEW k \in Handler, NEW n \in GrantNonce, (AtBroker(k, n))'
               PROVE  AtBroker(k, n)
  OBVIOUS
<1>3. CASE k # h
  BY <1>1, <1>2, <1>3 DEF OthersKeep, AtBroker
<1>4. CASE k = h /\ WorksOn(h)
  BY <1>2, <1>4 DEF WorksOn, AtBroker
<1>5. CASE k = h /\ Refuses(h)
  BY <1>2, <1>5 DEF Refuses, AtBroker, Working
<1>6. CASE k = h /\ Grants(h)
  <2>1. pc[h] \in Working /\ pc'[h] \notin Working
    BY <1>6 DEF Grants, Working
  <2>2. reply'[h].grant.nonce = job[h].id
    BY <1>6 DEF Grants, NewGrant
  <2>3. QED
    BY <1>2, <1>6, <2>1, <2>2 DEF AtBroker
<1>7. QED
  BY <1>1, <1>3, <1>4, <1>5, <1>6

\* A thread takes the next nonce, which is nowhere yet.
LEMMA DeliverOnePlace ==
  ASSUME TypeOK, performed \in [GrantNonce -> Nat], InOnePlace,
         NEW h \in Handler, Deliver(h)
  PROVE  InOnePlace'
<1>1. /\ received' = received + 1 /\ received \in Nat
      /\ reply' = reply /\ caller' = caller /\ performed' = performed
      /\ pc' = [pc EXCEPT ![h] = "received"]
      /\ job' = [job EXCEPT ![h] =
           [request |-> sent[h], id |-> received + 1, now |-> clock,
            gc_now |-> 0, manifest |-> NoManifest]]
  BY DEF Deliver, Receive, chainVars, TypeOK
<1>2. /\ pc[h] = "reading" /\ pc'[h] = "received" /\ job'[h].id = received + 1
  BY <1>1 DEF Deliver, Receive, TypeOK
<1>3. \A k \in Handler : k # h => pc'[k] = pc[k] /\ job'[k] = job[k]
  BY <1>1 DEF TypeOK
<1>4. \A k \in Handler, n \in GrantNonce :
        (AtBroker(k, n))' => AtBroker(k, n) \/ (k = h /\ n = received + 1)
  BY <1>1, <1>2, <1>3 DEF AtBroker
<1>5. \A c \in Caller, n \in GrantNonce : (AtCaller(c, n))' => AtCaller(c, n)
  BY <1>1 DEF AtCaller
<1>6. \A n \in GrantNonce : n \in Nat
  BY DEF GrantNonce
<1>7. SUFFICES ASSUME NEW n \in GrantNonce
      PROVE
        /\ \A k, l \in Handler : (AtBroker(k, n))' /\ (AtBroker(l, n))' => k = l
        /\ \A c, d \in Caller : (AtCaller(c, n))' /\ (AtCaller(d, n))' => c = d
        /\ \A k \in Handler, c \in Caller : ~((AtBroker(k, n))' /\ (AtCaller(c, n))')
        /\ \A k \in Handler : (AtBroker(k, n))' => n <= received' /\ performed'[n] = 0
        /\ \A c \in Caller : (AtCaller(c, n))' => n <= received' /\ performed'[n] = 0
        /\ performed'[n] > 0 => n <= received'
        /\ performed'[n] <= 1
  BY DEF InOnePlace
<1>8. CASE n = received + 1
  <2>1. ~(n <= received)
    BY <1>1, <1>6, <1>8
  <2>2. /\ \A k \in Handler : ~AtBroker(k, n)
        /\ \A c \in Caller : ~AtCaller(c, n)
        /\ ~(performed[n] > 0) /\ performed[n] <= 1
    BY <2>1 DEF InOnePlace
  <2>3. n <= received'
    BY <1>1, <1>8
  <2>4. \A k \in Handler : (AtBroker(k, n))' => k = h
    BY <1>4, <2>2
  <2>5. \A c \in Caller : ~(AtCaller(c, n))'
    BY <1>5, <2>2
  <2>6. performed'[n] = 0
    <3>1. performed[n] \in Nat
      OBVIOUS
    <3>2. QED
      BY <1>1, <2>2, <3>1
  <2>7. QED
    BY <2>3, <2>4, <2>5, <2>6
<1>9. CASE n # received + 1
  <2>1. \A k \in Handler : (AtBroker(k, n))' => AtBroker(k, n)
    BY <1>4, <1>9
  <2>2. n <= received => n <= received'
    BY <1>1, <1>6
  <2>3. QED
    BY <1>1, <1>5, <2>1, <2>2 DEF InOnePlace
<1>10. QED
  BY <1>8, <1>9

\* The answer's grant moves to the client that waits, and the answer goes.
LEMMA TakeAnswerOnePlace ==
  ASSUME TypeOK, caller \in CallerType, InOnePlace, RepliesFit,
         NEW c \in Caller, NEW h \in Handler, TakeAnswer(c, h)
  PROVE  InOnePlace'
<1>1. /\ pc[h] = "replied" /\ pc' = [pc EXCEPT ![h] = "idle"] /\ job' = job
      /\ reply' = [reply EXCEPT ![h] = NoReply]
      /\ received' = received /\ performed' = performed
  BY DEF TakeAnswer, CloseConnection
<1>2. \A k \in Handler, n \in GrantNonce :
        (AtBroker(k, n))' => AtBroker(k, n) /\ k # h
  BY <1>1 DEF TypeOK, AtBroker, Working, NoReply
<1>3. \A d \in Caller : d # c => caller'[d] = caller[d]
  BY DEF TakeAnswer, CallerType
<1>4. caller'[c] = IF reply[h].status = "GRANTED"
                     THEN [state |-> "granted", op |-> caller[c].op,
                           grant |-> reply[h].grant]
                     ELSE NoCall
  BY DEF TakeAnswer, CallerType
<1>5. \A d \in Caller, n \in GrantNonce :
        (AtCaller(d, n))' => AtCaller(d, n) \/ (d = c /\ AtBroker(h, n))
  <2> SUFFICES ASSUME NEW d \in Caller, NEW n \in GrantNonce, (AtCaller(d, n))'
               PROVE  AtCaller(d, n) \/ (d = c /\ AtBroker(h, n))
    OBVIOUS
  <2>1. CASE d # c
    BY <1>3, <2>1 DEF AtCaller
  <2>2. CASE d = c
    <3>1. reply[h].status = "GRANTED"
      BY <1>4, <2>2 DEF AtCaller, NoCall
    <3>2. QED
      BY <1>4, <2>2, <3>1 DEF AtCaller, AtBroker
  <2>3. QED
    BY <2>1, <2>2
<1>6. \A n \in GrantNonce : ~AtCaller(c, n)
  BY DEF TakeAnswer, AwaitsAnswer, AtCaller
<1>7. SUFFICES ASSUME NEW n \in GrantNonce
      PROVE
        /\ \A k, l \in Handler : (AtBroker(k, n))' /\ (AtBroker(l, n))' => k = l
        /\ \A d, e \in Caller : (AtCaller(d, n))' /\ (AtCaller(e, n))' => d = e
        /\ \A k \in Handler, d \in Caller : ~((AtBroker(k, n))' /\ (AtCaller(d, n))')
        /\ \A k \in Handler : (AtBroker(k, n))' => n <= received' /\ performed'[n] = 0
        /\ \A d \in Caller : (AtCaller(d, n))' => n <= received' /\ performed'[n] = 0
        /\ performed'[n] > 0 => n <= received'
        /\ performed'[n] <= 1
  BY DEF InOnePlace
<1>8. QED
  BY <1>1, <1>2, <1>5, <1>6 DEF InOnePlace

\* A grant that has its effect is nowhere any more.
LEMMA EffectOnePlace ==
  ASSUME TypeOK, caller \in CallerType, performed \in [GrantNonce -> Nat],
         InOnePlace, NEW c \in Caller, caller[c].state = "verified",
         TakesEffect(c)
  PROVE  InOnePlace'
<1> DEFINE m == caller[c].grant.nonce
<1>1. m \in GrantNonce /\ AtCaller(c, m)
  BY CallerFields DEF Verified, CapabilityGrant, AtCaller
<1>2. /\ UNCHANGED <<pc, job, reply, received>>
      /\ caller' = [caller EXCEPT ![c] = NoCall]
      /\ performed' = [performed EXCEPT ![m] = @ + 1]
  BY DEF TakesEffect, vars
<1> HIDE DEF m
<1>3. \A k \in Handler, n \in GrantNonce : (AtBroker(k, n))' => AtBroker(k, n)
  BY <1>2 DEF AtBroker
<1>4. \A d \in Caller, n \in GrantNonce : (AtCaller(d, n))' => AtCaller(d, n) /\ d # c
  BY <1>2 DEF AtCaller, CallerType, NoCall
<1>5. m <= received /\ performed[m] = 0
  BY <1>1 DEF InOnePlace
<1>6. performed'[m] = 1
  BY <1>1, <1>2, <1>5
<1>7. \A n \in GrantNonce : n # m => performed'[n] = performed[n]
  BY <1>1, <1>2
<1>8. (\A k \in Handler : ~AtBroker(k, m)) /\ \A d \in Caller : AtCaller(d, m) => d = c
  BY <1>1 DEF InOnePlace
<1>9. SUFFICES ASSUME NEW n \in GrantNonce
      PROVE
        /\ \A k, l \in Handler : (AtBroker(k, n))' /\ (AtBroker(l, n))' => k = l
        /\ \A d, e \in Caller : (AtCaller(d, n))' /\ (AtCaller(e, n))' => d = e
        /\ \A k \in Handler, d \in Caller : ~((AtBroker(k, n))' /\ (AtCaller(d, n))')
        /\ \A k \in Handler : (AtBroker(k, n))' => n <= received' /\ performed'[n] = 0
        /\ \A d \in Caller : (AtCaller(d, n))' => n <= received' /\ performed'[n] = 0
        /\ performed'[n] > 0 => n <= received'
        /\ performed'[n] <= 1
  BY DEF InOnePlace
<1>10. CASE n = m
  <2>1. (\A k \in Handler : ~(AtBroker(k, n))') /\ \A d \in Caller : ~(AtCaller(d, n))'
    BY <1>3, <1>4, <1>8, <1>10
  <2>2. performed'[n] = 1 /\ n <= received'
    BY <1>2, <1>5, <1>6, <1>10
  <2>3. QED
    BY <2>1, <2>2
<1>11. CASE n # m
  BY <1>2, <1>3, <1>4, <1>7, <1>11 DEF InOnePlace
<1>12. QED
  BY <1>10, <1>11

LEMMA InOnePlaceStep ==
  ASSUME IInv, ChainInv, InOnePlace, [ChainNext]_<<vars, chainVars>>
  PROVE  InOnePlace'
<1> USE DEF ChainInv, IInv
<1>1. ASSUME NEW c \in Caller, NEW op \in Operations, NEW h \in Handler,
             Call(c, op, h)
      PROVE  InOnePlace'
  <2>1. /\ pc' = [pc EXCEPT ![h] = "reading"] /\ job' = job /\ reply' = reply
        /\ received' = received /\ performed' = performed
    BY <1>1 DEF Call, AcceptConnection
  <2>2. \A k \in Handler, n \in GrantNonce : (AtBroker(k, n))' => AtBroker(k, n)
    BY <2>1 DEF TypeOK, AtBroker, Working
  <2>3. \A d \in Caller, n \in GrantNonce : (AtCaller(d, n))' => AtCaller(d, n)
    BY <1>1 DEF Call, CallerType, AtCaller
  <2>4. QED
    BY <2>1, <2>2, <2>3, OnePlaceKept
<1>2. ASSUME NEW c \in Caller, NEW h \in Handler, TakeAnswer(c, h)
      PROVE  InOnePlace'
  BY <1>2, TakeAnswerOnePlace DEF Matched
<1>3. ASSUME NEW c \in Caller, GiveUp(c) \/ Refuse(c) PROVE InOnePlace'
  <2>1. /\ caller' = [caller EXCEPT ![c] = NoCall]
        /\ UNCHANGED <<pc, job, reply, received, performed>>
    BY <1>3 DEF GiveUp, Refuse, vars
  <2>2. \A k \in Handler, n \in GrantNonce : (AtBroker(k, n))' => AtBroker(k, n)
    BY <2>1 DEF AtBroker
  <2>3. \A d \in Caller, n \in GrantNonce : (AtCaller(d, n))' => AtCaller(d, n)
    BY <2>1 DEF CallerType, AtCaller, NoCall
  <2>4. QED
    BY <2>1, <2>2, <2>3, OnePlaceKept
<1>4. ASSUME NEW c \in Caller, VerifyGrant(c) PROVE InOnePlace'
  <2>1. UNCHANGED <<pc, job, reply, received, performed>>
    BY <1>4 DEF VerifyGrant, vars
  <2>2. \A k \in Handler, n \in GrantNonce : (AtBroker(k, n))' => AtBroker(k, n)
    BY <2>1 DEF AtBroker
  <2>3. /\ \A d \in Caller : d # c => caller'[d] = caller[d]
        /\ caller[c].state = "granted"
        /\ \/ caller'[c] = NoCall
           \/ caller'[c] = [state |-> "verified", op |-> caller[c].op,
                            grant |-> caller[c].grant, at |-> clock]
    BY <1>4 DEF VerifyGrant, CallerType
  <2>4. \A d \in Caller, n \in GrantNonce : (AtCaller(d, n))' => AtCaller(d, n)
    BY <2>3 DEF AtCaller, NoCall
  <2>5. QED
    BY <2>1, <2>2, <2>4, OnePlaceKept
<1>5. ASSUME NEW c \in Caller, Operate(c) PROVE InOnePlace'
  BY <1>3, <1>5, EffectOnePlace DEF Operate, ExecuteProcess, WriteFile,
     DeleteFile, SendRequest, Passed
<1>6. ASSUME NEW h \in Handler, Deliver(h) PROVE InOnePlace'
  BY <1>6, DeliverOnePlace
<1>7. ASSUME NEW h \in Handler, CloseAbandoned(h) PROVE InOnePlace'
  <2>1. /\ pc' = [pc EXCEPT ![h] = "idle"] /\ job' = job
        /\ reply' = [reply EXCEPT ![h] = NoReply]
        /\ UNCHANGED <<received, caller, performed>>
    BY <1>7 DEF CloseAbandoned, CloseConnection
  <2>2. \A k \in Handler, n \in GrantNonce : (AtBroker(k, n))' => AtBroker(k, n)
    BY <2>1 DEF TypeOK, AtBroker, Working, NoReply
  <2>3. \A d \in Caller, n \in GrantNonce : (AtCaller(d, n))' => AtCaller(d, n)
    BY <2>1 DEF AtCaller
  <2>4. QED
    BY <2>1, <2>2, <2>3, OnePlaceKept
<1>8. ASSUME NEW h \in Handler, BrokerStep(h) PROVE InOnePlace'
  <2>1. received' = received /\ caller' = caller /\ performed' = performed
    BY <1>8, BrokerStepOutcome DEF chainVars
  <2>2. \A d \in Caller, n \in GrantNonce : (AtCaller(d, n))' => AtCaller(d, n)
    BY <2>1 DEF AtCaller
  <2>3. QED
    BY <1>8, <2>1, <2>2, BrokerStepPlaces, OnePlaceKept
<1>9. CASE BrokerCrash
  <2>1. /\ pc' = [h \in Handler |-> "idle"]
        /\ reply' = [h \in Handler |-> NoReply]
        /\ received' = received /\ performed' = performed
        /\ caller' = [c \in Caller |->
             IF caller[c].state = "waiting"
             THEN [caller[c] EXCEPT !.conn = NoConnection] ELSE caller[c]]
    BY <1>9 DEF BrokerCrash, Crash
  <2>2. \A h \in Handler, n \in GrantNonce : ~(AtBroker(h, n))'
    BY <2>1 DEF AtBroker, Working, NoReply
  <2>3. ASSUME NEW c \in Caller
        PROVE  caller[c].state = "waiting" => caller'[c].state = "waiting"
    BY <2>1, CallerFields DEF Waiting
  <2>4. \A c \in Caller : caller[c].state # "waiting" => caller'[c] = caller[c]
    BY <2>1
  <2>5. \A c \in Caller, n \in GrantNonce : (AtCaller(c, n))' => AtCaller(c, n)
    BY <2>3, <2>4 DEF AtCaller
  <2>6. QED
    BY <2>1, <2>2, <2>5, OnePlaceKept
<1>10. CASE UNCHANGED <<pc, job, reply, received, caller, performed>>
  <2>1. \A k \in Handler, n \in GrantNonce : (AtBroker(k, n))' => AtBroker(k, n)
    BY <1>10 DEF AtBroker
  <2>2. \A d \in Caller, n \in GrantNonce : (AtCaller(d, n))' => AtCaller(d, n)
    BY <1>10 DEF AtCaller
  <2>3. QED
    BY <1>10, <2>1, <2>2, OnePlaceKept
<1>11. CASE Environment
  BY <1>10, <1>11 DEF Environment, Tick, Stop, Start, RegisterManifest, chainVars
<1>12. CASE UNCHANGED <<vars, chainVars>>
  BY <1>10, <1>12 DEF vars, chainVars
<1>13. QED
  BY <1>1, <1>2, <1>3, <1>4, <1>5, <1>6, <1>7, <1>8, <1>9, <1>11, <1>12
     DEF ChainNext, CallerStep

\* single_use_nonce, for any number of callers, threads, crashes and retries:
\* a grant leads to one effect at most, although no gate remembers it.
THEOREM GrantsAreUsedOnce == ChainSpec => []GrantUsedOnce
<1>1. ChainInit => InOnePlace
  <2> SUFFICES ASSUME ChainInit, NEW n \in GrantNonce
               PROVE  /\ \A h \in Handler : ~AtBroker(h, n)
                      /\ \A c \in Caller : ~AtCaller(c, n)
                      /\ performed[n] = 0
    BY DEF InOnePlace
  <2>1. /\ caller = [c \in Caller |-> NoCall]
        /\ pc = [h \in Handler |-> "idle"] /\ reply = [h \in Handler |-> NoReply]
        /\ performed = [x \in GrantNonce |-> 0]
    BY DEF ChainInit, Init
  <2>2. QED
    BY <2>1 DEF AtBroker, AtCaller, NoCall, NoReply, Working
<1>2. IInv /\ ChainInv /\ InOnePlace /\ [ChainNext]_<<vars, chainVars>>
        => InOnePlace'
  BY InOnePlaceStep
<1>3. InOnePlace => GrantUsedOnce
  BY DEF InOnePlace, GrantUsedOnce
<1>4. QED
  BY <1>1, <1>2, <1>3, ChainInvariance, PTL DEF ChainSpec

\* For any number of clients that retry: while a signed approval is valid, two
\* effects that rest on it were asked for with differently spelled nonces,
\* unless the broker died.
THEOREM ApprovalsGiveOneEffect == ChainSpec => []ApprovalGivesOneEffect
<1>1. IInv /\ GrantInv /\ SpentOnce => ApprovalGivesOneEffect
  <2> SUFFICES ASSUME IInv, GrantInv, SpentOnce, crashes = 0,
                      NEW f \in grants, NEW g \in grants,
                      NeedsApproval(f.request), NeedsApproval(g.request),
                      f.request.approval = g.request.approval,
                      clock < Token[f.request.approval].valid_until
               PROVE  f = g
    BY DEF ApprovalGivesOneEffect, ApprovedEffects
  <2>1. f.request.approval \in Approval
    BY DEF GrantInv, ApprovalBacksGrant
  <2>2. RestsOn(f, f.request.approval) /\ RestsOn(g, f.request.approval)
    BY DEF RestsOn
  <2>3. QED
    BY <2>1, <2>2 DEF SpentOnce
<1>2. ChainSpec => []SpentOnce
  BY ChainRunsBroker, ApprovalsAreSpentOnce, PTL DEF BrokerUnchanged
<1>3. QED
  BY <1>1, <1>2, ChainInvariance, PTL
=============================================================================
