--------------------------- MODULE AuthorityChain ---------------------------
(***************************************************************************)
(* The way of an operation from a tool to its effect: the execution        *)
(* adapter builds a request (gates/adapter.py), the client sends it and    *)
(* waits for a bounded time (authority/client.py), the broker answers      *)
(* (AuthorityBroker), a gate verifies the grant (gates/*_gate.py) and      *)
(* performs the operation.                                                 *)
(*                                                                         *)
(* The client's end and the broker's end of a connection fail separately:  *)
(* a client that gave up leaves a handler behind that goes on, and a       *)
(* broker that dies leaves clients behind that wait.                       *)
(***************************************************************************)
EXTENDS AuthorityBroker

CONSTANTS
  Caller,       \* threads that call the adapter
  Agent,        \* the peer identity of their process
  Operations,   \* the operations they call for
  Target,       \* the paths and URLs operations are about
  Covers,       \* Covers[r]: the targets allowed resource r stands for, as a
                \* path prefix for files, as a host or URL prefix for the network
  ProtectedTarget,    \* paths StorageGate refuses to write or delete
  NoConnection

Kind == {"process", "write", "delete", "network"}

\* hash: of the semantics the adapter builds.  For a process they are the
\* caller's own, for a file they hold its path, for the network nothing of
\* the URL.
Operation ==
  [kind : Kind, task : Task, taint : Taint, ingress : {"none", "valid"},
   hash : Hash, target : Target, approval : Approval \cup {NoApproval}]

PrimitiveOf ==
  [process |-> "PROCESS_EXECUTE", write |-> "STORAGE_WRITE",
   delete |-> "STORAGE_DELETE", network |-> "NETWORK_REQUEST"]

\* The request the adapter makes of an operation.
RequestOf(op) ==
  [peer |-> Agent, task |-> op.task, primitive |-> PrimitiveOf[op.kind],
   taint |-> op.taint, ingress |-> op.ingress, hash |-> op.hash,
   approval |-> op.approval]

ASSUME ChainConstants ==
  /\ Agent \in AllowedPeer
  /\ Operations \subseteq Operation
  /\ Requests = {RequestOf(op) : op \in Operations}
  /\ \A k \in Kind : PrimitiveOf[k] \in Primitive
  /\ NoConnection \notin Handler
  /\ Covers \in [Resource -> SUBSET Target]

VARIABLES
  caller,      \* per calling thread: what it does and with which grant
  sent,        \* per connection: the request the client wrote, or NoRequest
  performed    \* history: how often each grant led to an effect

chainVars == <<caller, sent, performed>>

NoCall == [state |-> "idle"]
NoRequest == [idle |-> TRUE]

Waiting == [state : {"waiting"}, op : Operations, conn : Handler \cup {NoConnection}]
Holding == [state : {"granted"}, op : Operations, grant : CapabilityGrant]
Verified ==
  [state : {"verified"}, op : Operations, grant : CapabilityGrant, at : Nat]

\* Types of the chain's variables.
ChainTypeOK ==
  /\ TypeOK
  /\ caller \in [Caller -> {NoCall} \cup Waiting \cup Holding \cup Verified]
  /\ sent \in [Handler -> Requests \cup {NoRequest}]
  /\ performed \in [GrantNonce -> Nat]

ChainInit ==
  /\ Init
  /\ caller = [c \in Caller |-> NoCall]
  /\ sent = [h \in Handler |-> NoRequest]
  /\ performed = [n \in GrantNonce |-> 0]
-----------------------------------------------------------------------------
(***************************************************************************)
(* The client.                                                             *)
(***************************************************************************)

\* The adapter is called, the client connects and writes its request.  While
\* the broker does not listen the call fails at once and changes nothing.
Call(c, op, h) ==
  /\ caller[c] = NoCall
  /\ AcceptConnection(h)
  /\ caller' = [caller EXCEPT ![c] = [state |-> "waiting", op |-> op, conn |-> h]]
  /\ sent' = [sent EXCEPT ![h] = RequestOf(op)]
  /\ UNCHANGED performed

AwaitsAnswer(c, h) == caller[c].state = "waiting" /\ caller[c].conn = h

\* Mutant: the client takes the answer of any connection.
TakeAnyAnswer(c, h) ==
  /\ caller[c].state = "waiting"
  /\ CloseConnection(h)
  /\ caller' = [caller EXCEPT ![c] =
       IF reply[h].status = "GRANTED"
       THEN [state |-> "granted", op |-> @.op, grant |-> reply[h].grant]
       ELSE NoCall]
  /\ sent' = [sent EXCEPT ![h] = NoRequest]
  /\ UNCHANGED performed

\* The answer arrives in time: a grant goes on to the gate, a denial returns.
TakeAnswer(c, h) ==
  /\ AwaitsAnswer(c, h)
  /\ CloseConnection(h)
  /\ caller' = [caller EXCEPT ![c] =
       IF reply[h].status = "GRANTED"
       THEN [state |-> "granted", op |-> @.op, grant |-> reply[h].grant]
       ELSE NoCall]
  /\ sent' = [sent EXCEPT ![h] = NoRequest]
  /\ UNCHANGED performed

\* The client's timeout runs out, or its connection broke with the broker:
\* BrokerUnavailableError.  The request may still be in the socket.
GiveUp(c) ==
  /\ caller[c].state = "waiting"
  /\ caller' = [caller EXCEPT ![c] = NoCall]
  /\ UNCHANGED <<vars, sent, performed>>
-----------------------------------------------------------------------------
(***************************************************************************)
(* The gates.                                                              *)
(***************************************************************************)

InForce(g, now) ==
  /\ now < g.expires_at
  /\ g.issued_at <= now + ClockSkew
  /\ g.expires_at - g.issued_at <= MaxGrantTTL

ProcessGateVerify(g, op, now) ==
  /\ g.primitive \in {"PROCESS_EXECUTE", "SYSTEM_EXECUTE"}
  /\ InForce(g, now)
  /\ op.hash = g.hash

Authorizes(binding, target) == \E r \in binding : target \in Covers[r]

StorageGateVerify(g, op, now) ==
  /\ g.primitive = PrimitiveOf[op.kind]
  /\ InForce(g, now)
  /\ Authorizes(g.binding, op.target)
  /\ op.target \notin ProtectedTarget

NetworkGateVerify(g, op, now) ==
  /\ g.primitive \in {"NETWORK_REQUEST", "NETWORK_EGRESS"}
  /\ InForce(g, now)
  /\ Authorizes(g.binding, op.target)

GateAccepts(g, op, now) ==
  \/ op.kind = "process" /\ ProcessGateVerify(g, op, now)
  \/ op.kind \in {"write", "delete"} /\ StorageGateVerify(g, op, now)
  \/ op.kind = "network" /\ NetworkGateVerify(g, op, now)

\* Mutant: a grant that is just expired is accepted.
VerifyGrantLate(c) ==
  /\ caller[c].state = "granted"
  /\ LET op == caller[c].op
         g == caller[c].grant
     IN caller' = [caller EXCEPT ![c] =
          IF GateAccepts([g EXCEPT !.expires_at = @ + 1], op, clock)
          THEN [state |-> "verified", op |-> op, grant |-> g, at |-> clock]
          ELSE NoCall]
  /\ UNCHANGED <<vars, sent, performed>>

VerifyGrant(c) ==
  /\ caller[c].state = "granted"
  /\ LET op == caller[c].op
         g == caller[c].grant
     IN caller' = [caller EXCEPT ![c] =
          IF GateAccepts(g, op, clock)
          THEN [state |-> "verified", op |-> op, grant |-> g, at |-> clock]
          ELSE NoCall]
  /\ UNCHANGED <<vars, sent, performed>>

\* The operation leaves its effect and the call returns, with whatever report;
\* a gate keeps no record of grants.
TakesEffect(c) ==
  /\ caller' = [caller EXCEPT ![c] = NoCall]
  /\ performed' = [performed EXCEPT ![caller[c].grant.nonce] = @ + 1]
  /\ UNCHANGED <<vars, sent>>

\* The call returns an error and nothing has happened.
Refuse(c) ==
  /\ caller' = [caller EXCEPT ![c] = NoCall]
  /\ UNCHANGED <<vars, sent, performed>>

Passed(c, kind) == caller[c].state = "verified" /\ caller[c].op.kind = kind

\* Mutant: the adapter tries the gate again with the same grant.
ExecuteAndRetry(c) ==
  /\ Passed(c, "process")
  /\ caller' = [caller EXCEPT ![c] =
       [state |-> "granted", op |-> @.op, grant |-> @.grant]]
  /\ performed' = [performed EXCEPT ![caller[c].grant.nonce] = @ + 1]
  /\ UNCHANGED <<vars, sent>>

\* Refused without a command, without the sandbox its profile requires, or
\* when it cannot be started; otherwise it runs, to its end or until it is
\* killed at its timeout and reported as failed.
ExecuteProcess(c) == Passed(c, "process") /\ (TakesEffect(c) \/ Refuse(c))

\* Refused for a symbolic link, without its directory, or when it cannot be
\* opened.  Opening truncates, so a write that fails later than that (not a
\* regular file, moved meanwhile, disk full) has left its effect as well.
WriteFile(c) == Passed(c, "write") /\ (TakesEffect(c) \/ Refuse(c))

\* Refused for a missing file, a symbolic link, another inode than expected,
\* or by the operating system.
DeleteFile(c) == Passed(c, "delete") /\ (TakesEffect(c) \/ Refuse(c))

\* Refused when the host is a metadata endpoint, does not resolve or resolves
\* to a restricted address; once sent, the request has its effect even when no
\* answer comes.
SendRequest(c) == Passed(c, "network") /\ (TakesEffect(c) \/ Refuse(c))

Operate(c) ==
  ExecuteProcess(c) \/ WriteFile(c) \/ DeleteFile(c) \/ SendRequest(c)
-----------------------------------------------------------------------------
(***************************************************************************)
(* The broker's end, driven by what the clients wrote.                     *)
(***************************************************************************)

\* The handler reads what was written, also when the writer has given up.
Deliver(h) ==
  /\ sent[h] # NoRequest
  /\ Receive(h, sent[h])
  /\ UNCHANGED chainVars

\* Mutant: the thread of an abandoned connection is dropped unanswered.
DropAbandoned(h) ==
  /\ \A c \in Caller : ~AwaitsAnswer(c, h)
  /\ pc[h] # "idle"
  /\ pc' = [pc EXCEPT ![h] = "idle"]
  /\ sent' = [sent EXCEPT ![h] = NoRequest]
  /\ UNCHANGED <<clock, status, crashes, manifest_store, ledger, received,
                 job, reply, window, uses, grants, caller, performed>>

\* A connection whose client has given up is answered and closed.
CloseAbandoned(h) ==
  /\ \A c \in Caller : ~AwaitsAnswer(c, h)
  /\ CloseConnection(h)
  /\ sent' = [sent EXCEPT ![h] = NoRequest]
  /\ UNCHANGED <<caller, performed>>

BrokerStep(h) ==
  /\ \/ RejectConnection(h)
     \/ Evaluate(h)
     \/ ReadGcClock(h)
     \/ ConsumeApproval(h)
     \/ ConsumeGrantNonce(h)
     \/ Issue(h)
  /\ UNCHANGED chainVars

\* Every open connection breaks with the broker's process.
BrokerCrash ==
  /\ Crash
  /\ sent' = [h \in Handler |-> NoRequest]
  /\ caller' = [c \in Caller |->
       IF caller[c].state = "waiting"
       THEN [caller[c] EXCEPT !.conn = NoConnection] ELSE caller[c]]
  /\ UNCHANGED performed

Environment ==
  /\ \/ Tick
     \/ Stop
     \/ Start
     \/ \E t \in Task, m \in Manifests : RegisterManifest(t, m)
  /\ UNCHANGED chainVars

CallerStep(c) ==
  \/ \E h \in Handler : TakeAnswer(c, h)
  \/ GiveUp(c)
  \/ VerifyGrant(c)
  \/ Operate(c)

ChainNext ==
  \/ \E c \in Caller, op \in Operations, h \in Handler : Call(c, op, h)
  \/ \E c \in Caller : CallerStep(c)
  \/ \E h \in Handler : Deliver(h) \/ CloseAbandoned(h) \/ BrokerStep(h)
  \/ BrokerCrash
  \/ Environment

ChainSpec == ChainInit /\ [][ChainNext]_<<vars, chainVars>>
-----------------------------------------------------------------------------
(***************************************************************************)
(* Properties.                                                             *)
(***************************************************************************)

\* The grant a caller holds is one the broker signed for the very request of
\* the caller's operation, whatever was given up and retried before
\* (request_capability, UnifiedExecutionAdapter).
GrantAnswersCall ==
  \A c \in Caller :
    caller[c].state \in {"granted", "verified"} =>
      /\ caller[c].grant \in grants
      /\ caller[c].grant.request = RequestOf(caller[c].op)

\* single_use_nonce: a grant leads to one effect at most, although no gate
\* remembers the grants it has seen.
GrantUsedOnce == \A n \in GrantNonce : performed[n] <= 1

\* A gate acts on a judgement less than the grant's lifetime old, and never on
\* one from the future (verify_grant of the three gates).
FreshJudgement ==
  \A c \in Caller :
    caller[c].state = "verified" =>
      /\ caller[c].grant.issued_at <= caller[c].at
      /\ caller[c].at - caller[c].grant.issued_at < GrantTTL

\* What a gate is about to do was allowed by one manifest, primitive and target
\* together, and by an approval of that very operation where one was needed,
\* although the manifest may have been replaced at any time in between.
EffectIsAuthorized ==
  \A c \in Caller :
    caller[c].state = "verified" =>
      LET op == caller[c].op
      IN /\ \E m \in Manifests :
              /\ PrimitiveOf[op.kind] \in m.primitives
              /\ op.kind # "process" => Authorizes(m.resources, op.target)
         /\ NeedsApproval(RequestOf(op)) => Token[op.approval].hash = op.hash

\* The grants that needed an approval, have it still valid and led to an effect.
ApprovedEffects ==
  {g \in grants : /\ NeedsApproval(g.request)
                  /\ performed[g.nonce] > 0
                  /\ clock < Token[g.request.approval].valid_until}

\* While a signed approval is valid, two effects that rest on it were asked for
\* with differently spelled nonces, whatever the clients retry, unless the
\* broker died meanwhile.  An approval that is always sent as it was issued
\* leads to one effect (_atomic_consume_nonce).
ApprovalGivesOneEffect ==
  crashes = 0 =>
    \A g1, g2 \in ApprovedEffects :
      Stripped[g1.request.approval] = Stripped[g2.request.approval] =>
        g1 = g2 \/ g1.request.approval # g2.request.approval

\* The stronger claim that a signed approval leads to one effect however it is
\* sent.  It does not hold: the signature covers the stripped nonce, the ledger
\* knows the nonce as sent (compute_approval_digest, _atomic_consume_nonce).
SignedApprovalGivesOneEffect ==
  crashes = 0 =>
    \A g1, g2 \in ApprovedEffects :
      Stripped[g1.request.approval] = Stripped[g2.request.approval] => g1 = g2

\* Seen from the broker the clients are its unconstrained environment: every
\* step of the chain is one of the broker's or leaves the broker alone, so
\* what holds of the broker holds in the chain.
BrokerUnchanged == Spec
=============================================================================
