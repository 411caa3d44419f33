-------------------------- MODULE MCAuthorityChain --------------------------
(***************************************************************************)
(* Small instances of the chain from adapter to gate for TLC.              *)
(***************************************************************************)
EXTENDS AuthorityChain, TLC

CONSTANTS a1, a1sp, t1, h1, h2, c1, c2

\* The names HIGH_RISK_PRIMITIVES lists are not the names the adapter uses.
MCPrimitive ==
  {"PROCESS_EXECUTE", "STORAGE_WRITE", "STORAGE_DELETE", "NETWORK_REQUEST",
   "process_execution", "destructive_storage"}
MCHighRisk == {"process_execution", "destructive_storage"}
MCManifest == [primitives |-> MCPrimitive, resources |-> {"workspace"}]
MCManifests == {MCManifest}
MCStore == (t1 :> MCManifest)

\* A manifest that allows work in the workspace, and one that allows requests
\* to a host; the task is moved from one to the other.
WorkManifest ==
  [primitives |-> {"PROCESS_EXECUTE", "STORAGE_WRITE", "STORAGE_DELETE"},
   resources |-> {"workspace"}]
NetManifest == [primitives |-> {"NETWORK_REQUEST"}, resources |-> {"host"}]
GateManifests == {WorkManifest, NetManifest}
GateStore == (t1 :> WorkManifest)

\* The workspace directory stands for the paths below it.
MCCovers == ("workspace" :> {"file", "constitution"}) @@ ("host" :> {"url"})

\* One signed approval, valid for the first two seconds of the model's time. Its
\* nonce is sent as it was issued and with a space behind it.
Issued == [issued_at |-> 0, valid_until |-> 2, hash |-> "s1", authentic |-> TRUE]
MCToken == (a1 :> Issued) @@ (a1sp :> Issued)
MCStripped == (a1 :> a1) @@ (a1sp :> a1)

Op(kind, taint, ingress, hash, target, approval) ==
  [kind |-> kind, task |-> t1, taint |-> taint, ingress |-> ingress,
   hash |-> hash, target |-> target, approval |-> approval]

\* One approved process, its approval spelled in two ways.
RetryOperations ==
  {Op("process", "EXTERNAL_UNTRUSTED", "none", "s1", "file", a) : a \in {a1, a1sp}}

\* Every kind of operation, on allowed, foreign and protected targets, and a
\* process run with its own approval and with that of another.
GateOperations ==
  {Op(kind, "SYSTEM_INTERNAL", "valid", "s2", target, NoApproval) :
     kind \in Kind, target \in {"file", "url", "constitution"}}
  \cup {Op("process", "EXTERNAL_UNTRUSTED", "none", hash, "file", a1) :
          hash \in {"s1", "s2"}}

MCRetryRequests == {RequestOf(op) : op \in RetryOperations}
MCGateRequests == {RequestOf(op) : op \in GateOperations}

MCSymmetry == Permutations({h1, h2}) \cup Permutations({c1, c2})
=============================================================================
