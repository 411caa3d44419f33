-------------------------- MODULE MCAuthorityBroker --------------------------
(***************************************************************************)
(* Small instances of the Authority Broker for TLC.                        *)
(***************************************************************************)
EXTENDS AuthorityBroker, TLC

CONSTANTS a1, a2, blank, t1, t2, h1, h2, agent, stranger

MCPrimitive == {"PROCESS_EXECUTE", "STORAGE_WRITE", "process_execution"}
MCHighRisk == {"process_execution"}

\* Two manifests that differ in both fields, so that mixing them shows.
WideManifest == [primitives |-> MCPrimitive, resources |-> {"workspace"}]
NarrowManifest == [primitives |-> {"PROCESS_EXECUTE"}, resources |-> {"logs"}]
MCManifests == {WideManifest, NarrowManifest}
OneManifest == {WideManifest}
MCStore == (t1 :> WideManifest) @@ (t2 :> NoManifest)
OneTaskStore == (t1 :> WideManifest)

Ask(prim, taint, ingress, hash, approval) ==
  [peer |-> agent, task |-> t1, primitive |-> prim, taint |-> taint,
   ingress |-> ingress, hash |-> hash, approval |-> approval]

Proof(from, to, hash, authentic) ==
  [issued_at |-> from, valid_until |-> to, hash |-> hash,
   authentic |-> authentic]

\* One approval that expires inside the model's time.
OneToken == (a1 :> Proof(0, 1, "s1", TRUE))
OneStripped == (a1 :> a1)
OneApprovalRequests ==
  {Ask("PROCESS_EXECUTE", "EXTERNAL_UNTRUSTED", "none", "s1", a1)}

\* Untrusted and trusted requests of both hashes side by side.
ReplayRequests ==
  {Ask("PROCESS_EXECUTE", "EXTERNAL_UNTRUSTED", "none", "s1", a1),
   Ask("STORAGE_WRITE", "SYSTEM_INTERNAL", "valid", "s2", NoApproval)}

\* Every way to be refused: no manifest, a primitive outside the manifest, a
\* forged provenance, no approval, a late, premature, foreign or forged one,
\* one whose nonce is blank.
PolicyToken ==
  (a1 :> Proof(0, 1, "s1", TRUE)) @@ (a2 :> Proof(3, 5, "s2", FALSE))
  @@ (blank :> Proof(0, 1, "s1", TRUE))
PolicyStripped == (a1 :> a1) @@ (a2 :> a2) @@ (blank :> blank)
PolicyRequests ==
  {[Ask("PROCESS_EXECUTE", "SYSTEM_INTERNAL", "valid", "s1", NoApproval)
      EXCEPT !.task = t2],
   [Ask("PROCESS_EXECUTE", "OTHER", "none", "s1", NoApproval)
      EXCEPT !.peer = stranger]}
  \cup {Ask("STORAGE_WRITE", taint, ingress, "s1", NoApproval) :
          taint \in {"HUMAN_CONFIRMED", "OTHER"},
          ingress \in {"none", "valid", "forged"}}
  \cup {Ask("process_execution", "HUMAN_CONFIRMED", "valid", hash, a) :
          hash \in {"s1", "s2"}, a \in {a1, a2, blank}}

HandlerSymmetry == Permutations({h1, h2})
=============================================================================
