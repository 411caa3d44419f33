--------------------------- MODULE MCHaosGuardian ---------------------------
(***************************************************************************)
(* A small guardian for TLC: two core files, one of which is edited.        *)
(***************************************************************************)
EXTENDS HaosGuardian, TLC

CONSTANTS f1, f2

MCOrder == <<f1, f2>>
MCSnap == (f1 :> "v0") @@ (f2 :> "v0")
MCBaselines ==
  {[files |-> MCSnap, guardian |-> "genuine"], [files |-> MCSnap, guardian |-> NoHash]}

Approve(f, until, authentic) ==
  [file |-> f, hash |-> "v1", expires_at |-> until, authentic |-> authentic]
MCApprovals == {Approve(f1, 1, TRUE)}
MCUnlocks == {[expires_at |-> 1, authentic |-> TRUE]}

\* v3 is the first 10 MB of v2.
MCCut == ("v0" :> "v0") @@ ("v1" :> "v1") @@ ("v2" :> "v3") @@ ("v3" :> "v3")

MCEdits == {<<f1, v>> : v \in {"v1", "v2", "absent", "directory", "pipe", "denied"}}
MCDamages == {<<f1, "absent">>}

\* Two files are edited and adopted, and nothing else happens.
PlainBaselines == {[files |-> MCSnap, guardian |-> "genuine"]}
PlainApprovals == {Approve(f1, 2, TRUE), Approve(f2, 2, TRUE)}
PlainCut == ("v0" :> "v0") @@ ("v1" :> "v1")
PlainEdits == {<<f1, "v1">>, <<f2, "v1">>}
=============================================================================
