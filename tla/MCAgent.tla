------------------------------ MODULE MCAgent ------------------------------
(***************************************************************************)
(* Small instances of the agent's turn and of the dispatch of its tools;   *)
(* `focus` says which of the two moves in a behaviour.                     *)
(***************************************************************************)
EXTENDS AgentTurn, ExtensionRegistry

CONSTANTS search, view, edit, a, wide, d1, d2, t1, t2, k1, good, sick, broken,
          other

VARIABLE focus

\* Texts are of one or two segments; one whose only segment reads, reads as a
\* whole.
MCSegment == {{}, {"read"}, {"write"}, {"read", "write"}, {"delete"},
              {"delete", "critical"}, {"critical"}, {"move", "permission"}}

MCSegments == {{s, r} : s \in MCSegment, r \in MCSegment}

MCMessage ==
  [blank : {FALSE}, segments : {s \in MCSegments : s # {{"read"}}},
   marks : SUBSET TextMark]
  \cup [blank : {FALSE}, segments : {{{"read"}}},
        marks : {m \in SUBSET TextMark : "read_verb" \in m}]
  \cup [blank : BOOLEAN, segments : {{}}, marks : {{}}]

MCBudget ==
  [t \in Tier |->
     CASE t = "L0" -> [seconds |-> 1, calls |-> 0, iterations |-> 2]
       [] t = "L1" -> [seconds |-> 3, calls |-> 2, iterations |-> 2]
       [] OTHER -> [seconds |-> 3, calls |-> 5, iterations |-> 2]]

\* Two directories, four contents, one unhealthy, one unloadable.
MCDirOrder == <<d1, d2>>
MCKeyOf == [t \in {t1, t2} |-> k1]

MCLeaf(depth, place, holds) == [depth |-> depth, place |-> place, holds |-> holds]

MCAsk ==
  {[arguments |-> {MCLeaf(1, "plain", "text")}, agreed |-> FALSE,
    trusted_caller |-> FALSE, human_approved |-> TRUE, with_token |-> TRUE],
   [arguments |-> {MCLeaf(1, "sql", "destructive_sql")}, agreed |-> TRUE,
    trusted_caller |-> FALSE, human_approved |-> FALSE, with_token |-> FALSE],
   [arguments |-> {MCLeaf(1, "path", "outside")}, agreed |-> FALSE,
    trusted_caller |-> TRUE, human_approved |-> TRUE, with_token |-> FALSE],
   [arguments |-> {MCLeaf(2, "command", "outside")}, agreed |-> FALSE,
    trusted_caller |-> TRUE, human_approved |-> TRUE, with_token |-> FALSE]}

MCManifest(name, hashed, approved, signed, tool, mutating, content) ==
  [manifest |-> "good", name |-> name, hashed |-> hashed,
   approved |-> approved, signed |-> signed, has_tool |-> tool,
   is_mutating |-> mutating, lists_code |-> TRUE, content |-> content,
   code |-> content]

\* Sound, stale, unhealthy, unloadable, without a tool, with code that is not
\* listed, damaged, none.
MCLayout ==
  {MCManifest(t1, good, TRUE, good, TRUE, TRUE, good),
   MCManifest(t2, good, TRUE, good, TRUE, FALSE, good),
   MCManifest(t1, sick, TRUE, sick, TRUE, FALSE, good),
   MCManifest(t1, sick, TRUE, sick, TRUE, FALSE, sick),
   MCManifest(t2, broken, TRUE, broken, TRUE, FALSE, broken),
   MCManifest(t2, good, TRUE, good, FALSE, FALSE, good),
   [MCManifest(t2, good, TRUE, good, TRUE, FALSE, good)
      EXCEPT !.lists_code = FALSE, !.code = other],
   [MCManifest(t1, good, TRUE, good, TRUE, FALSE, NoContent)
      EXCEPT !.manifest = "damaged"],
   [MCManifest(t1, good, TRUE, good, TRUE, FALSE, NoContent)
      EXCEPT !.manifest = "none"]}

AgentInit ==
  /\ focus \in {"turn", "dispatch"}
  /\ TurnInit /\ RegistryInit
  /\ focus = "turn" => has_bridge /\ \A d \in Dir : disk[d].manifest = "none"

AgentNext ==
  /\ UNCHANGED focus
  /\ \/ focus = "turn" /\ TurnNext /\ UNCHANGED registryVars
     \/ focus = "dispatch" /\ RegistryNext /\ UNCHANGED turnVars

AgentSpec == AgentInit /\ [][AgentNext]_<<focus, turnVars, registryVars>>
-----------------------------------------------------------------------------
\* The variables of the turn and of the dispatch have their types.
AgentTypeOK == TurnTypeOK /\ RegistryTypeOK
=============================================================================
