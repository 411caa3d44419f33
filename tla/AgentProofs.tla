----------------------------- MODULE AgentProofs -----------------------------
(***************************************************************************)
(* Proofs about the extension registry and the bridge it works behind: its *)
(* types, what approves a run, and where the tools come from; and about    *)
(* the registry beside the turn of the agent.                              *)
(***************************************************************************)
EXTENDS MCAgent, AgentTurnProofs
-----------------------------------------------------------------------------
(***************************************************************************)
(* Seconds, directories and functions.                                     *)
(***************************************************************************)

\* A second is whole or has begun; what it was when it began is not later.
LEMMA WholeSeconds ==
  ASSUME NEW n \in Nat
  PROVE  n \div Second \in Nat /\ (n \div Second) * Second <= n
<1>1. Second \in Nat \ {0}
  BY BridgeConstants
<1>2. QED
  BY <1>1

\* A token that is still valid was made at most its lifetime ago.
LEMMA ValidIsRecent ==
  ASSUME NEW now \in Nat, NEW made \in Nat, now <= TokenExpiry(made) * Second
  PROVE  now - made <= TokenTTL * Second
<1> DEFINE q == made \div Second
<1>1. Second \in Nat /\ TokenTTL \in Nat
  BY BridgeConstants
<1>2. q \in Nat /\ q * Second <= made
  BY WholeSeconds
<1>3. now <= (q + TokenTTL) * Second
  BY DEF TokenExpiry
<1> HIDE DEF q
<1>4. (q + TokenTTL) * Second = q * Second + TokenTTL * Second
  BY <1>1, <1>2
<1> DEFINE x == q * Second
           y == TokenTTL * Second
<1>5. x \in Nat /\ y \in Nat
  BY <1>1, <1>2
<1>6. x <= made /\ now <= x + y
  BY <1>2, <1>3, <1>4
<1> HIDE DEF x, y
<1>7. now - made <= y
  BY <1>5, <1>6
<1>8. QED
  BY <1>7 DEF y

\* The places of the directories.
LEMMA Places ==
  /\ DOMAIN DirOrder = 1 .. Len(DirOrder)
  /\ Len(DirOrder) \in Nat \ {0}
  /\ \A i \in 1 .. Len(DirOrder) : DirOrder[i] \in Dir
  /\ \A i, j \in 1 .. Len(DirOrder) : DirOrder[i] = DirOrder[j] => i = j
<1>1. DirOrder \in Seq(Dir) /\ DirOrder # <<>>
  BY RegistryConstants
<1>2. QED
  BY <1>1, RegistryConstants

\* A map with one more entry.
LEMMA WithEntry ==
  ASSUME NEW map, NEW x, NEW value
  PROVE  /\ DOMAIN With(map, x, value) = DOMAIN map \cup {x}
         /\ With(map, x, value)[x] = value
         /\ \A y \in DOMAIN map : y # x => With(map, x, value)[y] = map[y]
BY DEF With

LEMMA WithType ==
  ASSUME NEW S, NEW map, map \in [DOMAIN map -> S], NEW x, NEW value \in S
  PROVE  With(map, x, value) \in [DOMAIN With(map, x, value) -> S]
BY DEF With
-----------------------------------------------------------------------------
(***************************************************************************)
(* The bridge.                                                             *)
(***************************************************************************)

\* Whoever approves a run is one of those there are, and did so earlier.
LEMMA GrantedType ==
  ASSUME BridgeTypeOK, NEW k \in Key, NEW ask \in Ask, NEW mutating \in BOOLEAN,
         NEW grant \in Granted(k, ask, mutating)
  PROVE  RunOf(ask, mutating, grant) \in Run
<1>1. bridgeClock \in Nat /\ tokens \subseteq Token
  BY DEF BridgeTypeOK
<1>2. ask.arguments \in SUBSET Leaf
  BY BridgeConstants DEF AskType
<1>3. grant.by \in {"nobody", "handler", "token", "trusted"} /\ grant.made \in Nat
  BY <1>1 DEF Granted, Approvers, Token
<1>4. QED
  BY <1>1, <1>2, <1>3 DEF RunOf, Run

LEMMA BridgeTypeStep == BridgeTypeOK /\ BridgeNext => BridgeTypeOK'
<1> SUFFICES ASSUME BridgeTypeOK, BridgeNext PROVE BridgeTypeOK'
  OBVIOUS
<1> USE DEF BridgeTypeOK
<1>1. ASSUME NEW k \in Key, CreateToken(k) PROVE BridgeTypeOK'
  <2>1. TokenExpiry(bridgeClock) \in Nat
    BY WholeSeconds, BridgeConstants DEF TokenExpiry
  <2>2. tokens' \subseteq Token
    BY <1>1, <2>1 DEF CreateToken, Token
  <2>3. QED
    BY <1>1, <2>2 DEF CreateToken
<1>2. ASSUME NEW k \in Key, NEW kind \in {"reading", "mutating"},
             RegisterTool(k, kind)
      PROVE  BridgeTypeOK'
  BY <1>2 DEF RegisterTool
<1>3. ASSUME NEW k \in Key, NEW ask \in Ask, Invoke(k, ask) PROVE BridgeTypeOK'
  <2>1. lastRun' \in Run
    BY <1>3, GrantedType DEF Invoke
  <2>2. QED
    BY <1>3, <2>1 DEF Invoke
<1>4. CASE BridgeTick
  BY <1>4 DEF BridgeTick
<1>5. QED
  BY <1>1, <1>2, <1>3, <1>4 DEF BridgeNext
-----------------------------------------------------------------------------
(***************************************************************************)
(* Types.                                                                  *)
(***************************************************************************)

LEMMA AdvanceType ==
  ASSUME discoverAt \in 1 .. Len(DirOrder), Advance
  PROVE  discoverAt' \in 0 .. Len(DirOrder) /\ checked' = FALSE
<1>1. Len(DirOrder) \in Nat
  BY Places
<1>2. checked' = FALSE
  BY DEF Advance
<1>3. discoverAt' = IF discoverAt = Len(DirOrder) THEN 0 ELSE discoverAt + 1
  BY DEF Advance
<1>4. discoverAt' \in 0 .. Len(DirOrder)
  BY <1>1, <1>3
<1>5. QED
  BY <1>2, <1>4

LEMMA RegistryTypeInit == RegistryInit => RegistryTypeOK
<1> SUFFICES ASSUME RegistryInit PROVE RegistryTypeOK
  OBVIOUS
<1>1. BridgeTypeOK
  BY DEF RegistryInit, BridgeInit, BridgeTypeOK, NoRun, Run, Leaf
<1>2. disk \in [Dir -> DirType]
  BY RegistryConstants DEF RegistryInit
<1>4. discoverAt \in 0 .. Len(DirOrder)
  BY Places DEF RegistryInit
<1>5. QED
  BY <1>1, <1>2, <1>4 DEF RegistryInit, RegistryTypeOK, Empty

LEMMA RegistryTypeStep ==
  RegistryTypeOK /\ [RegistryNext]_registryVars => RegistryTypeOK'
<1> SUFFICES ASSUME RegistryTypeOK, [RegistryNext]_registryVars
             PROVE  RegistryTypeOK'
  OBVIOUS
<1> USE DEF RegistryTypeOK
<1>1. CASE Discover
  <2>1. 1 \in 0 .. Len(DirOrder)
    BY Places
  <2>2. discoverAt' = 1 /\ checked' = FALSE
    BY <1>1 DEF Discover
  <2>3. DOMAIN tools' = {} /\ tools' \in [DOMAIN tools' -> RegisteredTool]
    BY <1>1 DEF Discover, Empty
  <2>4. DOMAIN read' = {} /\ read' \in [DOMAIN read' -> DirType]
    BY <1>1 DEF Discover, Empty
  <2>5. active' = {} /\ quarantined' = {} /\ raced' = {}
    BY <1>1 DEF Discover
  <2>6. /\ BridgeTypeOK' /\ has_bridge' = has_bridge /\ disk' = disk
        /\ edits' = edits /\ aborted' = FALSE
    BY <1>1 DEF Discover, bridgeVars, BridgeTypeOK
  <2>7. QED
    BY <2>1, <2>2, <2>3, <2>4, <2>5, <2>6
<1>2. CASE CheckDirectory
  <2>1. discoverAt \in 1 .. Len(DirOrder) /\ Current \in Dir
    BY <1>2, Places DEF CheckDirectory, Current
  <2>2. disk[Current] \in DirType
    BY <2>1
  <2>4. DOMAIN read' \subseteq Dir /\ read' \in [DOMAIN read' -> DirType]
    <3>1. CASE read' = read
      BY <3>1
    <3>2. CASE read' = With(read, Current, disk[Current])
      <4>1. read' \in [DOMAIN read' -> DirType]
        BY <2>2, <3>2, WithType
      <4>2. DOMAIN read' = DOMAIN read \cup {Current}
        BY <3>2, WithEntry
      <4>3. QED
        BY <2>1, <4>1, <4>2
    <3>3. QED
      BY <1>2, <3>1, <3>2 DEF CheckDirectory
  <2>5. QuarantineName(disk[Current]) \in Tool \cup Dir
    BY <2>1, <2>2 DEF QuarantineName, DirType
  <2>6. quarantined' \subseteq Tool \cup Dir
    BY <1>2, <2>5 DEF CheckDirectory
  <2>7. discoverAt' \in 0 .. Len(DirOrder) /\ checked' \in BOOLEAN
        /\ (checked' => discoverAt' # 0)
    <3>1. Advance \/ (checked' = TRUE /\ discoverAt' = discoverAt)
      BY <1>2 DEF CheckDirectory
    <3>2. CASE Advance
      BY <2>1, <3>2, AdvanceType
    <3>3. CASE checked' = TRUE /\ discoverAt' = discoverAt
      BY <2>1, <3>3
    <3>4. QED
      BY <3>1, <3>2, <3>3
  <2>8. checked' => Current' \in DOMAIN read'
    <3>1. ASSUME checked'
          PROVE  /\ discoverAt' = discoverAt
                 /\ read' = With(read, Current, disk[Current])
      BY <1>2, <3>1 DEF CheckDirectory, Advance
    <3>2. DOMAIN With(read, Current, disk[Current]) = DOMAIN read \cup {Current}
      BY WithEntry
    <3>3. ASSUME checked' PROVE Current' \in DOMAIN read'
      <4>1. Current' = Current
        BY <3>1, <3>3 DEF Current
      <4>2. Current \in DOMAIN read'
        BY <3>1, <3>2, <3>3
      <4>3. QED
        BY <4>1, <4>2
    <3>4. QED
      BY <3>3
  <2>9. QED
    BY <1>2, <2>4, <2>6, <2>7, <2>8
       DEF CheckDirectory, bridgeVars, BridgeTypeOK
<1>3. CASE LoadDirectory
  <2>1. discoverAt \in 1 .. Len(DirOrder) /\ Current \in Dir
    BY <1>3, Places DEF LoadDirectory, Current
  <2>0. read[Current] \in DirType
    BY <1>3 DEF LoadDirectory
  <2>2. read[Current].name \in Tool
    BY <2>0 DEF DirType
  <2>3. active' \subseteq Tool /\ quarantined' \subseteq Tool \cup Dir
    BY <1>3, <2>2 DEF LoadDirectory
  <2>4. [from |-> Current, code |-> disk[Current].code,
         manifest |-> read[Current]] \in RegisteredTool
    BY <2>0, <2>1 DEF RegisteredTool, DirType
  <2>5. DOMAIN tools' \subseteq Tool /\ tools' \in [DOMAIN tools' -> RegisteredTool]
    <3> DEFINE tool == [from |-> Current, code |-> disk[Current].code,
                        manifest |-> read[Current]]
    <3>1. CASE tools' = tools
      BY <3>1
    <3>2. CASE tools' = With(tools, read[Current].name, tool)
      <4>1. tools' \in [DOMAIN tools' -> RegisteredTool]
        BY <2>4, <3>2, WithType
      <4>2. DOMAIN tools' = DOMAIN tools \cup {read[Current].name}
        BY <3>2, WithEntry
      <4>3. QED
        BY <2>2, <4>1, <4>2
    <3>3. QED
      BY <1>3, <3>1, <3>2 DEF LoadDirectory
  <2>6. discoverAt' \in 0 .. Len(DirOrder) /\ checked' = FALSE
    BY <1>3, <2>1, AdvanceType DEF LoadDirectory
  <2>7. QED
    BY <1>3, <2>3, <2>5, <2>6 DEF LoadDirectory, bridgeVars, BridgeTypeOK
<1>4. CASE BridgeMoves
  BY <1>4, BridgeTypeStep DEF BridgeMoves, BridgeNext, registry, discovery, Current
<1>5. ASSUME NEW d \in Dir, NEW layout \in Layout, EditDirectory(d, layout)
      PROVE  RegistryTypeOK'
  <2>1. layout \in DirType
    BY RegistryConstants
  <2>2. disk' \in [Dir -> DirType] /\ raced' \subseteq Dir /\ edits' \in Nat
    BY <1>5, <2>1 DEF EditDirectory
  <2>3. QED
    BY <1>5, <2>2 DEF EditDirectory, bridgeVars, registry, BridgeTypeOK, Current
<1>6. ASSUME NEW t \in Tool, NEW ask \in Ask, Dispatch(t, ask)
      PROVE  RegistryTypeOK'
  <2>1. KeyOf[t] \in Key
    BY RegistryConstants
  <2>2. t \in DOMAIN tools /\ tools[t] \in RegisteredTool
    BY <1>6 DEF Dispatch
  <2>3. NeedsApproval(t) \in BOOLEAN
    BY <2>2 DEF NeedsApproval, RegisteredTool, DirType
  <2>4. lastRun' \in Run
    BY <1>6, <2>1, <2>3, GrantedType DEF Dispatch, NeedsApproval
  <2>5. QED
    BY <1>6, <2>4 DEF Dispatch, registry, discovery, BridgeTypeOK
<1>7. CASE UNCHANGED registryVars
  BY <1>7 DEF registryVars, bridgeVars, registry, discovery, BridgeTypeOK,
              Current
<1>8. CASE AbortDiscovery
  <2>1. discoverAt \in 1 .. Len(DirOrder) /\ Current \in Dir
    BY <1>8, Places DEF AbortDiscovery, Current
  <2>2. DOMAIN read' \subseteq Dir /\ read' \in [DOMAIN read' -> DirType]
    <3>1. CASE read' = read
      BY <3>1
    <3>2. CASE read' = With(read, Current, disk[Current])
      <4>1. read' \in [DOMAIN read' -> DirType]
        BY <2>1, <3>2, WithType
      <4>2. DOMAIN read' = DOMAIN read \cup {Current}
        BY <3>2, WithEntry
      <4>3. QED
        BY <2>1, <4>1, <4>2
    <3>3. QED
      BY <1>8, <3>1, <3>2 DEF AbortDiscovery
  <2>3. 0 \in 0 .. Len(DirOrder)
    BY Places
  <2>4. QED
    BY <1>8, <2>2, <2>3 DEF AbortDiscovery, bridgeVars, registry, BridgeTypeOK
<1>9. QED
  BY <1>1, <1>2, <1>3, <1>4, <1>5, <1>6, <1>7, <1>8 DEF RegistryNext

\* The registry and the bridge keep their types (ExtensionRegistry and
\* SandboxedMCPBridge).
THEOREM RegistryTypeCorrect == RegistrySpec => []RegistryTypeOK
BY RegistryTypeInit, RegistryTypeStep, PTL DEF RegistrySpec
-----------------------------------------------------------------------------
(***************************************************************************)
(* What approves a run.                                                    *)
(***************************************************************************)

\* Tokens expire when their lifetime after their creation is over.
TokensAreDated == \A t \in tokens : t.expires = TokenExpiry(t.made)

\* Who is granted a call that changes things approves it, and by a token only
\* within its lifetime; what passes the screen, where there is one, changes no
\* table unless it may.
LEMMA RunIsApproved ==
  ASSUME BridgeTypeOK, TokensAreDated, NEW k \in Key, NEW ask \in Ask,
         NEW mutating \in BOOLEAN, NEW grant \in Granted(k, ask, mutating),
         has_bridge' => Safe(ask.arguments, mutating),
         lastRun' = RunOf(ask, mutating, grant)
  PROVE  RunsAreApproved'
<1>1. /\ lastRun'.arguments = ask.arguments /\ lastRun'.mutating = mutating
      /\ lastRun'.by = grant.by /\ lastRun'.made = grant.made
      /\ lastRun'.at = bridgeClock
  BY DEF RunOf
<1>2. mutating => grant.by # "nobody"
  BY DEF Granted, Approvers
<1>3. ASSUME grant.by = "token"
      PROVE  bridgeClock - grant.made <= TokenTTL * Second
  <2>1. PICK t \in tokens : Valid(t, k) /\ grant.made = t.made
    BY <1>3 DEF Granted, Approvers
  <2>2. t.made \in Nat /\ bridgeClock \in Nat
    BY DEF BridgeTypeOK, Token
  <2>3. bridgeClock <= TokenExpiry(t.made) * Second
    BY <2>1 DEF Valid, TokensAreDated
  <2>4. QED
    BY <2>1, <2>2, <2>3, ValidIsRecent
<1>4. has_bridge' =>
        \A leaf \in ask.arguments : leaf.holds = "destructive_sql" => mutating
  BY DEF Safe, SqlSafe
<1>5. /\ lastRun'.mutating => lastRun'.by # "nobody"
      /\ lastRun'.by = "token" =>
           lastRun'.at - lastRun'.made <= TokenTTL * Second
      /\ has_bridge' =>
           \A leaf \in lastRun'.arguments :
             leaf.holds = "destructive_sql" => lastRun'.mutating
  BY <1>1, <1>2, <1>3, <1>4
<1>6. QED
  BY <1>5 DEF RunsAreApproved

LEMMA BridgeKeepsApprovals ==
  ASSUME BridgeTypeOK, TokensAreDated, RunsAreApproved, BridgeNext,
         UNCHANGED has_bridge
  PROVE  TokensAreDated' /\ RunsAreApproved'
<1>1. ASSUME NEW k \in Key, CreateToken(k)
      PROVE  TokensAreDated' /\ RunsAreApproved'
  BY <1>1 DEF CreateToken, TokensAreDated, TokenExpiry, RunsAreApproved
<1>2. ASSUME NEW k \in Key, NEW ask \in Ask, Invoke(k, ask)
      PROVE  TokensAreDated' /\ RunsAreApproved'
  <2> DEFINE mutating == registered[k] = "mutating"
  <2>1. /\ Safe(ask.arguments, mutating)
        /\ \E grant \in Granted(k, ask, mutating) :
             lastRun' = RunOf(ask, mutating, grant)
        /\ tokens' = tokens
    BY <1>2 DEF Invoke
  <2>2. mutating \in BOOLEAN
    OBVIOUS
  <2>3. TokensAreDated'
    BY <2>1 DEF TokensAreDated, TokenExpiry
  <2> HIDE DEF mutating
  <2>4. RunsAreApproved'
    BY <2>1, <2>2, RunIsApproved
  <2>5. QED
    BY <2>3, <2>4
<1>3. ASSUME UNCHANGED <<tokens, lastRun>>
      PROVE  TokensAreDated' /\ RunsAreApproved'
  BY <1>3 DEF TokensAreDated, TokenExpiry, RunsAreApproved
<1>4. QED
  BY <1>1, <1>2, <1>3 DEF BridgeNext, RegisterTool, BridgeTick

\* For every lifetime of tokens and every split of a second: through bridge
\* and registry alike, what may change things runs with an approval, a token is
\* at most its lifetime old when it is used, and where there is a bridge, what
\* only reads gets no statement that changes tables (invoke_tool, dispatch, verify_approval_token).
THEOREM RunsStayApproved == RegistrySpec => []RunsAreApproved
<1>1. RegistryInit => TokensAreDated /\ RunsAreApproved
  BY DEF RegistryInit, BridgeInit, TokensAreDated, RunsAreApproved, NoRun
<1>2. RegistryTypeOK /\ TokensAreDated /\ RunsAreApproved
        /\ [RegistryNext]_registryVars => TokensAreDated' /\ RunsAreApproved'
  <2> SUFFICES ASSUME RegistryTypeOK, TokensAreDated, RunsAreApproved,
                      [RegistryNext]_registryVars
               PROVE  TokensAreDated' /\ RunsAreApproved'
    OBVIOUS
  <2>1. BridgeTypeOK
    BY DEF RegistryTypeOK
  <2>2. CASE BridgeMoves
    BY <2>1, <2>2, BridgeKeepsApprovals DEF BridgeMoves, BridgeNext
  <2>3. ASSUME NEW t \in Tool, NEW ask \in Ask, Dispatch(t, ask)
        PROVE  TokensAreDated' /\ RunsAreApproved'
    <3> DEFINE mutating == NeedsApproval(t)
    <3>1. /\ t \in DOMAIN tools /\ tokens' = tokens
          /\ has_bridge' => Safe(ask.arguments, FALSE)
      BY <2>3 DEF Dispatch
    <3>2. PICK grant \in Granted(KeyOf[t], ask, mutating) :
            lastRun' = RunOf(ask, mutating, grant)
      BY <2>3 DEF Dispatch, NeedsApproval
    <3>3. mutating \in BOOLEAN
      BY <3>1 DEF NeedsApproval, RegistryTypeOK, RegisteredTool, DirType
    <3>4. KeyOf[t] \in Key
      BY RegistryConstants
    <3>5. has_bridge' => Safe(ask.arguments, mutating)
      BY <3>1 DEF Safe, SqlSafe
    <3>6. TokensAreDated'
      BY <3>1 DEF TokensAreDated, TokenExpiry
    <3> HIDE DEF mutating
    <3>7. RunsAreApproved'
      BY <2>1, <3>2, <3>3, <3>4, <3>5, RunIsApproved
    <3>8. QED
      BY <3>6, <3>7
  <2>4. CASE UNCHANGED <<bridgeVars, has_bridge>>
    BY <2>4 DEF bridgeVars, TokensAreDated, TokenExpiry, RunsAreApproved
  <2>5. QED
    BY <2>2, <2>3, <2>4 DEF RegistryNext, registryVars, Discover,
                            CheckDirectory, LoadDirectory, EditDirectory,
                            AbortDiscovery
<1>3. QED
  BY <1>1, <1>2, RegistryTypeCorrect, PTL DEF RegistrySpec
-----------------------------------------------------------------------------
(***************************************************************************)
(* Where the tools come from.                                              *)
(***************************************************************************)

\* The directories this discovery has read and is done with.
Settled == {d \in DOMAIN read : ~(checked /\ d = Current)}

\* Nothing is read ahead.
ReadSoFar ==
  discoverAt # 0 =>
    \A d \in DOMAIN read : \E i \in 1 .. discoverAt :
      d = DirOrder[i] /\ (i = discoverAt => checked)

\* What was checked was read, and unless it raced its code is still there.
CheckedIsFound ==
  checked =>
    /\ Current \in DOMAIN read
    /\ Trusted(read[Current])
    /\ read[Current].lists_code /\ Current \notin raced =>
         disk[Current].code = read[Current].content

Sound(tool, settled, manifests, changed) ==
  /\ tool.from \in settled
  /\ manifests[tool.from] = tool.manifest
  /\ Trusted(tool.manifest)
  /\ tool.from \notin changed =>
       /\ tool.manifest.lists_code => tool.code = tool.manifest.signed
       /\ tool.code \notin Unhealthy

\* Every name that is listed has a directory, and one that is listed twice has
\* two of them; and unless an exception ended the discovery every directory it
\* is done with is listed.
Listed ==
  /\ ~aborted => \A d \in Settled : read[d].name \in active \cup quarantined
  /\ \A n \in active : \E d \in Settled : read[d].name = n
  /\ \A n \in quarantined \cap Tool : \E d \in Settled : read[d].name = n
  /\ \A n \in active \cap quarantined : \E d, e \in Settled :
       d # e /\ read[d].name = n /\ read[e].name = n

ToolsInv ==
  /\ ReadSoFar
  /\ CheckedIsFound
  /\ \A t \in DOMAIN tools : Sound(tools[t], Settled, read, raced)
  /\ Listed
  /\ DOMAIN tools \subseteq active
  /\ \A d \in Dir : disk[d].lists_code => disk[d].code = disk[d].content

LEMMA ToolsInvTrusts == RegistryTypeOK /\ ToolsInv => ToolsAreTrusted
<1> SUFFICES ASSUME RegistryTypeOK, ToolsInv PROVE ToolsAreTrusted
  OBVIOUS
<1>1. \A t \in DOMAIN tools :
        /\ tools[t].from \in DOMAIN read
        /\ read[tools[t].from] = tools[t].manifest
        /\ Trusted(tools[t].manifest)
        /\ tools[t].from \notin raced =>
             /\ tools[t].manifest.lists_code =>
                  tools[t].code = tools[t].manifest.signed
             /\ tools[t].code \notin Unhealthy
  BY DEF ToolsInv, Sound, Settled
<1>2. ASSUME discoverAt = 0,
             \A d, e \in DOMAIN read : read[d].name = read[e].name => d = e
      PROVE  /\ DOMAIN tools \subseteq active \ quarantined
             /\ ~aborted =>
                  \A d \in DOMAIN read :
                    read[d].name \in active <=> read[d].name \notin quarantined
  <2>1. Settled = DOMAIN read
    BY <1>2 DEF RegistryTypeOK, Settled
  <2>2. active \cap quarantined = {}
    BY <1>2, <2>1 DEF ToolsInv, Listed
  <2>3. ~aborted => \A d \in DOMAIN read : read[d].name \in active \cup quarantined
    BY <2>1 DEF ToolsInv, Listed
  <2>4. DOMAIN tools \subseteq active
    BY DEF ToolsInv
  <2>5. QED
    BY <2>2, <2>3, <2>4
<1>3. QED
  BY <1>1, <1>2 DEF ToolsAreTrusted

\* A directory whose turn it is has not been read.
LEMMA CurrentIsNew ==
  ASSUME RegistryTypeOK, ReadSoFar, discoverAt # 0, ~checked
  PROVE  Current \notin DOMAIN read /\ Current \in Dir
<1>1. discoverAt \in 1 .. Len(DirOrder)
  BY Places DEF RegistryTypeOK
<1>2. Current \in Dir
  BY <1>1, Places DEF Current
<1>3. SUFFICES ASSUME Current \in DOMAIN read PROVE FALSE
  BY <1>2
<1>4. PICK i \in 1 .. discoverAt :
        Current = DirOrder[i] /\ (i = discoverAt => checked)
  BY <1>3 DEF ReadSoFar
<1>5. i \in 1 .. Len(DirOrder) /\ i # discoverAt
  BY <1>1, <1>4, Places
<1>6. QED
  BY <1>1, <1>4, <1>5, Places DEF Current

\* With the step to the next directory, nothing that was read is ahead.
LEMMA AdvanceReadSoFar ==
  ASSUME RegistryTypeOK, ReadSoFar, discoverAt # 0, Advance,
         DOMAIN read' \subseteq DOMAIN read \cup {Current}
  PROVE  ReadSoFar' /\ CheckedIsFound' /\ Settled' = DOMAIN read'
<1>1. discoverAt \in Nat /\ Len(DirOrder) \in Nat
  BY Places DEF RegistryTypeOK
<1>2. checked' = FALSE
  BY DEF Advance
<1>3. CheckedIsFound' /\ Settled' = DOMAIN read'
  BY <1>2 DEF CheckedIsFound, Settled
<1>4. ASSUME discoverAt' # 0, NEW d \in DOMAIN read'
      PROVE  \E i \in 1 .. discoverAt' :
               d = DirOrder[i] /\ (i = discoverAt' => checked')
  <2>1. discoverAt' = discoverAt + 1
    BY <1>4 DEF Advance
  <2>2. PICK i \in 1 .. discoverAt : d = DirOrder[i]
    <3>1. CASE d \in DOMAIN read
      BY <3>1 DEF ReadSoFar
    <3>2. CASE d = Current
      BY <1>1, <3>2 DEF Current
    <3>3. QED
      BY <3>1, <3>2
  <2>3. i \in 1 .. discoverAt' /\ i # discoverAt'
    BY <1>1, <2>1, <2>2
  <2>4. QED
    BY <2>2, <2>3
<1>5. ReadSoFar'
  BY <1>4 DEF ReadSoFar
<1>6. QED
  BY <1>3, <1>5

\* A directory with nothing to read, or refused.
LEMMA RefusalKeepsTools ==
  ASSUME RegistryTypeOK, ToolsInv, CheckDirectory, checked' = FALSE
  PROVE  ToolsInv'
<1> DEFINE d == disk[Current]
<1>1. /\ discoverAt # 0 /\ ~checked /\ Advance
      /\ active' = active /\ tools' = tools /\ raced' = raced
      /\ disk' = disk /\ aborted' = aborted
      /\ read' = IF d.manifest = "good" THEN With(read, Current, d) ELSE read
      /\ \/ d.manifest = "none" /\ quarantined' = quarantined
         \/ quarantined' = quarantined \cup {QuarantineName(d)}
  BY DEF CheckDirectory
<1>2. /\ Current \notin DOMAIN read /\ Current \in Dir
      /\ Settled = DOMAIN read
  BY <1>1, CurrentIsNew DEF ToolsInv, Settled
<1>3. /\ DOMAIN read \subseteq DOMAIN read'
      /\ DOMAIN read' \subseteq DOMAIN read \cup {Current}
      /\ \A e \in DOMAIN read : read'[e] = read[e]
  <2>1. CASE read' = read
    BY <2>1
  <2>2. CASE read' = With(read, Current, d)
    <3>1. DOMAIN read' = DOMAIN read \cup {Current}
      BY <2>2, WithEntry
    <3>2. \A e \in DOMAIN read : e # Current => read'[e] = read[e]
      BY <2>2 DEF With
    <3>3. QED
      BY <1>2, <3>1, <3>2
  <2>3. QED
    BY <1>1, <2>1, <2>2
<1>4. ReadSoFar' /\ CheckedIsFound' /\ Settled' = DOMAIN read'
  BY <1>1, <1>3, AdvanceReadSoFar DEF ToolsInv
<1>5. \A t \in DOMAIN tools' : Sound(tools'[t], Settled', read', raced')
  BY <1>1, <1>2, <1>3, <1>4 DEF ToolsInv, Sound
<1>6. Listed'
  <2>1. CASE d.manifest = "good"
    <3>1. /\ DOMAIN read' = DOMAIN read \cup {Current} /\ read'[Current] = d
          /\ quarantined' = quarantined \cup {d.name}
      <4>1. read' = With(read, Current, d)
        BY <1>1, <2>1
      <4>2. DOMAIN read' = DOMAIN read \cup {Current} /\ read'[Current] = d
        BY <4>1 DEF With
      <4>3. quarantined' = quarantined \cup {d.name}
        BY <1>1, <2>1 DEF QuarantineName
      <4>4. QED
        BY <4>2, <4>3
    <3>2. QED
      BY <1>1, <1>2, <1>3, <1>4, <3>1 DEF ToolsInv, Listed
  <2>2. CASE d.manifest # "good"
    <3>1. read' = read
      BY <1>1, <2>2
    <3>2. quarantined' = quarantined \/ quarantined' = quarantined \cup {Current}
      BY <1>1, <2>2 DEF QuarantineName
    <3>3. Current \notin Tool /\ Current \notin active
      BY <1>2, RegistryConstants DEF RegistryTypeOK
    <3>4. QED
      BY <1>1, <1>2, <1>4, <3>1, <3>2, <3>3 DEF ToolsInv, Listed
  <2>3. QED
    BY <2>1, <2>2
<1>7. DOMAIN tools' \subseteq active'
        /\ \A x \in Dir : disk'[x].lists_code => disk'[x].code = disk'[x].content
  BY <1>1 DEF ToolsInv
<1>8. QED
  BY <1>4, <1>5, <1>6, <1>7 DEF ToolsInv

\* A directory that passes its checks.
LEMMA PassKeepsTools ==
  ASSUME RegistryTypeOK, ToolsInv, CheckDirectory, checked' # FALSE
  PROVE  ToolsInv'
<1> DEFINE d == disk[Current]
<1>1. /\ discoverAt # 0 /\ ~checked /\ disk' = disk /\ aborted' = aborted
      /\ active' = active /\ tools' = tools /\ raced' = raced
      /\ quarantined' = quarantined
      /\ checked' = TRUE /\ discoverAt' = discoverAt
      /\ read' = With(read, Current, d)
      /\ Trusted(d)
  BY DEF CheckDirectory, Advance
<1>2. /\ Current \notin DOMAIN read /\ Current' = Current /\ Current \in Dir
      /\ Settled = DOMAIN read
  BY <1>1, CurrentIsNew DEF ToolsInv, Settled, Current
<1>3. /\ DOMAIN read' = DOMAIN read \cup {Current} /\ read'[Current] = d
      /\ \A e \in DOMAIN read : read'[e] = read[e]
  <2>1. read' = With(read, Current, d)
    BY <1>1
  <2>2. DOMAIN read' = DOMAIN read \cup {Current} /\ read'[Current] = d
    BY <2>1 DEF With
  <2>3. \A e \in DOMAIN read : e # Current => read'[e] = read[e]
    BY <2>1 DEF With
  <2>4. QED
    BY <1>2, <2>2, <2>3
<1>4. Settled' = Settled
  BY <1>1, <1>2, <1>3 DEF Settled
<1>5. ReadSoFar'
  <2>1. discoverAt \in Nat
    BY DEF RegistryTypeOK
  <2>2. ASSUME NEW e \in DOMAIN read'
        PROVE  \E i \in 1 .. discoverAt : e = DirOrder[i]
    <3>1. CASE e \in DOMAIN read
      BY <1>1, <3>1 DEF ToolsInv, ReadSoFar
    <3>2. CASE e = Current
      BY <1>1, <2>1, <3>2 DEF Current
    <3>3. QED
      BY <1>3, <3>1, <3>2
  <2>3. QED
    BY <1>1, <2>2 DEF ReadSoFar
<1>6. CheckedIsFound'
  <2>1. d.lists_code => d.code = d.content
    BY <1>2 DEF ToolsInv
  <2> HIDE DEF d
  <2>2. Current' \in DOMAIN read' /\ Trusted(read'[Current'])
    BY <1>1, <1>2, <1>3
  <2>3. read'[Current'].lists_code => disk'[Current'].code = read'[Current'].content
    BY <1>1, <1>2, <1>3, <2>1 DEF d
  <2>4. QED
    BY <2>2, <2>3 DEF CheckedIsFound, Trusted, SignatureValid
<1>7. \A t \in DOMAIN tools' : Sound(tools'[t], Settled', read', raced')
  BY <1>1, <1>2, <1>3, <1>4 DEF ToolsInv, Sound
<1>8. Listed'
  BY <1>1, <1>2, <1>3, <1>4 DEF ToolsInv, Listed
<1>9. DOMAIN tools' \subseteq active'
        /\ \A x \in Dir : disk'[x].lists_code => disk'[x].code = disk'[x].content
  BY <1>1 DEF ToolsInv
<1>10. QED
  BY <1>5, <1>6, <1>7, <1>8, <1>9 DEF ToolsInv

\* The tool of a directory that passed is loaded, or its name is quarantined.
LEMMA LoadKeepsTools ==
  ASSUME RegistryTypeOK, ToolsInv, LoadDirectory
  PROVE  ToolsInv'
<1> DEFINE code == disk[Current].code
           found == read[Current]
           t == found.name
           tool == [from |-> Current, code |-> code, manifest |-> found]
<1>1. /\ checked /\ discoverAt # 0 /\ Advance
      /\ disk' = disk /\ read' = read /\ raced' = raced /\ aborted' = aborted
  BY DEF LoadDirectory, RegistryTypeOK
<1>2. /\ Current \in DOMAIN read /\ Trusted(found)
      /\ found.lists_code /\ Current \notin raced => code = found.content
  BY <1>1 DEF ToolsInv, CheckedIsFound
<1>3. ReadSoFar' /\ CheckedIsFound' /\ Settled' = DOMAIN read'
  BY <1>1, AdvanceReadSoFar DEF ToolsInv
<1>4. Settled = DOMAIN read \ {Current} /\ Settled' = Settled \cup {Current}
  BY <1>1, <1>2, <1>3 DEF Settled
<1>5. t \in Tool
  BY <1>2 DEF RegistryTypeOK, DirType
<1>6. \/ active' = active /\ tools' = tools /\ quarantined' = quarantined \cup {t}
      \/ /\ active' = active \cup {t} /\ quarantined' = quarantined
         /\ \/ tools' = tools
            \/ tools' = With(tools, t, tool) /\ code \notin Unhealthy
  BY DEF LoadDirectory, Fails
<1>7. \A x \in DOMAIN tools : Sound(tools[x], Settled', read', raced')
  BY <1>1, <1>4 DEF ToolsInv, Sound
<1>8. ASSUME code \notin Unhealthy PROVE Sound(tool, Settled', read', raced')
  BY <1>1, <1>2, <1>4, <1>8 DEF Sound, Trusted, SignatureValid
<1>9. \A x \in DOMAIN tools' : Sound(tools'[x], Settled', read', raced')
  <2>1. CASE tools' = tools
    BY <1>7, <2>1
  <2>2. CASE tools' = With(tools, t, tool) /\ code \notin Unhealthy
    <3>1. ASSUME NEW x \in DOMAIN tools' PROVE Sound(tools'[x], Settled', read', raced')
      <4>1. CASE x = t
        <5>1. tools'[t] = tool
          BY <2>2 DEF With
        <5>2. QED
          BY <1>8, <2>2, <4>1, <5>1
      <4>2. CASE x # t
        <5>1. x \in DOMAIN tools /\ tools'[x] = tools[x]
          <6>1. DOMAIN tools' = DOMAIN tools \cup {t}
            BY <2>2 DEF With
          <6>2. x \in DOMAIN tools
            BY <4>2, <6>1
          <6>3. QED
            BY <2>2, <4>2, <6>2 DEF With
        <5>2. QED
          BY <1>7, <5>1
      <4>3. QED
        BY <4>1, <4>2
    <3>2. QED
      BY <3>1
  <2>3. QED
    BY <1>6, <2>1, <2>2
<1>10. Listed'
  BY <1>1, <1>2, <1>4, <1>5, <1>6 DEF ToolsInv, Listed
<1>11. DOMAIN tools' \subseteq active'
  <2>1. DOMAIN With(tools, t, tool) = DOMAIN tools \cup {t}
    BY DEF With
  <2>2. QED
    BY <1>6, <2>1 DEF ToolsInv
<1>12. \A x \in Dir : disk'[x].lists_code => disk'[x].code = disk'[x].content
  BY <1>1 DEF ToolsInv
<1>13. QED
  BY <1>3, <1>9, <1>10, <1>11, <1>12 DEF ToolsInv

\* A discovery that an exception ends keeps what it has registered.
LEMMA AbortKeepsTools ==
  ASSUME RegistryTypeOK, ToolsInv, AbortDiscovery
  PROVE  ToolsInv'
<1> DEFINE d == disk[Current]
<1>1. /\ discoverAt # 0 /\ discoverAt' = 0 /\ checked' = FALSE /\ aborted'
      /\ active' = active /\ tools' = tools /\ quarantined' = quarantined
      /\ raced' = raced /\ disk' = disk
      /\ \/ ~checked /\ read' = With(read, Current, d)
         \/ checked /\ read' = read
  BY DEF AbortDiscovery, registry
<1>2. /\ Settled' = DOMAIN read' /\ Settled \subseteq DOMAIN read'
      /\ \A e \in Settled : read'[e] = read[e]
  <2>1. Settled' = DOMAIN read'
    BY <1>1 DEF Settled
  <2>2. CASE checked
    BY <1>1, <2>1, <2>2 DEF Settled
  <2>3. CASE ~checked
    <3>1. Current \notin DOMAIN read
      BY <1>1, <2>3, CurrentIsNew DEF ToolsInv
    <3>2. read' = With(read, Current, d)
      BY <1>1, <2>3
    <3>3. /\ DOMAIN read' = DOMAIN read \cup {Current}
          /\ \A e \in DOMAIN read : e # Current => read'[e] = read[e]
      BY <3>2 DEF With
    <3>4. QED
      BY <2>1, <2>3, <3>1, <3>3 DEF Settled
  <2>4. QED
    BY <2>2, <2>3
<1>3. ReadSoFar' /\ CheckedIsFound'
  BY <1>1 DEF ReadSoFar, CheckedIsFound
<1>4. \A t \in DOMAIN tools' : Sound(tools'[t], Settled', read', raced')
  BY <1>1, <1>2 DEF ToolsInv, Sound
<1>5. Listed'
  BY <1>1, <1>2 DEF ToolsInv, Listed
<1>6. QED
  BY <1>1, <1>3, <1>4, <1>5 DEF ToolsInv

\* For any number of directories and any edits between: a tool comes from a
\* directory that passed every check in this discovery, its code is healthy,
\* and signed where the manifest lists it, unless it changed between its check
\* and its import, and what was refused cannot be dispatched, also after an
\* exception (discover_and_register_all, _process_extension_directory,
\* verify_capability_signature).
THEOREM ToolsStayTrusted == RegistrySpec => []ToolsAreTrusted
<1>1. RegistryInit => ToolsInv
  <2> SUFFICES ASSUME RegistryInit PROVE ToolsInv
    OBVIOUS
  <2>1. \A d \in Dir : disk[d].lists_code => disk[d].code = disk[d].content
    BY RegistryConstants DEF RegistryInit
  <2>2. QED
    BY <2>1 DEF RegistryInit, ToolsInv, ReadSoFar, CheckedIsFound, Listed,
                Settled, Empty
<1>2. RegistryTypeOK /\ ToolsInv /\ [RegistryNext]_registryVars => ToolsInv'
  <2> SUFFICES ASSUME RegistryTypeOK, ToolsInv, [RegistryNext]_registryVars
               PROVE  ToolsInv'
    OBVIOUS
  <2>1. CASE Discover
    BY <2>1 DEF Discover, ToolsInv, ReadSoFar, CheckedIsFound, Listed, Settled,
                Empty
  <2>2. CASE CheckDirectory
    BY <2>2, RefusalKeepsTools, PassKeepsTools
  <2>3. CASE LoadDirectory
    BY <2>3, LoadKeepsTools
  <2>4. ASSUME NEW d \in Dir, NEW layout \in Layout, EditDirectory(d, layout)
        PROVE  ToolsInv'
    <3>1. /\ active' = active /\ tools' = tools /\ quarantined' = quarantined
          /\ discoverAt' = discoverAt /\ checked' = checked
          /\ read' = read /\ aborted' = aborted
          /\ disk' = [disk EXCEPT ![d] = layout]
          /\ raced' = IF checked /\ d = Current THEN raced \cup {d} ELSE raced
      BY <2>4 DEF EditDirectory, registry
    <3>2. Current' = Current /\ Settled' = Settled
      BY <3>1 DEF Current, Settled
    <3>3. ReadSoFar' /\ Listed' /\ DOMAIN tools' \subseteq active'
      BY <3>1, <3>2 DEF ToolsInv, ReadSoFar, Listed
    <3>4. CheckedIsFound'
      BY <3>1, <3>2 DEF ToolsInv, CheckedIsFound, RegistryTypeOK
    <3>5. \A t \in DOMAIN tools' : Sound(tools'[t], Settled', read', raced')
      BY <3>1, <3>2 DEF ToolsInv, Sound
    <3>6. \A x \in Dir : disk'[x].lists_code => disk'[x].code = disk'[x].content
      BY <3>1, RegistryConstants DEF ToolsInv, RegistryTypeOK
    <3>7. QED
      BY <3>3, <3>4, <3>5, <3>6 DEF ToolsInv
  <2>5. CASE UNCHANGED <<disk, registry, discovery>>
    <3>1. /\ active' = active /\ tools' = tools /\ quarantined' = quarantined
          /\ discoverAt' = discoverAt /\ checked' = checked
          /\ read' = read /\ raced' = raced /\ disk' = disk
          /\ aborted' = aborted
      BY <2>5 DEF registry, discovery
    <3>2. Current' = Current /\ Settled' = Settled
      BY <3>1 DEF Current, Settled
    <3>3. ReadSoFar' /\ Listed' /\ DOMAIN tools' \subseteq active'
      BY <3>1, <3>2 DEF ToolsInv, ReadSoFar, Listed
    <3>4. CheckedIsFound'
      BY <3>1, <3>2 DEF ToolsInv, CheckedIsFound
    <3>5. \A t \in DOMAIN tools' : Sound(tools'[t], Settled', read', raced')
      BY <3>1, <3>2 DEF ToolsInv, Sound
    <3>6. QED
      BY <3>1, <3>3, <3>4, <3>5 DEF ToolsInv
  <2>6. CASE AbortDiscovery
    BY <2>6, AbortKeepsTools
  <2>7. QED
    BY <2>1, <2>2, <2>3, <2>4, <2>5, <2>6
       DEF RegistryNext, registryVars, BridgeMoves, Dispatch
<1>3. QED
  BY <1>1, <1>2, ToolsInvTrusts, RegistryTypeCorrect, PTL DEF RegistrySpec
-----------------------------------------------------------------------------
(***************************************************************************)
(* The turn and the dispatch.                                              *)
(***************************************************************************)
\* Whichever of the two moves, detector, tracker, registry and bridge keep
\* their types.
THEOREM AgentTypeCorrect == AgentSpec => []AgentTypeOK
<1> DEFINE agentVars == <<focus, turnVars, registryVars>>
<1>1. AgentInit => TurnInit /\ RegistryInit
  BY DEF AgentInit
<1>2. [AgentNext]_agentVars => [TurnNext]_turnVars
  BY DEF AgentNext
<1>3. [AgentNext]_agentVars => [RegistryNext]_registryVars
  BY DEF AgentNext
<1>4. TurnTypeOK /\ RegistryTypeOK => AgentTypeOK
  BY DEF AgentTypeOK
<1>5. QED
  BY <1>1, <1>2, <1>3, <1>4, TurnTypeCorrect, RegistryTypeCorrect, PTL
     DEF AgentSpec, TurnSpec, RegistrySpec
=============================================================================
