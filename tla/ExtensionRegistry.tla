------------------------- MODULE ExtensionRegistry -------------------------
(***************************************************************************)
(* The extension registry (capabilities/extension_layer).  Discovery goes  *)
(* through the directories of the capabilities in order: it checks the     *)
(* manifest, the hashes of the files and the signature of the release      *)
(* authority (hermes_core/trust_root.py), then imports the directory's     *)
(* validator and tool.  dispatch runs a tool that was registered, behind   *)
(* the screen and the approvals of the bridge, if the bridge is there.     *)
(*                                                                         *)
(* The files a manifest lists are taken together as one content.  Nothing  *)
(* makes the list name the tool's file or the validator, and the signature *)
(* covers the list but not the entry point: the code that is imported may  *)
(* be another content, which nobody has hashed.                            *)
(***************************************************************************)
EXTENDS McpBridge, Sequences

CONSTANTS
  DirOrder,    \* the directories of capabilities_dir, in order
  Tool,        \* names in manifests
  KeyOf,       \* KeyOf[t]: "extension:<t>", the key of tokens for tool t
  Content,     \* what files of a directory may hold
  NoContent,   \* a file that is listed is missing
  Unhealthy,   \* contents whose validator reports a failure
  Unloadable,  \* contents whose tool cannot be imported
  Layout,      \* what a directory may be (see DirType)
  MaxEdits     \* bound of the model: how often a directory is changed

Dir == {DirOrder[i] : i \in DOMAIN DirOrder}

\* A directory: the state of its manifest, the name in it, the content it has
\* hashes of, whether it says it is approved, the content the signature was
\* made for, whether it names a tool, whether that tool changes things, and
\* whether the list names the code; the content of the files that are listed,
\* and the code, which is validator and tool with what they import.
DirType ==
  [manifest : {"none", "damaged", "incomplete", "good"}, name : Tool,
   hashed : Content \cup {NoContent}, approved : BOOLEAN,
   signed : Content \cup {NoContent}, has_tool : BOOLEAN,
   is_mutating : BOOLEAN, lists_code : BOOLEAN,
   content : Content \cup {NoContent}, code : Content \cup {NoContent}]

ASSUME RegistryConstants ==
  /\ DirOrder \in Seq(Dir) /\ DirOrder # <<>>
  /\ \A i, j \in DOMAIN DirOrder : DirOrder[i] = DirOrder[j] => i = j
  /\ Dir \cap Tool = {}
  /\ NoContent \notin Content
  /\ KeyOf \in [Tool -> Key]
  /\ Unhealthy \subseteq Content
  /\ Unloadable \subseteq Content
  /\ Layout \subseteq DirType
  /\ \A d \in Layout : d.lists_code => d.code = d.content
  /\ MaxEdits \in Nat

VARIABLES
  has_bridge,  \* _mcp_bridge was made when the registry was
  disk,        \* the directories as they are
  discoverAt,  \* the place of the directory under discovery, or 0
  checked,     \* that directory has passed its checks
  active,      \* active_extensions: names
  quarantined, \* quarantined_extensions: names, or directories without one
  tools,       \* registered_tools, by name
  edits,       \* counter for the bound
  raced,       \* history: directories changed between their check and load
  read,        \* the manifests read by this discovery, by directory: that of
               \* the directory under discovery, the others as history
  aborted      \* history: this discovery was ended by an exception

registry == <<active, quarantined, tools>>
discovery == <<discoverAt, checked, raced, read, aborted>>
registryVars == <<bridgeVars, has_bridge, disk, registry, discovery, edits>>

RegisteredTool == [from : Dir, code : Content \cup {NoContent},
                   manifest : DirType]

Current == DirOrder[discoverAt]

\* Types of the variables; only a directory under discovery is checked, and its
\* manifest has been read.
RegistryTypeOK ==
  /\ BridgeTypeOK
  /\ has_bridge \in BOOLEAN
  /\ disk \in [Dir -> DirType]
  /\ discoverAt \in 0 .. Len(DirOrder)
  /\ checked \in BOOLEAN /\ (checked => discoverAt # 0)
  /\ active \subseteq Tool
  /\ quarantined \subseteq Tool \cup Dir
  /\ DOMAIN tools \subseteq Tool
  /\ tools \in [DOMAIN tools -> RegisteredTool]
  /\ edits \in Nat
  /\ raced \subseteq Dir
  /\ DOMAIN read \subseteq Dir
  /\ read \in [DOMAIN read -> DirType]
  /\ checked => Current \in DOMAIN read
  /\ aborted \in BOOLEAN

Empty == [t \in {} |-> 0]

RegistryInit ==
  /\ BridgeInit
  /\ has_bridge \in BOOLEAN
  /\ disk \in [Dir -> Layout]
  /\ discoverAt = 0
  /\ checked = FALSE
  /\ active = {}
  /\ quarantined = {}
  /\ tools = Empty
  /\ edits = 0
  /\ raced = {}
  /\ read = Empty
  /\ aborted = FALSE
-----------------------------------------------------------------------------
With(map, x, value) ==
  [y \in DOMAIN map \cup {x} |-> IF y = x THEN value ELSE map[y]]

\* The next directory, or the end.
Advance ==
  /\ discoverAt' = IF discoverAt = Len(DirOrder) THEN 0 ELSE discoverAt + 1
  /\ checked' = FALSE

\* discover_and_register_all, the start: what was known is forgotten.
Discover ==
  /\ discoverAt = 0
  /\ discoverAt' = 1
  /\ checked' = FALSE
  /\ active' = {}
  /\ quarantined' = {}
  /\ tools' = Empty
  /\ raced' = {}
  /\ read' = Empty
  /\ aborted' = FALSE
  /\ UNCHANGED <<bridgeVars, has_bridge, disk, edits>>

\* verify_capability_signature: the signature is for these hashes.
SignatureValid(d) == d.signed = d.hashed

\* Mutant: the hashes are signed, but not compared with the files.
TrustedUnread(d) ==
  /\ d.hashed # NoContent
  /\ d.approved
  /\ SignatureValid(d)

\* The hashes are there and are those of the files, the manifest is approved
\* and the signature valid.
Trusted(d) ==
  /\ d.hashed # NoContent
  /\ d.content = d.hashed
  /\ d.approved
  /\ SignatureValid(d)

\* Where a directory that is refused is listed: under its own name as long as
\* its manifest has none.
QuarantineName(d) ==
  IF d.manifest = "good" THEN d.name ELSE Current

\* _process_extension_directory, up to the signature.
CheckDirectory ==
  LET d == disk[Current]
  IN  /\ discoverAt # 0
      /\ ~checked
      /\ read' = IF d.manifest = "good" THEN With(read, Current, d) ELSE read
      /\ \/ /\ d.manifest = "none"
            /\ Advance
            /\ UNCHANGED quarantined
         \/ /\ d.manifest # "none"
            /\ d.manifest = "good" => ~Trusted(d)
            /\ quarantined' = quarantined \cup {QuarantineName(d)}
            /\ Advance
         \/ /\ d.manifest = "good"
            /\ Trusted(d)
            /\ checked' = TRUE
            /\ UNCHANGED <<quarantined, discoverAt>>
      /\ UNCHANGED <<bridgeVars, has_bridge, disk, active, tools, edits, raced,
                     aborted>>

\* _run_validator and _import_callable: validator and tool are imported from
\* the files as they are now.  Files that are gone fail nothing.
Fails(content, has_tool) ==
  content \in Unhealthy \/ (has_tool /\ content \in Unloadable)

\* _process_extension_directory, from the validator on.
LoadDirectory ==
  LET code == disk[Current].code
      found == read[Current]
      t == found.name
      registers == found.has_tool /\ code # NoContent
  IN  /\ checked
      /\ \/ /\ Fails(code, found.has_tool)
            /\ quarantined' = quarantined \cup {t}
            /\ UNCHANGED <<active, tools>>
         \/ /\ ~Fails(code, found.has_tool)
            /\ active' = active \cup {t}
            /\ tools' = IF registers
                          THEN With(tools, t, [from |-> Current, code |-> code,
                                               manifest |-> found])
                          ELSE tools
            /\ UNCHANGED quarantined
      /\ Advance
      /\ UNCHANGED <<bridgeVars, has_bridge, disk, edits, raced, read, aborted>>

\* An exception that nothing on the way catches: a part of the manifest that
\* has the wrong type, a listed file that cannot be read, a validator that
\* answers with anything but a pair.  The directories that are left are not
\* looked at, and what was registered by then stays so.
AbortDiscovery ==
  /\ discoverAt # 0
  /\ \/ /\ ~checked
        /\ disk[Current].manifest = "good"
        /\ read' = With(read, Current, disk[Current])
     \/ checked /\ UNCHANGED read
  /\ discoverAt' = 0
  /\ checked' = FALSE
  /\ aborted' = TRUE
  /\ UNCHANGED <<bridgeVars, has_bridge, disk, registry, edits, raced>>

\* Somebody installs, updates or damages a directory.
EditDirectory(d, layout) ==
  /\ edits < MaxEdits
  /\ edits' = edits + 1
  /\ disk' = [disk EXCEPT ![d] = layout]
  /\ raced' = IF checked /\ d = Current THEN raced \cup {d} ELSE raced
  /\ UNCHANGED <<bridgeVars, has_bridge, registry, discoverAt, checked, read,
                 aborted>>

\* Mutant: what the manifest says by now decides.
NeedsApprovalNow(t) == disk[tools[t].from].is_mutating

\* Set when the tool was registered.
NeedsApproval(t) == tools[t].manifest.is_mutating

\* dispatch, where the tool runs.  The screen is told of no tool that it may
\* change tables.  Without a bridge there is no screen, and a token counts for
\* nothing.  A call that is refused changes nothing.
Dispatch(t, ask) ==
  /\ discoverAt = 0
  /\ t \in DOMAIN tools
  /\ has_bridge => Safe(ask.arguments, FALSE)
  /\ \E grant \in Granted(KeyOf[t], ask, NeedsApproval(t)) :
       /\ grant.by = "token" => has_bridge
       /\ lastRun' = RunOf(ask, tools[t].manifest.is_mutating, grant)
  /\ UNCHANGED <<bridgeClock, registered, tokens, has_bridge, disk, registry,
                 discovery, edits>>

\* The bridge goes on beside the registry; they share tokens and nothing else.
\* Where it cannot be made, time passes all the same.
BridgeMoves ==
  /\ IF has_bridge THEN BridgeNext ELSE BridgeTick
  /\ UNCHANGED <<has_bridge, disk, registry, discovery, edits>>

RegistryNext ==
  \/ Discover \/ CheckDirectory \/ LoadDirectory \/ AbortDiscovery
  \/ BridgeMoves
  \/ \E d \in Dir, layout \in Layout : EditDirectory(d, layout)
  \/ \E t \in Tool, ask \in Ask : Dispatch(t, ask)

RegistrySpec == RegistryInit /\ [][RegistryNext]_registryVars
-----------------------------------------------------------------------------
\* Every tool that can be dispatched comes from a directory that passed every
\* check in this discovery; unless the files changed between the check and the
\* import, its validator found the code healthy, and where the manifest lists
\* the code, it is the content that was hashed and signed.  Nor can an earlier
\* discovery leave anything behind: when this one is over and no two manifests
\* share a name, no tool of a manifest in quarantine can be dispatched, and
\* unless an exception ended it every manifest that was read is either active
\* or in quarantine.
ToolsAreTrusted ==
  /\ \A t \in DOMAIN tools :
       LET tool == tools[t]
       IN  /\ tool.from \in DOMAIN read /\ read[tool.from] = tool.manifest
           /\ Trusted(tool.manifest)
           /\ tool.from \notin raced =>
                /\ tool.manifest.lists_code => tool.code = tool.manifest.signed
                /\ tool.code \notin Unhealthy
  /\ /\ discoverAt = 0
     /\ \A d, e \in DOMAIN read : read[d].name = read[e].name => d = e
     => /\ DOMAIN tools \subseteq active \ quarantined
        /\ ~aborted =>
             \A d \in DOMAIN read :
               read[d].name \in active <=> read[d].name \notin quarantined

\* What trust_root.py says in its header, that code nobody signed is put in
\* quarantine.  It does not hold, even if no file changes in between: a
\* manifest need not list the code that its entry point names.
SignedCodeOnly ==
  \A t \in DOMAIN tools :
    tools[t].from \notin raced => tools[t].code = tools[t].manifest.signed

\* Through the bridge and through the registry alike, what may change things
\* runs with an approval, also when its tool was registered anew or the
\* manifest changed on disk; an approval by token is at most TokenTTL seconds
\* old then, in whichever part of a second it was given; and where there is a
\* bridge, what only reads gets no statement that changes tables.
RunsAreApproved ==
  /\ lastRun.mutating => lastRun.by # "nobody"
  /\ lastRun.by = "token" => lastRun.at - lastRun.made <= TokenTTL * Second
  /\ has_bridge =>
       \A leaf \in lastRun.arguments :
         leaf.holds = "destructive_sql" => lastRun.mutating
=============================================================================
