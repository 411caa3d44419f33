----------------------------- MODULE McpBridge -----------------------------
(***************************************************************************)
(* The sandboxed MCP bridge (capabilities/sandboxed_mcp): a call names a   *)
(* registered tool; its arguments are screened, a tool that changes things *)
(* needs an approval, and then the handler runs.  An approval may come as  *)
(* a token that names the tool and expires.                                *)
(*                                                                         *)
(* Time passes in parts of a second, tokens count in whole seconds.        *)
(***************************************************************************)
EXTENDS Integers, FiniteSets

CONSTANTS
  Key,          \* names of tools, "server:tool"
  Ask,          \* what callers send (see AskType)
  MaxDepth,     \* max_depth of the arguments
  TokenTTL,     \* ttl_seconds of a token
  Second,       \* ticks of the clock in a second
  HasSecret,    \* an approval secret is configured
  MaxBridgeClock, \* bound of the model: the last tick of the clock
  MaxTokens     \* bound of the model: how many tokens are created

\* The strings in the arguments, each with its depth, what its place says it
\* is, and what it holds.  "outside" stands for a path that leaves the
\* workspace, "private" for one that is closed inside it.
Leaf ==
  [depth : Nat, place : {"path", "command", "sql", "secret", "plain"},
   holds : {"text", "nul", "outside", "symlink", "private",
            "destructive_command", "destructive_sql", "private_key"}]

\* A call: its arguments, whether an approval handler that is asked agrees,
\* whether it comes from a trusted caller and says a human approved, and
\* whether it presents a token.
AskType ==
  [arguments : SUBSET Leaf, agreed : BOOLEAN, trusted_caller : BOOLEAN,
   human_approved : BOOLEAN, with_token : BOOLEAN]

ASSUME BridgeConstants ==
  /\ Ask \subseteq AskType
  /\ MaxDepth \in Nat
  /\ TokenTTL \in Nat
  /\ Second \in Nat \ {0}
  /\ HasSecret \in BOOLEAN
  /\ MaxBridgeClock \in Nat
  /\ MaxTokens \in Nat

VARIABLES
  bridgeClock,
  registered,  \* per key: how the tool is registered
  tokens,      \* tokens created: their key, expiry and (history) creation
  lastRun      \* history: the latest run of a handler or a tool

Token == [key : Key, expires : Nat, made : Nat]

\* Who approved a run, when, and when it ran.
Run == [arguments : SUBSET Leaf, mutating : BOOLEAN,
        by : {"nobody", "handler", "token", "trusted"}, made : Nat, at : Nat]
NoRun == [arguments |-> {}, mutating |-> FALSE, by |-> "nobody", made |-> 0,
          at |-> 0]

bridgeVars == <<bridgeClock, registered, tokens, lastRun>>

\* Types of the variables.
BridgeTypeOK ==
  /\ bridgeClock \in Nat
  /\ registered \in [Key -> {"none", "reading", "mutating"}]
  /\ tokens \subseteq Token
  /\ lastRun \in Run

BridgeInit ==
  /\ bridgeClock = 0
  /\ registered = [k \in Key |-> "none"]
  /\ tokens = {}
  /\ lastRun = NoRun
-----------------------------------------------------------------------------
(***************************************************************************)
(* The screen.                                                             *)
(***************************************************************************)

PathMarks == {"nul", "outside", "symlink", "private"}

\* What stands where a path is expected, or looks like one anywhere but in a
\* command or a query, must be a path of the workspace.
PathSafe(leaf) ==
  leaf.holds \in PathMarks => leaf.place \in {"command", "sql"}

\* A tool that only reads gets no statement that changes tables.
SqlSafe(leaf, mutating) == leaf.holds = "destructive_sql" => mutating

CommandSafe(leaf) == leaf.holds # "destructive_command"

SecretSafe(leaf) == leaf.holds = "private_key" => leaf.place # "secret"

\* validate_nested_arguments.
Safe(arguments, mutating) ==
  \A leaf \in arguments :
    /\ leaf.depth <= MaxDepth
    /\ PathSafe(leaf)
    /\ CommandSafe(leaf)
    /\ SqlSafe(leaf, mutating)
    /\ SecretSafe(leaf)
-----------------------------------------------------------------------------
(***************************************************************************)
(* Tokens and calls.                                                       *)
(***************************************************************************)

\* The second in which a token made now expires.
TokenExpiry(now) == now \div Second + TokenTTL

\* create_approval_token; without a secret there are no tokens.
CreateToken(k) ==
  /\ HasSecret
  /\ Cardinality(tokens) < MaxTokens
  /\ tokens' = tokens \cup {[key |-> k, expires |-> TokenExpiry(bridgeClock),
                             made |-> bridgeClock]}
  /\ UNCHANGED <<bridgeClock, registered, lastRun>>

\* verify_approval_token.
Valid(token, k) ==
  /\ HasSecret
  /\ token.key = k
  /\ bridgeClock <= token.expires * Second

\* register_mcp_tool; a tool of the same name is replaced.
RegisterTool(k, kind) ==
  /\ registered' = [registered EXCEPT ![k] = kind]
  /\ UNCHANGED <<bridgeClock, tokens, lastRun>>

\* Who approves a call of a tool that changes things: the handler, a token for
\* this tool, or a trusted caller that says a human did.
Approvers(k, ask) ==
  {[by |-> "handler", made |-> bridgeClock] : x \in {TRUE} \cap {ask.agreed}}
  \cup {[by |-> "token", made |-> t.made] :
          t \in {t \in tokens : ask.with_token /\ Valid(t, k)}}
  \cup {[by |-> "trusted", made |-> bridgeClock] :
          x \in {TRUE} \cap {ask.trusted_caller /\ ask.human_approved}}

\* A tool that only reads needs nobody.
Granted(k, ask, mutating) ==
  IF mutating THEN Approvers(k, ask)
              ELSE {[by |-> "nobody", made |-> bridgeClock]}

RunOf(ask, mutating, grant) ==
  [arguments |-> ask.arguments, mutating |-> mutating, by |-> grant.by,
   made |-> grant.made, at |-> bridgeClock]

\* invoke_tool, where the handler runs.  A call that is refused, because the
\* tool is unknown, an argument unsafe or an approval missing, changes nothing.
Invoke(k, ask) ==
  LET mutating == registered[k] = "mutating"
  IN  /\ registered[k] # "none"
      /\ Safe(ask.arguments, mutating)
      /\ \E grant \in Granted(k, ask, mutating) :
           lastRun' = RunOf(ask, mutating, grant)
      /\ UNCHANGED <<bridgeClock, registered, tokens>>

BridgeTick ==
  /\ bridgeClock < MaxBridgeClock
  /\ bridgeClock' = bridgeClock + 1
  /\ UNCHANGED <<registered, tokens, lastRun>>

BridgeNext ==
  \/ \E k \in Key :
       \/ CreateToken(k)
       \/ \E kind \in {"reading", "mutating"} : RegisterTool(k, kind)
       \/ \E ask \in Ask : Invoke(k, ask)
  \/ BridgeTick

BridgeSpec == BridgeInit /\ [][BridgeNext]_bridgeVars
=============================================================================
