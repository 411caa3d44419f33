------------------------------ MODULE FastPath ------------------------------
(***************************************************************************)
(* The fast path (agent/fast_path.py): a message is sorted into one of     *)
(* four tiers by what the commands in it may do, and the tier decides      *)
(* which tools the model is offered and what is checked afterwards.        *)
(*                                                                         *)
(* A text is what the patterns find in it: in each of its segments, the    *)
(* parts between "&&", "||", ";" and "|", and in the text as a whole.      *)
(***************************************************************************)

Tier == {"L0", "L1", "L2", "L3"}

\* What the patterns of analyze_segment find in a segment.  Every word that
\* writes counts as "write": redirection, tee, sed -i, English and Chinese
\* words, Python calls.
SegmentMark == {"write", "delete", "move", "permission", "critical", "read"}

\* What the patterns of classify and touches_core_path find in a text:
\* "core" a protected path; "attachment" a wish to be sent a file; "injected"
\* the marker of an archive search done in the background; "read_word" words
\* like "view" or "git log", "check_status" a wish to check something,
\* "read_verb" a reading command; "topic" words about files and code, "chat" a
\* conversational phrase, "doing" words like "run" or "ls".
TextMark == {"core", "attachment", "injected", "read_word", "check_status",
             "read_verb", "topic", "chat", "doing"}

MessageType == [blank : BOOLEAN, segments : SUBSET (SUBSET SegmentMark),
                marks : SUBSET TextMark]

MutationKinds == {"WRITE", "DELETE", "MOVE_COPY", "PERMISSION"}

KindOf == [write |-> "WRITE", delete |-> "DELETE", move |-> "MOVE_COPY",
           permission |-> "PERMISSION", critical |-> "SYSTEM_MUTATION"]

\* Mutant: a segment that starts with a reading command counts as reading.
SegmentActionsReadFirst(segment) ==
  IF "read" \in segment
    THEN {"READ"}
    ELSE IF segment = {} THEN {"EXECUTE"}
                         ELSE {KindOf[mark] : mark \in segment}

\* analyze_segment: a segment reads only if it changes nothing.
SegmentActions(segment) ==
  LET changes == {KindOf[mark] : mark \in segment \ {"read"}}
  IN  IF changes # {} THEN changes
      ELSE IF "read" \in segment THEN {"READ"} ELSE {"EXECUTE"}

\* analyze_full_query.
Actions(message) == UNION {SegmentActions(s) : s \in message.segments}

Mutates(message) == Actions(message) \cap MutationKinds # {}

TouchesCore(message) == "core" \in message.marks

\* is_critical_escalation.
Critical(message) ==
  \/ "SYSTEM_MUTATION" \in Actions(message)
  \/ TouchesCore(message) /\ Mutates(message)

Reads(message) ==
  /\ ~Mutates(message)
  /\ message.marks \cap {"read_word", "check_status", "read_verb"} # {}

Converses(message) ==
  /\ ~Mutates(message)
  /\ ~TouchesCore(message)
  /\ "chat" \in message.marks
  /\ message.marks \cap {"topic", "doing"} = {}

\* classify: the first of these that applies.
Classify(message) ==
  IF message.blank THEN "L0"
  ELSE IF Critical(message) THEN "L3"
  ELSE IF "attachment" \in message.marks THEN "L2"
  ELSE IF "injected" \in message.marks THEN "L0"
  ELSE IF Reads(message) THEN "L1"
  ELSE IF Converses(message) THEN "L0"
  ELSE IF ~TouchesCore(message) THEN "L2"
  ELSE IF Actions(message) = {"READ"} THEN "L1"
  ELSE "L3"

\* filter_tools_for_tier, with is_tool_allowed_in_tier: `reading` are the
\* names on the read-only list.
Offered(tools, reading, tier) ==
  CASE tier = "L0" -> {}
    [] tier = "L1" -> tools \cap reading
    [] OTHER -> tools

\* should_run_verifier.
Verifies(tier) == tier \in {"L2", "L3"}
=============================================================================
