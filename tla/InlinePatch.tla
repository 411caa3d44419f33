---------------------------- MODULE InlinePatch ----------------------------
(***************************************************************************)
(* The inline patch engine (capabilities/inline_patch): a block of lines   *)
(* of a file is found and replaced.  The file is read once; the result is  *)
(* computed and checked from that copy, written to a temporary file of the *)
(* process, and put in place by a rename.  One file is modelled, as the    *)
(* lines it was written with; only reading it tells where lines end.       *)
(***************************************************************************)
EXTENDS Integers, FiniteSets, Sequences, SequencesExt

CONSTANTS
  Patcher,       \* processes, each with one patch at a time
  Word,          \* what lines are made of
  Blank,         \* the words that are blanks
  Faulty,        \* words that no Python file can be parsed with
  FirstText,     \* what the file may hold at first: sequences of lines
  Patch,         \* what callers ask for (see PatchType)
  MaxPatches,    \* bound of the model: how many patches are begun
  MaxPatchFaults \* bound of the model: how many writes fail and patchers die

\* A line of text, and how it ends.
Line ==
  {line \in [words : Seq(Word), end : {"none", "lf", "crlf"}] :
     line.words # <<>> \/ line.end # "none"}

\* A block of lines to find, what to put there, whether several finds are
\* fine, and whether the result has to parse.
PatchType ==
  [target : Seq(Line), replacement : Seq(Line), allow_multiple : BOOLEAN,
   validate_ast : BOOLEAN]

Ended(line) == line.end # "none"

\* Lines as str.splitlines gives them: only the last may have no end.
AsSplit(lines) == \A i \in 1 .. Len(lines) - 1 : Ended(lines[i])

ASSUME PatchConstants ==
  /\ Blank \subseteq Word
  /\ Faulty \subseteq Word
  /\ FirstText \subseteq {lines \in Seq(Line) : AsSplit(lines)}
  /\ Patch \subseteq {request \in PatchType :
                       AsSplit(request.target) /\ AsSplit(request.replacement)}
  /\ Patch # {}
  /\ MaxPatches \in Nat
  /\ MaxPatchFaults \in Nat

VARIABLES
  text,        \* the file, as the lines last written
  patchAt,     \* per patcher: what it does next
  patch,       \* per patcher: what it was asked for
  patched,     \* per patcher: what it is about to write
  patches, patchFaults, \* counters for the bounds
  patchOverlap,\* history: two patches have been under way at the same time
  due_text,    \* history: the file, had every patch that succeeded been
               \* applied to what the ones before it left
  ran_on       \* history: an empty block was found at the end of a file whose
               \* last line has no end

patchVars == <<text, patchAt, patch, patched, patches, patchFaults,
               patchOverlap, due_text, ran_on>>

\* Types of the variables.
PatchTypeOK ==
  /\ text \in Seq(Line)
  /\ patchAt \in [Patcher -> {"idle", "write", "replace"}]
  /\ patch \in [Patcher -> Patch]
  /\ patched \in [Patcher -> Seq(Line)]
  /\ patches \in Nat
  /\ patchFaults \in Nat
  /\ patchOverlap \in BOOLEAN
  /\ due_text \in Seq(Line)
  /\ ran_on \in BOOLEAN

PatchInit ==
  /\ text \in FirstText
  /\ patchAt = [p \in Patcher |-> "idle"]
  /\ patch = [p \in Patcher |-> CHOOSE request \in Patch : TRUE]
  /\ patched = [p \in Patcher |-> <<>>]
  /\ patches = 0
  /\ patchFaults = 0
  /\ patchOverlap = FALSE
  /\ due_text = text
  /\ ran_on = FALSE
-----------------------------------------------------------------------------
(***************************************************************************)
(* Reading, the search and the replacement.                                *)
(***************************************************************************)

\* A line that has no end runs on into the line after it.
RunTogether(done, line) ==
  IF done = <<>> \/ Ended(Last(done))
    THEN Append(done, line)
    ELSE Append(Front(done), [line EXCEPT !.words = Last(done).words \o @])

\* The file as it is read: in text mode every line end becomes a line feed.
Reread(lines) ==
  FoldLeft(RunTogether, <<>>,
           [i \in DOMAIN lines |->
              [lines[i] EXCEPT !.end = IF @ = "crlf" THEN "lf" ELSE @]])

\* A block that ends in a line feed.
Closed(block) ==
  [i \in DOMAIN block |->
     IF i = Len(block) /\ ~Ended(block[i])
       THEN [block[i] EXCEPT !.end = "lf"] ELSE block[i]]

\* What is asked for, in the shape of the file's lines.
Normalised(request, lines) ==
  IF lines # <<>> /\ lines[1].end = "lf"
    THEN [request EXCEPT !.target = Closed(@), !.replacement = Closed(@)]
    ELSE request

\* A line without its end and the blanks in front of it.
Bare(line) ==
  SubSeq(line.words, 1,
         Max({0} \cup {i \in DOMAIN line.words : line.words[i] \notin Blank}))

Stripped(lines) == [i \in DOMAIN lines |-> Bare(lines[i])]

\* Where `block` is found in `lines`: every place, overlapping ones included.
Finds(lines, block) ==
  {i \in 1 .. Len(lines) - Len(block) + 1 :
     SubSeq(lines, i, i + Len(block) - 1) = block}

\* find_block_matches; an empty block is not found.
ExactFinds(lines, block) == IF block = <<>> THEN {} ELSE Finds(lines, block)

\* find_normalized_matches, asked only when nothing matched exactly.  An empty
\* block is found before every line and after the last.
Matches(lines, block) ==
  IF ExactFinds(lines, block) # {}
    THEN ExactFinds(lines, block)
    ELSE Finds(Stripped(lines), Stripped(block))

\* Replacing at one place after another, from the first to the last.
Folded(Put(_, _), starts) ==
  MapThenFoldSet(Put, [lines |-> <<>>, last |-> 0], LAMBDA start : start, Max,
                 starts)

\* Mutant: the search goes on after the first line of the block.
AppliedFromNext(lines, starts, request) ==
  LET Put(start, done) ==
        [lines |-> done.lines \o SubSeq(lines, done.last + 1, start - 1)
                     \o request.replacement,
         last |-> start]
      end == Folded(Put, starts)
  IN  end.lines \o SubSeq(lines, end.last + 1, Len(lines))

\* The patched text: from match to match, the lines since the last one and the
\* replacement, and at the end the lines that are left.
Applied(lines, starts, request) ==
  LET Put(start, done) ==
        [lines |-> done.lines \o SubSeq(lines, done.last + 1, start - 1)
                     \o request.replacement,
         last |-> start - 1 + Len(request.target)]
      end == Folded(Put, starts)
  IN  end.lines \o SubSeq(lines, end.last + 1, Len(lines))

Parses(lines) ==
  \A i \in DOMAIN lines : Range(lines[i].words) \cap Faulty = {}

ParsedAfter(lines, result, request) == request.validate_ast => Parses(result)

\* The patch can be applied to the text it read.
Applicable(lines, request) ==
  LET asked == Normalised(request, lines)
      starts == Matches(lines, asked.target)
  IN  /\ starts # {}
      /\ Cardinality(starts) > 1 => request.allow_multiple
      /\ ParsedAfter(lines, Applied(lines, starts, asked), request)

Result(lines, request) ==
  LET asked == Normalised(request, lines)
  IN  Applied(lines, Matches(lines, asked.target), asked)

\* What the replacement should be, line by line: the replacement in front of
\* every line where a match begins, and of the other lines those that no match
\* covers, in order.
Expected(lines, starts, request) ==
  LET covered(i) == \E s \in starts : i \in s .. s + Len(request.target) - 1
      Piece(i) == (IF i \in starts THEN request.replacement ELSE <<>>)
                    \o (IF i > Len(lines) \/ covered(i) THEN <<>>
                                                        ELSE <<lines[i]>>)
  IN  FlattenSeq([i \in 1 .. Len(lines) + 1 |-> Piece(i)])

\* The text that should follow `lines` when the request is carried out.
Due(lines, request) ==
  LET asked == Normalised(request, lines)
  IN  Expected(lines, Matches(lines, asked.target), asked)

-----------------------------------------------------------------------------
PatchGoto(p, stage) == patchAt' = [patchAt EXCEPT ![p] = stage]

PatchFault ==
  /\ patchFaults < MaxPatchFaults
  /\ patchFaults' = patchFaults + 1

\* apply_inline_patch, up to the checks: it reads the file.  A patch that is
\* not applicable fails here and changes nothing.
ReadText(p, request) ==
  LET lines == Reread(text)
  IN  /\ patchAt[p] = "idle"
      /\ patches < MaxPatches
      /\ patches' = patches + 1
      /\ Applicable(lines, request)
      /\ patch' = [patch EXCEPT ![p] = request]
      /\ patched' = [patched EXCEPT ![p] = Result(lines, request)]
      /\ PatchGoto(p, "write")
      /\ patchOverlap' = (patchOverlap \/ \E q \in Patcher : patchAt[q] # "idle")
      /\ ran_on' = (ran_on \/ /\ request.target = <<>>
                              /\ lines # <<>>
                              /\ ~Ended(Last(lines)))
      /\ UNCHANGED <<text, patchFaults, due_text>>

\* The temporary file is written.
WriteTemp(p) ==
  /\ patchAt[p] = "write"
  /\ PatchGoto(p, "replace")
  /\ UNCHANGED <<text, patch, patched, patches, patchFaults, patchOverlap,
                 due_text, ran_on>>

Leave(p) ==
  /\ PatchGoto(p, "idle")
  /\ patched' = [patched EXCEPT ![p] = <<>>]

RenameTemp(p) == text' = patched[p]

\* os.replace.
ReplaceText(p) ==
  /\ patchAt[p] = "replace"
  /\ RenameTemp(p)
  /\ due_text' = Due(Reread(due_text), patch[p])
  /\ Leave(p)
  /\ UNCHANGED <<patch, patches, patchFaults, patchOverlap, ran_on>>

\* The write or the rename fails and the temporary file is removed, or the
\* process dies and leaves it.
PatchFails(p) ==
  /\ patchAt[p] # "idle"
  /\ PatchFault
  /\ Leave(p)
  /\ UNCHANGED <<text, patch, patches, patchOverlap, due_text, ran_on>>

PatchNext ==
  \E p \in Patcher :
    \/ \E request \in Patch : ReadText(p, request)
    \/ WriteTemp(p) \/ ReplaceText(p) \/ PatchFails(p)

PatchSpec == PatchInit /\ [][PatchNext]_patchVars
-----------------------------------------------------------------------------
\* While patches take turns the file holds the effect of every patch that
\* succeeded, in order, and of no other, whichever writes failed between: of
\* the lines as they are read, those outside the matched blocks are kept, once
\* and in order, and the replacement stands at each match, also where matches
\* adjoin, overlap or lie at either end of the file.  Lines stay lines: unless
\* an empty block was found at the end of a file that does not end in a line
\* feed, none runs on into the next, whatever ends the file, the block and the
\* replacement have.  And where every patch is validated the file parses.  The
\* last two hold however patches overlap and fail (apply_inline_patch).
PatchesAccumulate ==
  /\ ~patchOverlap => text = due_text
  /\ ~ran_on => AsSplit(text)
  /\ /\ \A request \in Patch : request.validate_ast
     /\ \A lines \in FirstText : Parses(lines)
     => Parses(text)
=============================================================================
