------------------------------ MODULE MCFiles ------------------------------
(***************************************************************************)
(* Small instances of the components that share a file and nothing else:   *)
(* the cron breaker, the spool directory, the negative cache and the       *)
(* inline patch.  `focus` says which of them moves in a behaviour.         *)
(***************************************************************************)
EXTENDS TLC, CronBreaker, SpoolDirectory, NegativeCache, InlinePatch

CONSTANTS e1, e2, j1, j2, w1, w2, n1, n2, n3, c1, c2, k1, k2, raw, p1, p2,
          a, b, blank, bad

VARIABLE focus

\* An output of one long line, one of short first and last lines, a long one.
MCText ==
  (n1 :> [few |-> TRUE, head |-> 12, tail |-> 12, size |-> 1])
    @@ (n2 :> [few |-> FALSE, head |-> 2, tail |-> 1, size |-> 2])
    @@ (n3 :> [few |-> FALSE, head |-> 9, tail |-> 9, size |-> 3])

\* A key that is given with blanks around it.
MCStored == (k1 :> k1) @@ (k2 :> k2) @@ (raw :> k1)

\* Lines of one word, with a line feed, without an end, with another end, and
\* with a blank in front of the line feed.
lf(w) == [words |-> <<w>>, end |-> "lf"]
open(w) == [words |-> <<w>>, end |-> "none"]
crlf(w) == [words |-> <<w>>, end |-> "crlf"]
spaced(w) == [words |-> <<w, blank>>, end |-> "lf"]

\* Files of up to three lines, some that do not end in a line feed.
MCFirstText ==
  {<<>>, <<open(a)>>, <<crlf(b)>>, <<lf(a), open(b)>>, <<crlf(b), spaced(b)>>,
   <<lf(a), lf(a), lf(a)>>, <<lf(a), lf(b), open(a)>>,
   <<lf(b), crlf(a), spaced(b)>>}

\* Blocks to find and to put: none, one that overlaps itself, several lines,
\* each with and without a line feed at its end.
MCPatch ==
  {[target |-> t, replacement |-> r, allow_multiple |-> m,
    validate_ast |-> TRUE] :
     t \in {<<>>, <<open(a)>>, <<lf(a), lf(a)>>, <<open(b)>>, <<crlf(b)>>,
            <<lf(a), open(b)>>},
     r \in {<<>>, <<lf(b), open(a)>>, <<crlf(a)>>, <<open(bad)>>},
     m \in BOOLEAN}

FilesInit ==
  /\ focus \in {"cron", "spool", "negative", "patch"}
  /\ CronInit /\ SpoolInit /\ NegInit /\ PatchInit
  /\ focus # "cron" => cronJob = [e \in Engine |-> j1]
  /\ focus # "spool" => name = [w \in Writer |-> n1]
  /\ focus # "patch" => text = <<>>

FilesNext ==
  /\ UNCHANGED focus
  /\ \/ /\ focus = "cron"
        /\ CronNext
        /\ UNCHANGED <<spoolVars, negVars, patchVars>>
     \/ /\ focus = "spool"
        /\ SpoolNext
        /\ UNCHANGED <<cronVars, negVars, patchVars>>
     \/ /\ focus = "negative"
        /\ NegNext
        /\ UNCHANGED <<cronVars, spoolVars, patchVars>>
     \/ /\ focus = "patch"
        /\ PatchNext
        /\ UNCHANGED <<cronVars, spoolVars, negVars>>

FilesSpec ==
  FilesInit /\ [][FilesNext]_<<focus, cronVars, spoolVars, negVars, patchVars>>
-----------------------------------------------------------------------------
\* The four components' variables have their types.
FilesTypeOK == CronTypeOK /\ SpoolTypeOK /\ NegTypeOK /\ PatchTypeOK
=============================================================================
