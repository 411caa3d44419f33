-------------------------- MODULE SpoolDirectory --------------------------
(***************************************************************************)
(* The output compactor (hermes_core/runtime_compactor.py).  A tool output *)
(* that is too long is saved in a spool directory all processes share, and *)
(* replaced by its beginning, a banner that refers to the saved file, and  *)
(* its end.                                                                *)
(*                                                                         *)
(* A call takes an exclusive lock on the directory, if it can; deletes     *)
(* files that are too old, then the oldest ones until the rest fits the    *)
(* quota; and creates its own file, whose name holds the task and a hash   *)
(* of the content, so that a name stands for one content.  A file that     *)
(* already has the name is referred to as it is.  What is written is the   *)
(* content with its secrets redacted, cut at MaxFileBytes.  The lock is    *)
(* released before the shortened text is composed and returned.            *)
(***************************************************************************)
EXTENDS Integers, FiniteSets, FiniteSetsExt

CONSTANTS
  Writer,         \* processes that compact outputs
  Name,           \* names of spool files
  NoName,
  Text,           \* Text[n]: the measures of the output spooled as n
  MaxFiles,       \* MAX_SPOOL_DIR_FILES
  MaxBytes,       \* MAX_SPOOL_DIR_BYTES
  MaxFileBytes,   \* MAX_SPOOL_FILE_BYTES
  TTL,            \* SPOOL_FILE_TTL_SECONDS
  MaxChars,       \* max_chars
  BannerLength,   \* length of the banner without a reference
  HintLength,     \* length of the reference in it
  MaxSpoolClock,  \* bound of the model: the last tick of the clock
  MaxSpoolCalls,  \* bound of the model: how many outputs are compacted
  MaxSpoolFaults  \* bound of the model: how many system calls and writers fail

\* An output longer than MaxChars: whether it has too few lines to choose from,
\* the lengths of its first and its last lines (of all of them, where they are
\* few), and its bytes once its secrets are redacted.
TextMeasures ==
  [few : BOOLEAN, head : Nat, tail : Nat \ {0}, size : Nat \ {0}]

ASSUME SpoolConstants ==
  /\ NoName \notin Name \cup Writer
  /\ Text \in [Name -> TextMeasures]
  /\ \A n \in Name : Text[n].few => Text[n].head > MaxChars
                                    /\ Text[n].tail = Text[n].head
  /\ {MaxFiles, MaxBytes, MaxFileBytes, TTL} \subseteq Nat
  /\ {MaxChars, BannerLength, HintLength} \subseteq Nat
  /\ {MaxSpoolClock, MaxSpoolCalls, MaxSpoolFaults} \subseteq Nat

\* `written`: its writer has written all it writes of the content.
SpoolFile == [size : Nat, mtime : Nat, written : BOOLEAN, by : Writer]
Listed == [name : Name, size : Nat, mtime : Nat]

VARIABLES
  spoolClock,
  spool,       \* the directory: its files by name
  spoolLock,   \* who holds the lock file, or NoName
  spoolAt,     \* per writer: what it does next
  name,        \* per writer: the name its output has
  listing,     \* per writer: what its scan found
  answer,      \* per writer: the file it refers to, or NoName
  spoolCalls, spoolFaults, \* counters for the bounds
  unlocked,    \* history: a call has gone on without the lock
  stuck,       \* history: a file could not be listed or deleted
  torn         \* history: names whose writer failed after creating the file

spoolVars == <<spoolClock, spool, spoolLock, spoolAt, name, listing, answer,
               spoolCalls, spoolFaults, unlocked, stuck, torn>>

\* What a call does next; the stages in which it may hold the lock.
LockStage == {"scan", "evict", "create", "write", "unlock"}
SpoolStage == {"idle", "lock", "return"} \cup LockStage

\* Types of the variables; nobody keeps the lock after the call.
SpoolTypeOK ==
  /\ spoolClock \in Nat
  /\ DOMAIN spool \subseteq Name
  /\ spool \in [DOMAIN spool -> SpoolFile]
  /\ spoolLock \in Writer \cup {NoName}
  /\ spoolAt \in [Writer -> SpoolStage]
  /\ spoolLock # NoName => spoolAt[spoolLock] \in LockStage
  /\ name \in [Writer -> Name]
  /\ listing \in [Writer -> SUBSET Listed]
  /\ answer \in [Writer -> Name \cup {NoName}]
  /\ spoolCalls \in Nat
  /\ spoolFaults \in Nat
  /\ unlocked \in BOOLEAN
  /\ stuck \in BOOLEAN
  /\ torn \subseteq Name

SpoolInit ==
  /\ spoolClock = 0
  /\ spool = [n \in {} |-> {}]
  /\ spoolLock = NoName
  /\ spoolAt = [w \in Writer |-> "idle"]
  /\ name \in {[w \in Writer |-> n] : n \in Name}
  /\ listing = [w \in Writer |-> {}]
  /\ answer = [w \in Writer |-> NoName]
  /\ spoolCalls = 0
  /\ spoolFaults = 0
  /\ unlocked = FALSE
  /\ stuck = FALSE
  /\ torn = {}
-----------------------------------------------------------------------------
(***************************************************************************)
(* The text that replaces the output, as the lengths of its three parts.   *)
(***************************************************************************)

\* The banner refers to the spool file if there is one.
Banner(answered) ==
  IF answered = NoName THEN BannerLength ELSE BannerLength + HintLength

\* A text cut to its first MaxChars characters.
Sliced(text) ==
  LET head == Min({text.head, MaxChars})
      banner == Min({text.banner, MaxChars - head})
  IN  [head |-> head, banner |-> banner,
       tail |-> Min({text.tail, MaxChars - head - banner})]

\* What the banner leaves for the content.
Room(banner) == MaxChars - banner

\* How much of it the beginning gets: a third of an output of few lines, else
\* 35 percent.
HeadRoom(text, banner) ==
  IF text.few THEN Room(banner) \div 3 ELSE (Room(banner) * 35) \div 100

\* compact_tool_output.  A banner that leaves no room leaves a plain prefix.
Compacted(text, banner) ==
  LET whole == [head |-> text.head, banner |-> banner, tail |-> text.tail]
      head == HeadRoom(text, banner)
      fitted == [head |-> Min({text.head, head}), banner |-> banner,
                 tail |-> Min({text.tail, Room(banner) - head})]
  IN  IF \/ text.head + banner + text.tail <= MaxChars
         \/ banner >= MaxChars
        THEN Sliced(whole)
        ELSE Sliced(fitted)
-----------------------------------------------------------------------------
(***************************************************************************)
(* The quota.                                                              *)
(***************************************************************************)

ListOf(dir) ==
  {[name |-> n, size |-> dir[n].size, mtime |-> dir[n].mtime] : n \in DOMAIN dir}

Bytes(list) == MapThenSumSet(LAMBDA f : f.size, list)

\* Mutant: one file more is let through.
OverByOne(list) ==
  Cardinality(list) > MaxFiles + 1 \/ Bytes(list) > MaxBytes

OverQuota(list) == Cardinality(list) > MaxFiles \/ Bytes(list) > MaxBytes

Expired(f) == spoolClock - f.mtime > TTL

\* Mutant: the newest files go first.
NewestFirst(passed, rest) ==
  \A p \in passed, r \in rest : p.mtime >= r.mtime

OldestFirst(passed, rest) ==
  \A p \in passed, r \in rest : p.mtime <= r.mtime

\* The sweep takes the oldest files of the list one by one until what is left
\* fits.  It passes the files `gone`, which it deletes, and `kept`, which it
\* cannot delete and goes on counting.
Sweep(list, gone, kept) ==
  LET passed == gone \cup kept
      left == list \ gone
  IN  /\ gone \cap kept = {}
      /\ OldestFirst(passed, list \ passed)
      /\ OverQuota(left) => passed = list
      /\ passed # {} => \E last \in passed :
           /\ \A p \in passed : p.mtime <= last.mtime
           /\ OverQuota(left \cup {last})

Without(dir, names) == [n \in DOMAIN dir \ names |-> dir[n]]

NamesIn(list) == {f.name : f \in list}
-----------------------------------------------------------------------------
(***************************************************************************)
(* A call of compact_tool_output, step by step.                            *)
(***************************************************************************)

SpoolGoto(w, stage) == spoolAt' = [spoolAt EXCEPT ![w] = stage]

SpoolFault ==
  /\ spoolFaults < MaxSpoolFaults
  /\ spoolFaults' = spoolFaults + 1

\* An output that is too long comes.
Compact(w, n) ==
  /\ spoolAt[w] = "idle"
  /\ spoolCalls < MaxSpoolCalls
  /\ spoolCalls' = spoolCalls + 1
  /\ name' = [name EXCEPT ![w] = n]
  /\ SpoolGoto(w, "lock")
  /\ UNCHANGED <<spoolClock, spool, spoolLock, listing, answer, spoolFaults,
                 unlocked, stuck, torn>>

\* Mutant: the lock is shared, not exclusive.
LockShared(w) ==
  /\ spoolAt[w] = "lock"
  /\ spoolLock' = w
  /\ SpoolGoto(w, "scan")
  /\ UNCHANGED <<spoolClock, spool, name, listing, answer, spoolCalls,
                 spoolFaults, unlocked, stuck, torn>>

LockSpool(w) ==
  /\ spoolAt[w] = "lock"
  /\ spoolLock = NoName
  /\ spoolLock' = w
  /\ SpoolGoto(w, "scan")
  /\ UNCHANGED <<spoolClock, spool, name, listing, answer, spoolCalls,
                 spoolFaults, unlocked, stuck, torn>>

\* The lock file cannot be opened or locked: the call goes on without it.
LockFails(w) ==
  /\ spoolAt[w] = "lock"
  /\ SpoolFault
  /\ unlocked' = TRUE
  /\ SpoolGoto(w, "scan")
  /\ UNCHANGED <<spoolClock, spool, spoolLock, name, listing, answer,
                 spoolCalls, stuck, torn>>

\* _clean_spool_dir_quota, the scan: expired files are deleted, the others
\* listed.  A file whose stat or deletion fails is skipped: it stays and is not
\* counted.  The deletions count as one step.
ScanSpool(w) ==
  \E skipped \in SUBSET ListOf(spool) :
    LET old == {f \in ListOf(spool) \ skipped : Expired(f)}
    IN  /\ spoolAt[w] = "scan"
        /\ \/ skipped = {} /\ UNCHANGED <<spoolFaults, stuck>>
           \/ skipped # {} /\ SpoolFault /\ stuck' = TRUE
        /\ spool' = Without(spool, NamesIn(old))
        /\ listing' = [listing EXCEPT ![w] = (ListOf(spool) \ skipped) \ old]
        /\ SpoolGoto(w, "evict")
        /\ UNCHANGED <<spoolClock, spoolLock, name, answer, spoolCalls,
                       unlocked, torn>>

\* The directory cannot be read to its end: the cleaning is given up, with some
\* of the expired files deleted, and the call goes on.
ScanAborts(w) ==
  /\ spoolAt[w] = "scan"
  /\ SpoolFault
  /\ \E gone \in SUBSET {f \in ListOf(spool) : Expired(f)} :
       spool' = Without(spool, NamesIn(gone))
  /\ stuck' = TRUE
  /\ SpoolGoto(w, "create")
  /\ UNCHANGED <<spoolClock, spoolLock, name, listing, answer, spoolCalls,
                 unlocked, torn>>

\* _clean_spool_dir_quota, the sweep.
EvictSpool(w) ==
  /\ spoolAt[w] = "evict"
  /\ \E gone \in SUBSET listing[w], kept \in SUBSET listing[w] :
       /\ Sweep(listing[w], gone, kept)
       /\ \/ kept = {} /\ UNCHANGED <<spoolFaults, stuck>>
          \/ kept # {} /\ SpoolFault /\ stuck' = TRUE
       /\ spool' = Without(spool, NamesIn(gone))
  /\ listing' = [listing EXCEPT ![w] = {}]
  /\ SpoolGoto(w, "create")
  /\ UNCHANGED <<spoolClock, spoolLock, name, answer, spoolCalls, unlocked,
                 torn>>

\* The file is created, empty, unless its name is taken.
CreateSpool(w) ==
  /\ spoolAt[w] = "create"
  /\ name[w] \notin DOMAIN spool
  /\ spool' = [n \in DOMAIN spool \cup {name[w]} |->
                 IF n = name[w]
                   THEN [size |-> 0, mtime |-> spoolClock,
                         written |-> FALSE, by |-> w]
                   ELSE spool[n]]
  /\ SpoolGoto(w, "write")
  /\ UNCHANGED <<spoolClock, spoolLock, name, listing, answer, spoolCalls,
                 spoolFaults, unlocked, stuck, torn>>

\* A name that is taken is referred to: the file's owner and mode are checked,
\* not what it holds.
ReuseSpool(w) ==
  /\ spoolAt[w] = "create"
  /\ name[w] \in DOMAIN spool
  /\ answer' = [answer EXCEPT ![w] = name[w]]
  /\ SpoolGoto(w, "unlock")
  /\ UNCHANGED <<spoolClock, spool, spoolLock, name, listing, spoolCalls,
                 spoolFaults, unlocked, stuck, torn>>

\* The file cannot be created, or not be opened for the check: no reference.
CreateFails(w) ==
  /\ spoolAt[w] = "create"
  /\ SpoolFault
  /\ SpoolGoto(w, "unlock")
  /\ UNCHANGED <<spoolClock, spool, spoolLock, name, listing, answer,
                 spoolCalls, unlocked, stuck, torn>>

\* The name still leads to the file the writer created.
StillThere(w) == name[w] \in DOMAIN spool /\ spool[name[w]].by = w

\* What a content takes on the disk: the cut and its marker fill the limit.
FileSize(n) == Min({Text[n].size, MaxFileBytes})

\* The content goes through the descriptor, wherever the name leads by now.
WriteSpool(w) ==
  /\ spoolAt[w] = "write"
  /\ spool' = IF StillThere(w)
                THEN [spool EXCEPT ![name[w]] =
                        [size |-> FileSize(name[w]), mtime |-> spoolClock,
                         written |-> TRUE, by |-> w]]
                ELSE spool
  /\ answer' = [answer EXCEPT ![w] = name[w]]
  /\ SpoolGoto(w, "unlock")
  /\ UNCHANGED <<spoolClock, spoolLock, name, listing, spoolCalls, spoolFaults,
                 unlocked, stuck, torn>>

\* The write fails (the disk is full): the empty file stays.
WriteFails(w) ==
  /\ spoolAt[w] = "write"
  /\ SpoolFault
  /\ torn' = torn \cup {name[w]}
  /\ SpoolGoto(w, "unlock")
  /\ UNCHANGED <<spoolClock, spool, spoolLock, name, listing, answer,
                 spoolCalls, unlocked, stuck>>

Released(w) == IF spoolLock = w THEN NoName ELSE spoolLock

\* The lock is released; from here on another call may delete the file.
UnlockSpool(w) ==
  /\ spoolAt[w] = "unlock"
  /\ spoolLock' = Released(w)
  /\ SpoolGoto(w, "return")
  /\ UNCHANGED <<spoolClock, spool, name, listing, answer, spoolCalls,
                 spoolFaults, unlocked, stuck, torn>>

\* The call returns the shortened text and the reference.
ReturnSpool(w) ==
  /\ spoolAt[w] = "return"
  /\ answer' = [answer EXCEPT ![w] = NoName]
  /\ SpoolGoto(w, "idle")
  /\ UNCHANGED <<spoolClock, spool, spoolLock, name, listing, spoolCalls,
                 spoolFaults, unlocked, stuck, torn>>

\* The process dies; its lock goes with it, its file stays.
SpoolCrash(w) ==
  /\ spoolAt[w] # "idle"
  /\ SpoolFault
  /\ spoolLock' = Released(w)
  /\ torn' = IF spoolAt[w] = "write" THEN torn \cup {name[w]} ELSE torn
  /\ listing' = [listing EXCEPT ![w] = {}]
  /\ answer' = [answer EXCEPT ![w] = NoName]
  /\ SpoolGoto(w, "idle")
  /\ UNCHANGED <<spoolClock, spool, name, spoolCalls, unlocked, stuck>>

SpoolTick ==
  /\ spoolClock < MaxSpoolClock
  /\ spoolClock' = spoolClock + 1
  /\ UNCHANGED <<spool, spoolLock, spoolAt, name, listing, answer, spoolCalls,
                 spoolFaults, unlocked, stuck, torn>>

SpoolNext ==
  \/ \E w \in Writer :
       \/ \E n \in Name : Compact(w, n)
       \/ LockSpool(w) \/ LockFails(w) \/ ScanSpool(w) \/ ScanAborts(w)
       \/ EvictSpool(w) \/ CreateSpool(w) \/ ReuseSpool(w) \/ CreateFails(w)
       \/ WriteSpool(w) \/ WriteFails(w) \/ UnlockSpool(w) \/ ReturnSpool(w)
       \/ SpoolCrash(w)
  \/ SpoolTick

SpoolSpec == SpoolInit /\ [][SpoolNext]_spoolVars
-----------------------------------------------------------------------------
Written(n) == n \in DOMAIN spool /\ spool[n].written

\* Every reference that is handed out leads to the whole output: the banner
\* says "the full content is safely on disk".  It does not hold: the file of a
\* writer that died halfway is referred to as if it were complete, a large
\* content is cut, and a later call may delete the file before the answer of
\* this one is returned.
ReferenceIsFull ==
  \A w \in Writer :
    spoolAt[w] = "return" /\ answer[w] # NoName =>
      Written(answer[w]) /\ Text[answer[w]].size <= MaxFileBytes

\* The lock and the sweep before every creation keep the directory within its
\* quota and one file of the largest size more, when every call got the lock
\* and every file could be listed and deleted; crashes and failed writes do not
\* add to it.
SpoolBounded ==
  ~unlocked /\ ~stuck =>
    /\ Cardinality(DOMAIN spool) <= MaxFiles + 1
    /\ \/ Bytes(ListOf(spool)) <= MaxBytes
       \/ \E last \in ListOf(spool) :
            /\ last.size <= MaxFileBytes
            /\ Bytes(ListOf(spool) \ {last}) <= MaxBytes

\* With the lock, a file younger than the time to live is only ever deleted
\* when the files at least as new as it exceed the quota: what was just
\* spooled survives every other call until newer outputs need the room.
FreshFilesStay ==
  [][~unlocked /\ ~stuck' =>
       \A f \in ListOf(spool) :
         f.name \in DOMAIN spool' \/ Expired(f)
           \/ OverQuota({g \in ListOf(spool) : g.mtime >= f.mtime})]_spoolVars

\* What a call answers is faithful to the output.  The shortened text fits and,
\* unless the banner alone fills it, keeps the whole banner and the end of the
\* output, where errors are reported: all of the last lines, or at least as
\* much of them as of the beginning (compact_tool_output).  And when the lock is
\* given up its reference leads to a file that is there and holds all that is
\* written of the output (redacted, and cut at MaxFileBytes), as long as every
\* call got the lock and no earlier writer of that name failed halfway
\* (_safe_spool_write).
AnswerIsFaithful ==
  \A w \in Writer :
    /\ spoolAt[w] = "return" =>
         LET text == Text[name[w]]
             banner == Banner(answer[w])
             out == Compacted(text, banner)
         IN  /\ out.head + out.banner + out.tail <= MaxChars
             /\ banner < MaxChars =>
                  /\ out.banner = banner
                  /\ out.tail >= 1
                  /\ out.tail = text.tail \/ out.tail >= out.head
    /\ spoolAt[w] = "unlock" /\ ~unlocked
         /\ answer[w] \notin torn \cup {NoName} =>
           Written(answer[w])
=============================================================================
