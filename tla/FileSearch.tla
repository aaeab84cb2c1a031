------------------------------ MODULE FileSearch ------------------------------
(***************************************************************************)
(* The file tools that look for something: grep and glob on a tree, and    *)
(* read page by page.  A search runs in Python (services/file_io.py) or,   *)
(* when a binary is found, in a Rust process that walks the tree with      *)
(* several threads (services/file_io_sidecar.py,                           *)
(* crates/lingtai-search-sidecar/src/main.rs).  The handlers tell the      *)
(* agent whether there may be more (core/grep, core/glob, core/read).      *)
(***************************************************************************)
EXTENDS Integers, FiniteSets, Sequences

CONSTANTS
  FsEntries,   \* what the walk of the tree would come by
  FsTrees,     \* what the entries may be
  FsWorkers,   \* threads of the Rust walk (the code starts 4)
  FsMaxHits,   \* bound: matching lines of an entry
  FrLines,     \* bound: lines of a file that is read
  FrChars      \* bound: characters of a line with its number, and of a page

VARIABLES
  fsTree,      \* entry -> what it is, its matching lines, whether its name passes the filter
  fsAsk,       \* the call: op, cap, budget of visits, filter, and how the operator chose a backend
  fsBackend,   \* "python", "rust", or "none" before the choice
  fsLeft,      \* entries the walk has not handed out
  fsAt,        \* where each worker is, and with which entry
  fsVisited, fsCount,  \* the shared counters
  fsHits,      \* what was collected: entry and line
  fsReason,    \* truncated_reason
  fsAnswer,    \* what the tool told the agent
  frFile,      \* the lengths of the lines of a file
  frAsk,       \* lines and characters of a page
  frNext,      \* the offset to read next, 0 when the agent has the file
  frShown,     \* the line numbers shown so far, page after page
  frCut        \* lines shown in part, and said to be

fsCall == <<fsTree, fsAsk, fsBackend>>
fsWalk == <<fsLeft, fsAt, fsVisited, fsCount, fsHits, fsReason>>
frVars == <<frFile, frAsk, frNext, frShown, frCut>>
fsVars == <<fsCall, fsWalk, fsAnswer, frVars>>

\* nul: UTF-8 with a NUL in its head; bytes: not UTF-8; big: over max_file_bytes
FileKinds == {"text", "nul", "bytes", "big", "link"}
EntryKinds == FileKinds \cup {"dir", "pruned"}
EntryForms == [kind : EntryKinds, hits : 0..FsMaxHits, named : BOOLEAN]

ASSUME FileSearchAssumption ==
  /\ FsWorkers # {} /\ IsFiniteSet(FsEntries) /\ {FsMaxHits, FrLines, FrChars} \subseteq Nat \ {0}
  /\ FsTrees \subseteq [FsEntries -> EntryForms]

Asks == [op : {"grep", "glob"}, cap : Nat, visits : Nat, filter : BOOLEAN,
         select : {"auto", "rust", "python"}, binary : BOOLEAN]
Waiting == [status |-> "none", hits |-> {}, truncated |-> FALSE]
FsIdle == [at |-> "idle", entry |-> ""]
FsOver == [at |-> "over", entry |-> ""]

FsInit ==
  /\ fsTree \in FsTrees
  /\ fsAsk \in [op : {"grep", "glob"}, cap : 1..(FsMaxHits + 1),
                visits : {1, Cardinality(FsEntries)}, filter : BOOLEAN,
                select : {"auto", "rust", "python"}, binary : BOOLEAN]
  /\ fsBackend = "none" /\ fsLeft = {} /\ fsAt = [w \in FsWorkers |-> FsOver]
  /\ fsVisited = 0 /\ fsCount = 0 /\ fsHits = {} /\ fsReason = "none" /\ fsAnswer = Waiting

FrInit ==
  /\ frFile \in UNION {[1..n -> 1..FrChars] : n \in 1..FrLines}
  /\ frAsk \in [limit : 1..FrLines, cap : 1..FrChars]
  /\ frNext = 1 /\ frShown = <<>> /\ frCut = {}

-----------------------------------------------------------------------------
(* What a search looks for *)

IsRust == fsBackend = "rust"

\* read_text takes a NUL and follows a link; the Rust walk takes neither
Readable == IF IsRust THEN {"text"} ELSE {"text", "nul", "link"}
Listed   == IF IsRust THEN FileKinds \ {"link"} ELSE FileKinds

\* The matches of an entry: lines for a grep, the entry itself for a glob
MatchesOf(e) ==
  IF fsAsk.op = "glob" THEN IF fsTree[e].kind \in Listed /\ fsTree[e].hits > 0 THEN 1 ELSE 0
  ELSE IF fsTree[e].kind \in Readable THEN fsTree[e].hits ELSE 0

Passes(e) == fsAsk.op = "grep" /\ fsAsk.filter => fsTree[e].named

\* A pruned directory is not handed out, nor is what it holds
Walked == {e \in FsEntries : fsTree[e].kind # "pruned"}

\* In Python the filter comes before the file is opened
MatchesFiltered(e) == IF Passes(e) THEN MatchesOf(e) ELSE 0

AllMatches == {m \in Walked \X (1..FsMaxHits) : Passes(m[1]) /\ m[2] <= MatchesOf(m[1])}

-----------------------------------------------------------------------------
(* The choice of the backend, once per agent *)

\* Strict when the operator asked for Rust, soft by default
BackendFor(select, binary) ==
  CASE select = "python"                -> "python"
    [] select # "python" /\ binary      -> "rust"
    [] select = "auto" /\ ~binary       -> "python"
    [] select = "rust" /\ ~binary       -> "refused"

FsBegin ==
  /\ fsBackend = "none"
  /\ fsBackend' = BackendFor(fsAsk.select, fsAsk.binary)
  /\ IF fsBackend' = "refused"
     THEN fsAnswer' = [Waiting EXCEPT !.status = "error"] /\ UNCHANGED <<fsLeft, fsAt>>
     ELSE /\ fsLeft' = Walked /\ UNCHANGED fsAnswer
          /\ LET threads == IF fsBackend' = "rust" THEN FsWorkers ELSE {CHOOSE w \in FsWorkers : TRUE}
             IN fsAt' = [w \in FsWorkers |-> IF w \in threads THEN FsIdle ELSE FsOver]
  /\ UNCHANGED <<fsTree, fsAsk, fsVisited, fsCount, fsHits, fsReason, frVars>>

Searching == fsBackend \in {"python", "rust"} /\ fsAnswer.status = "none"

-----------------------------------------------------------------------------
(* The walk in Rust: a worker looks at the flag, counts a visit, searches, commits *)

FsMoves(w, next) == fsAt' = [fsAt EXCEPT ![w] = next]

\* The first reason stays, and it is the flag the others look at
Stopped(w, reason) ==
  /\ fsReason' = IF fsReason = "none" THEN reason ELSE fsReason
  /\ FsMoves(w, FsOver)

FsTakes(w) ==
  /\ Searching /\ IsRust /\ fsAt[w].at = "idle"
  /\ IF fsLeft = {} \/ fsReason # "none"
     THEN FsMoves(w, FsOver) /\ UNCHANGED fsLeft
     ELSE \E e \in fsLeft : FsMoves(w, [at |-> "taken", entry |-> e]) /\ fsLeft' = fsLeft \ {e}
  /\ UNCHANGED <<fsCall, fsVisited, fsCount, fsHits, fsReason, fsAnswer, frVars>>

FsVisits(w) ==
  /\ Searching /\ fsAt[w].at = "taken"
  /\ fsVisited' = fsVisited + 1
  /\ IF fsVisited' > fsAsk.visits THEN Stopped(w, "visited")
     ELSE \/ Stopped(w, "walltime")
          \/ /\ FsMoves(w, IF MatchesOf(fsAt[w].entry) = 0 THEN FsIdle ELSE [fsAt[w] EXCEPT !.at = "found"])
             /\ UNCHANGED fsReason
  /\ UNCHANGED <<fsCall, fsLeft, fsCount, fsHits, fsAnswer, frVars>>

\* Mutation of Admitted: a file whose matches do not all fit is left out whole
AllOrNothing(n) == IF fsCount + n <= fsAsk.cap THEN n ELSE 0

\* How many of n matches the counter still lets in
Admitted(n) == IF fsCount + n <= fsAsk.cap THEN n
               ELSE IF fsCount >= fsAsk.cap THEN 0 ELSE fsAsk.cap - fsCount

Gathered(e, n) == fsHits' = fsHits \cup {<<e, i>> : i \in 1..n}

\* Under the lock. The counter goes over the cap by the match that is refused.
FsCommits(w) ==
  /\ fsAt[w].at = "found"
  /\ LET e == fsAt[w].entry
         n == MatchesOf(e)
         in == Admitted(n)
     IN /\ Gathered(e, in)
        /\ IF in = n THEN fsCount' = fsCount + n /\ FsMoves(w, FsIdle) /\ UNCHANGED fsReason
           ELSE fsCount' = fsCount + in + 1 /\ Stopped(w, "max_results")
  /\ Searching
  /\ UNCHANGED <<fsCall, fsLeft, fsVisited, fsAnswer, frVars>>

-----------------------------------------------------------------------------
(* The walk in Python: one thread, the filter before the file is opened, the cap when it is reached *)

FsWalks(w) ==
  /\ Searching /\ ~IsRust /\ fsAt[w].at = "idle"
  /\ IF fsLeft = {} THEN FsMoves(w, FsOver) /\ UNCHANGED <<fsLeft, fsVisited, fsCount, fsHits, fsReason>>
     ELSE \E e \in fsLeft :
       /\ fsLeft' = fsLeft \ {e}
       /\ \/ Stopped(w, "walltime") /\ UNCHANGED <<fsVisited, fsCount, fsHits>>
          \/ /\ fsVisited' = fsVisited + 1
             /\ IF fsVisited' > fsAsk.visits THEN Stopped(w, "visited") /\ UNCHANGED <<fsCount, fsHits>>
                ELSE LET n == MatchesFiltered(e)
                         in == IF fsCount + n <= fsAsk.cap THEN n ELSE fsAsk.cap - fsCount
                     IN /\ Gathered(e, in) /\ fsCount' = fsCount + in
                        /\ IF n > 0 /\ fsCount' = fsAsk.cap THEN Stopped(w, "max_results")
                           ELSE UNCHANGED <<fsAt, fsReason>>
  /\ UNCHANGED <<fsCall, fsAnswer, frVars>>

-----------------------------------------------------------------------------
(* The end of the search *)

\* The basename filter is applied to what the Rust process returned
Delivered == IF IsRust THEN {h \in fsHits : Passes(h[1])} ELSE fsHits

\* Only a grep compares the number of its results with the cap
MayBeMore == fsReason # "none" \/ (fsAsk.op = "grep" /\ Cardinality(Delivered) >= fsAsk.cap)

FsAnswers ==
  /\ Searching /\ \A w \in FsWorkers : fsAt[w].at = "over"
  /\ fsAnswer' = [status |-> "ok", hits |-> Delivered, truncated |-> MayBeMore]
  /\ UNCHANGED <<fsCall, fsWalk, frVars>>

\* The process is gone, silent, garbled or over 30 seconds: an error, no fall-back
FsSidecarFails ==
  /\ Searching /\ IsRust
  /\ fsAnswer' = [Waiting EXCEPT !.status = "error"]
  /\ UNCHANGED <<fsCall, fsWalk, frVars>>

-----------------------------------------------------------------------------
(* read, page by page *)

\* How many of the lines from start on fit in the page together
Fitting(lines) ==
  LET sum[n \in 0..Len(lines)] == IF n = 0 THEN 0 ELSE sum[n - 1] + lines[n]
  IN {n \in 0..Len(lines) : sum[n] <= frAsk.cap}
Greatest(s) == CHOOSE n \in s : \A m \in s : m <= n

\* Mutation of Page: a cut line is not said to be cut
PageNotCut(window) == [lines |-> IF window # <<>> /\ Greatest(Fitting(window)) = 0 THEN 1
                                 ELSE Greatest(Fitting(window)), cut |-> FALSE]

\* A single line over the cap is shown in part
Page(window) ==
  LET whole == Greatest(Fitting(window))
      cut == window # <<>> /\ whole = 0
  IN [lines |-> IF cut THEN 1 ELSE whole, cut |-> cut]

\* The agent follows next_offset, or goes on after the limit until total_lines
FrRead ==
  /\ frNext # 0
  /\ LET start == frNext - 1
         window == SubSeq(frFile, frNext, IF start + frAsk.limit < Len(frFile)
                                          THEN start + frAsk.limit ELSE Len(frFile))
         page == Page(window)
         last == start + page.lines
     IN /\ frShown' = frShown \o [i \in 1..page.lines |-> start + i]
        /\ frCut' = IF page.cut THEN frCut \cup {last} ELSE frCut
        /\ frNext' = IF last < Len(frFile) THEN last + 1 ELSE 0
  /\ UNCHANGED <<frFile, frAsk, fsCall, fsWalk, fsAnswer>>

-----------------------------------------------------------------------------

FsWork(w) == FsTakes(w) \/ FsVisits(w) \/ FsCommits(w) \/ FsWalks(w)

FsNext == FsBegin \/ (\E w \in FsWorkers : FsWork(w)) \/ FsAnswers \/ FsSidecarFails

FsSpec == FsInit /\ FrInit /\ [][FsNext \/ FrRead]_fsVars

-----------------------------------------------------------------------------
(* Properties *)

\* Every value is of its type.
FsTypeOK ==
  /\ fsTree \in [FsEntries -> EntryForms] /\ fsAsk \in Asks
  /\ fsBackend \in {"none", "python", "rust", "refused"} /\ fsLeft \subseteq FsEntries
  /\ fsAt \in [FsWorkers -> [at : {"idle", "taken", "found", "over"}, entry : FsEntries \cup {""}]]
  /\ fsVisited \in Nat /\ fsCount \in Nat /\ fsHits \subseteq FsEntries \X (1..FsMaxHits)
  /\ fsReason \in {"none", "visited", "walltime", "max_results"}
  /\ fsAnswer \in [status : {"none", "ok", "error"}, truncated : BOOLEAN,
                   hits : SUBSET (FsEntries \X (1..FsMaxHits))]
  /\ frFile \in Seq(1..FrChars) /\ frNext \in 0..Len(frFile) /\ frShown \in Seq(1..FrLines)
  /\ frCut \subseteq 1..Len(frFile)

\* An answer says what it is, however the threads of the walk interleave: it has matches only, no
\* more than the cap; one not marked truncated has them all; and one cut at the cap alone has as
\* many as the cap (grep, glob_walk, LocalFileIOBackend.grep, handle_grep).
SearchHonest ==
  fsAnswer.status = "ok" =>
    /\ fsAnswer.hits \subseteq AllMatches /\ Cardinality(fsAnswer.hits) <= fsAsk.cap
    /\ ~fsAnswer.truncated => fsAnswer.hits = AllMatches
    /\ fsReason = "max_results" => Cardinality(fsHits) = fsAsk.cap

\* Following next_offset, the agent is shown each line of a file once and in order, and is told of
\* each it was shown in part (_apply_cap).
PagesCover ==
  /\ \A i \in DOMAIN frShown : frShown[i] = i
  /\ frNext = 0 => Len(frShown) = Len(frFile)
  /\ \A i \in DOMAIN frShown : frFile[i] > frAsk.cap <=> i \in frCut

\* file_io_sidecar.py:538 "Post-filtering here keeps observable behavior identical to the
\* pure-Python backend": a filtered search that stopped at the cap alone has as many matches.
FilteredAlike ==
  fsAnswer.status = "ok" /\ fsReason = "max_results" => Cardinality(fsAnswer.hits) = fsAsk.cap
=============================================================================
