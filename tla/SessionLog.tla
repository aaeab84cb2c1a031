----------------------------- MODULE SessionLog -----------------------------
(***************************************************************************)
(* What an agent writes of its rounds and reads back when it starts: the   *)
(* event log logs/events.jsonl, the index log.sqlite beside it             *)
(* (services/logging.py), the token ledger, and the counters of the        *)
(* session since the last molt, rebuilt from them (agent_session.py).      *)
(***************************************************************************)
EXTENDS Integers, Sequences, FiniteSets

CONSTANTS
  LgMax,      \* bound: records in the log
  LgScan,     \* records the bounded reverse scan reads (DEFAULT_MAX_SCAN_BYTES)
  LgCrashes,  \* bound: processes that die
  LgTrouble   \* of {"write", "query", "delete"}: what may befall the index

ASSUME SessionLogAssumption ==
  /\ LgMax \in Nat /\ LgScan \in Nat /\ LgCrashes \in Nat
  /\ LgTrouble \subseteq {"write", "query", "delete"}

VARIABLES
  lgLog,      \* events.jsonl: what each record is of
  lgRows,     \* log.sqlite: the records it has a row of
  lgFile,     \* whether log.sqlite is there
  lgProc,     \* the agent's process: off, starting, up, closed
  lgHeld,     \* the record that is in the log and on its way to the index, or 0
  lgOff,      \* the index is disabled in this process
  lgCalls,    \* _api_calls, and with it the token totals, since the last molt
  lgBase,     \* the baseline of the runtime session
  lgTier,     \* which source the counters were last rebuilt from
  lgOwed,     \* a round the ledger has no line of yet
  lgLedger,   \* lines of token_ledger.jsonl
  lgCrashes   \* processes that died

lgVars == <<lgLog, lgRows, lgFile, lgProc, lgHeld, lgOff, lgCalls, lgBase, lgTier,
            lgOwed, lgLedger, lgCrashes>>
lgCounters == <<lgCalls, lgBase, lgTier>>
lgTokens == <<lgOwed, lgLedger>>

LgInit ==
  /\ lgLog = <<>> /\ lgRows = {} /\ lgFile = FALSE /\ lgProc = "off" /\ lgHeld = 0
  /\ lgOff = FALSE /\ lgCalls = 0 /\ lgBase = 0 /\ lgTier = "none"
  /\ lgOwed = FALSE /\ lgLedger = 0 /\ lgCrashes = 0

----------------------------------------------------------------------------
(* Reading the log back *)

Of(what, records) == {r \in records : lgLog[r] = what}

\* The last molt among the records, 0 when none is there.
Boundary(records) ==
  LET molts == Of("molt", records)
  IN IF molts = {} THEN 0 ELSE CHOOSE m \in molts : \A n \in molts : n <= m

\* The rounds after it.
RoundsSince(records) ==
  Cardinality({r \in Of("round", records) : r > Boundary(records)})

InLog == DOMAIN lgLog
InScan == {r \in InLog : r > Len(lgLog) - LgScan}

\* The agent session that comes of it: where it is from, and its totals.
Retotalled(tier, calls) == [tier |-> tier, calls |-> calls]

\* Bug: the scan adds up all it reads and never starts over at a boundary.
ScanPastBoundary ==
  IF Boundary(InScan) # 0 \/ InScan = InLog
  THEN Retotalled("reverse_scan", RoundsSince(InScan))
  ELSE Retotalled("full_scan", Cardinality(Of("round", InLog)))

\* From the end back to the boundary, or to the start of the file; when neither is
\* within the bound, the whole file forward, starting over at every boundary.
ScanLog ==
  IF Boundary(InScan) # 0 \/ InScan = InLog
  THEN Retotalled("reverse_scan", RoundsSince(InScan))
  ELSE Retotalled("full_scan", RoundsSince(InLog))

\* The rows since the boundary, in two queries.
AskIndex == Retotalled("sqlite", RoundsSince(lgRows))

\* The index when the file is there and answers, else the log.
Sources ==
  (IF lgFile THEN {AskIndex} ELSE {})
    \cup (IF ~lgFile \/ "query" \in LgTrouble THEN {ScanLog} ELSE {})

\* restore_token_state: the totals, and the runtime session's baseline with them.
Restored(calls) == lgCalls' = calls /\ lgBase' = calls

\* reset_session_token_usage
StartsOver == lgCalls' = 0 /\ lgBase' = 0

----------------------------------------------------------------------------
(* Writing (CompositeLoggingService.log) *)

\* The line goes to the file and is flushed.
Appended(what) == lgLog' = Append(lgLog, what) /\ lgHeld' = Len(lgLog')

\* A closed log takes nothing, and then the index gets nothing either.
Writes(what) ==
  /\ lgHeld = 0 /\ Len(lgLog) < LgMax
  /\ IF lgProc = "closed" THEN UNCHANGED <<lgLog, lgHeld>> ELSE Appended(what)

\* Opening the index creates the file and its tables.
Opens == lgFile' = TRUE

\* The first error disables the index for this process.
Disables == lgOff' = TRUE /\ UNCHANGED <<lgFile, lgRows>>

\* The row follows, through an index opened for it.
LgIndex ==
  /\ lgHeld # 0 /\ lgHeld' = 0
  /\ \/ ~lgOff /\ Opens /\ lgRows' = lgRows \cup {lgHeld} /\ UNCHANGED lgOff
     \/ ~lgOff /\ "write" \in LgTrouble /\ Disables
     \/ lgOff /\ UNCHANGED <<lgFile, lgRows, lgOff>>
  /\ UNCHANGED <<lgLog, lgProc, lgCounters, lgTokens, lgCrashes>>

Steady == <<lgRows, lgFile, lgProc, lgOff, lgCrashes>>

\* A provider round is counted, then logged; its usage waits for the ledger.
LgRound ==
  /\ lgProc = "up" /\ ~lgOwed /\ Writes("round")
  /\ lgCalls' = lgCalls + 1 /\ lgOwed' = TRUE
  /\ UNCHANGED <<Steady, lgBase, lgTier, lgLedger>>

\* Every other event, of any thread; the log may be closed by then.
LgEvent ==
  /\ lgProc \in {"up", "closed"} /\ Writes("other")
  /\ UNCHANGED <<Steady, lgCounters, lgTokens>>

\* A line of the ledger is mirrored, through a connection of its own that creates
\* the file; whatever goes wrong there is ignored.
TokenRow == Opens
Mirrored == TokenRow \/ ("write" \in LgTrouble /\ UNCHANGED lgFile)

LedgerLine == lgLedger' = lgLedger + 1 /\ Mirrored

\* The chat is saved once the round is in, and its usage with it.
LgSave ==
  /\ lgProc = "up" /\ lgHeld = 0 /\ lgOwed
  /\ lgOwed' = FALSE /\ LedgerLine
  /\ UNCHANGED <<lgLog, lgHeld, lgRows, lgProc, lgOff, lgCrashes, lgCounters>>

\* A molt starts the counters over, then logs the boundary.
LgMolt ==
  /\ lgProc = "up" /\ ~lgOwed /\ Writes("molt")
  /\ StartsOver
  /\ UNCHANGED <<Steady, lgTier, lgTokens>>

----------------------------------------------------------------------------
(* Processes *)

\* The constructor opens the log; the index is not opened before it is written to.
\* _start logs that it restored the session.
LgStart ==
  /\ lgProc = "off" /\ Len(lgLog) < LgMax
  /\ lgProc' = "starting" /\ Appended("other")
  /\ lgOff' = FALSE /\ lgCalls' = 0 /\ lgBase' = 0 /\ lgOwed' = FALSE
  /\ UNCHANGED <<lgRows, lgFile, lgTier, lgLedger, lgCrashes>>

\* rebuild_agent_session, and the counters seeded from it.
LgRebuild ==
  /\ lgProc = "starting" /\ lgHeld = 0 /\ lgProc' = "up"
  /\ \E from \in Sources : lgTier' = from.tier /\ Restored(from.calls)
  /\ UNCHANGED <<lgLog, lgRows, lgFile, lgHeld, lgOff, lgTokens, lgCrashes>>

\* stop: the run loop has ended, another thread may be writing its event.
LgStop ==
  /\ lgProc = "up" /\ ~lgOwed /\ lgProc' = "closed"
  /\ (lgHeld # 0 => lgLog[lgHeld] = "other")
  /\ UNCHANGED <<lgLog, lgRows, lgFile, lgHeld, lgOff, lgCounters, lgTokens, lgCrashes>>

LgGone ==
  /\ lgProc = "closed" /\ lgProc' = "off" /\ lgHeld' = 0
  /\ UNCHANGED <<lgLog, lgRows, lgFile, lgOff, lgCounters, lgTokens, lgCrashes>>

LgCrash ==
  /\ lgProc # "off" /\ lgCrashes < LgCrashes
  /\ lgProc' = "off" /\ lgHeld' = 0 /\ lgCrashes' = lgCrashes + 1
  /\ UNCHANGED <<lgLog, lgRows, lgFile, lgOff, lgCounters, lgTokens>>

\* `log rebuild`, while no agent holds the directory: a new index of every record.
LgReindex ==
  /\ lgProc = "off" /\ lgLog # <<>>
  /\ lgRows' = InLog /\ lgFile' = TRUE
  /\ UNCHANGED <<lgLog, lgProc, lgHeld, lgOff, lgCounters, lgTokens, lgCrashes>>

LgDelete ==
  /\ lgProc = "off" /\ lgFile /\ "delete" \in LgTrouble
  /\ lgRows' = {} /\ lgFile' = FALSE
  /\ UNCHANGED <<lgLog, lgProc, lgHeld, lgOff, lgCounters, lgTokens, lgCrashes>>

LgNext ==
  \/ LgIndex \/ LgRound \/ LgEvent \/ LgSave \/ LgMolt \/ LgStart \/ LgRebuild
  \/ LgStop \/ LgGone \/ LgCrash \/ LgReindex \/ LgDelete

LgSpec == LgInit /\ [][LgNext]_lgVars

----------------------------------------------------------------------------
(* Properties *)

\* Every value is of its type.
LgTypeOK ==
  /\ lgLog \in Seq({"round", "molt", "other"}) /\ lgRows \subseteq Nat
  /\ lgFile \in BOOLEAN /\ lgProc \in {"off", "starting", "up", "closed"}
  /\ lgHeld \in Nat /\ lgOff \in BOOLEAN /\ lgCalls \in Nat /\ lgBase \in Nat
  /\ lgTier \in {"none", "sqlite", "reverse_scan", "full_scan"}
  /\ lgOwed \in BOOLEAN /\ lgLedger \in Nat /\ lgCrashes \in Nat

\* The counters an agent starts with are the rounds logged since the last molt,
\* whichever way they were rebuilt, as long as the index misses no record: of a
\* lifetime of molts and restarts, each way finds the same boundary.
RebuildsAgree ==
  [][lgProc = "starting" /\ lgProc' = "up" /\ (lgTier' = "sqlite" => lgRows = InLog)
       => lgCalls' = RoundsSince(InLog)]_lgVars

\* A running agent's counters are the rounds logged since the last molt, which
\* means that its restarts changed nothing (agent_session.py: events.jsonl "is
\* the source of truth for that rebuild").
SinceMolt == lgProc = "up" /\ lgHeld = 0 => lgCalls = RoundsSince(InLog)
=============================================================================
