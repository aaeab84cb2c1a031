------------------------------ MODULE AgentLoop ------------------------------
(***************************************************************************)
(* One agent process: the run loop (base_agent/turn.py), the heartbeat     *)
(* thread (base_agent/lifecycle.py), the optional soul timer thread        *)
(* (intrinsics/soul/flow.py) and the pass every one of them may make over  *)
(* `.notification/` (_sync_notifications in base_agent/__init__.py).       *)
(*                                                                         *)
(* The three threads share the lifecycle state, two threading.Event flags, *)
(* the inbox queue, the committed notification fingerprint and the chat    *)
(* history, with no lock around any of them.  One action is one stretch of *)
(* a thread between two points where another thread can matter.            *)
(***************************************************************************)
EXTENDS Integers, Sequences, FiniteSets

CONSTANTS
  Notes,            \* notifications that may be written, one file each
  KernelNote,       \* the notification the kernel itself publishes
  Pollers,          \* the threads besides "rl" that sync: "hb", maybe "soul"
  Signals,          \* signal files dropped during the run, each at most once
  Faults,           \* ways an LLM call or a refresh may fail here
  ToolEffects,      \* what a batch of tool calls may do
  MaxRequests,      \* bound: text messages put in the inbox
  MaxKernelNotes,   \* bound: tool-loop stops and molts, which publish
  MaxRounds,        \* LoopGuard.max_total_calls
  MaxTransient,     \* _TRANSIENT_AED_RETRY_LIMIT
  MaxAed,           \* config.max_aed_attempts
  CanFallback,      \* _can_fallback_preset()
  Windows           \* races of the passes this instance lets happen

AllSignals == {"interrupt", "suspend", "refresh", "sleep", "idle_timeout"}
AllFaults  == {"empty", "transient", "hard", "hang", "refresh"}
AllEffects == {"plain", "dismiss", "sleep", "force_sleep", "molt", "poll"}
Aborted    == {"aborted", "aborted_molt"}  \* a batch cancelled before its end

\* "overlap": two passes run at once, or one writes the history while the run
\* loop starts an LLM call, or goes on while a tool batch moves the payload.  "commit": something happens
\* between the moment a tool batch reads the channels and the moment it commits
\* their fingerprint.
AllWindows == {"overlap", "commit"}

ASSUME NotesAssumption  == KernelNote \in Notes
ASSUME ThreadAssumption == Pollers \subseteq {"hb", "soul"}
ASSUME EventAssumption  == /\ Signals \subseteq AllSignals
                           /\ Faults \subseteq AllFaults
                           /\ ToolEffects \subseteq AllEffects
                           /\ Windows \subseteq AllWindows
ASSUME BoundAssumption  == /\ MaxRequests \in Nat
                           /\ MaxKernelNotes \in Nat
                           /\ MaxRounds \in Nat
                           /\ MaxTransient \in Nat
                           /\ MaxAed \in Nat \ {0}
                           /\ CanFallback \in BOOLEAN

VARIABLES
  state,        \* agent._state
  asleep,       \* agent._asleep
  cancel,       \* agent._cancel_event
  shutdown,     \* agent._shutdown
  inbox,        \* agent.inbox
  sent,         \* text messages the environment has put so far
  pc,           \* where the run loop is
  back,         \* where it returns to after its own notification sync
  msg,          \* type of the message being handled
  aed,          \* aed_attempts
  transient,    \* transient_attempts
  rounds,       \* tool batches counted by the turn's LoopGuard
  sleepState,   \* sleep_state
  sendKind,     \* what the LLM call in flight was given
  outcome,      \* what the last LLM call gave
  effect,       \* what the batch of tool calls being run does
  base,         \* last entry of the chat history that is not a user entry
  top,          \* last user entry after it, "none" when base is the tail
  batch,        \* the tool calls being run: still open, or closed by a heal
  live,         \* notifications the live payload block carries
  holderAt,     \* where that block is, "gone" when it is in the history no more
  sig,          \* payload the last tool batch recorded as shown, {} for none
  inflight,     \* notifications visible to the LLM call in flight
  poisoned,     \* agent._llm_worker_interface_poisoned
  refreshReq,   \* agent._llm_worker_refresh_requested
  fellBack,     \* agent._preset_fallback_attempted
  files,        \* notifications on disk; the fingerprint is this set
  fp,           \* agent._notification_fp
  published,    \* notifications ever written
  kernelNotes,  \* tool-loop stops and molts so far
  seen,         \* notifications some successful LLM call carried (history)
  sat,          \* per thread: step of the sync it is in
  snap,         \* per thread: fingerprint and payload that sync has read
  woke,         \* per thread: that sync found the agent ASLEEP
  hb,           \* heartbeat thread between the two halves of a sleep
  left          \* signals not yet dropped

lifeVars  == <<state, asleep, cancel, shutdown>>
queueVars == <<inbox, sent>>
turnVars  == <<msg, aed, transient, rounds, sleepState, sendKind, outcome,
              effect>>
wireVars  == <<base, top, batch>>
holdVars  == <<live, holderAt, sig, inflight>>
flagVars  == <<poisoned, refreshReq, fellBack>>
noteVars  == <<files, fp, published, kernelNotes, seen>>
syncVars  == <<sat, snap, woke>>
hbVars    == <<hb, left>>
vars == <<lifeVars, queueVars, pc, back, turnVars, wireVars, holdVars,
          flagVars, noteVars, syncVars, hbVars>>

Threads == {"rl"} \cup Pollers
States  == {"ACTIVE", "IDLE", "STUCK", "ASLEEP", "SUSPENDED"}
Labels  == {"top", "block", "woken", "await", "taken", "turn",
            "sync", "send_text", "send_results", "send_none", "llm",
            "entered", "loop", "exec", "attach", "commit", "after", "error",
            "aed", "hang", "turn_end", "idle_check", "exit"}
SyncSteps == {"idle", "clear", "branch", "inject", "append", "heal", "close",
              "reinject", "wake", "degrade", "commit_ok", "commit_no"}

LifeOK == /\ state \in States
          /\ asleep \in BOOLEAN /\ cancel \in BOOLEAN /\ shutdown \in BOOLEAN
QueueOK == inbox \in Seq({"request", "tc_wake"}) /\ sent \in 0..MaxRequests
PcOK == pc \in Labels /\ back \in {"send_text", "loop", "turn_end", "top"}
TurnOK ==
  /\ msg \in {"request", "tc_wake"}
  /\ aed \in 0..MaxAed /\ transient \in 0..MaxTransient
  /\ rounds \in 0..MaxRounds
  /\ sleepState \in {"IDLE", "ASLEEP"}
  /\ sendKind \in {"text", "results", "none"}
  /\ outcome \in {"reply", "calls", "empty", "transient", "hard"}
  /\ effect \in AllEffects \cup Aborted
WireOK == /\ base \in {"none", "reply", "calls"}
          /\ top \in {"none", "text", "results"}
          /\ batch \in {"none", "open", "healed"}
HoldOK == /\ live \subseteq Notes /\ sig \subseteq Notes /\ inflight \subseteq Notes
          /\ holderAt \in {"none", "batch", "top", "deep", "gone"}
FlagOK == /\ poisoned \in BOOLEAN /\ refreshReq \in BOOLEAN
          /\ fellBack \in BOOLEAN
NoteOK == /\ files \subseteq Notes /\ fp \subseteq Notes
          /\ published \subseteq Notes /\ seen \subseteq Notes
          /\ kernelNotes \in 0..MaxKernelNotes
SyncOK == /\ sat \in [Threads -> SyncSteps]
          /\ snap \in [Threads -> SUBSET Notes]
          /\ woke \in [Threads -> BOOLEAN]
HbOK == hb \in {"tick", "sleeping"} /\ left \subseteq Signals

TypeOK == /\ LifeOK /\ QueueOK /\ PcOK /\ TurnOK /\ WireOK
          /\ HoldOK /\ FlagOK /\ NoteOK /\ SyncOK /\ HbOK

\* cli.run boots asleep and only then starts the threads.
Init ==
  /\ state = "ASLEEP" /\ asleep = TRUE /\ cancel = FALSE /\ shutdown = FALSE
  /\ inbox = <<>> /\ sent = 0
  /\ pc = "top" /\ back = "top"
  /\ msg = "request" /\ aed = 0 /\ transient = 0 /\ rounds = 0
  /\ sleepState = "IDLE" /\ sendKind = "none"
  /\ outcome = "reply" /\ effect = "plain"
  /\ base = "none" /\ top = "none" /\ batch = "none"
  /\ live = {} /\ holderAt = "none" /\ sig = {} /\ inflight = {}
  /\ poisoned = FALSE /\ refreshReq = FALSE /\ fellBack = FALSE
  /\ files = {} /\ fp = {} /\ published = {} /\ seen = {}
  /\ kernelNotes = 0
  /\ sat = [t \in Threads |-> "idle"]
  /\ snap = [t \in Threads |-> {}]
  /\ woke = [t \in Threads |-> FALSE]
  /\ hb = "tick" /\ left = Signals

-----------------------------------------------------------------------------
(***************************************************************************)
(* The chat history as far as delivery needs it.                           *)
(***************************************************************************)

\* has_pending_tool_calls: the tail is an assistant entry with tool calls.
Pending == base = "calls" /\ top = "none"

\* The guard in _handle_tc_wake: the tail is a user entry of tool results.
TailIsToolResult == top = "results"

\* close_pending_tool_calls: placeholders answer the dangling calls.
BatchAfterClose == IF Pending /\ batch = "open" THEN "healed" ELSE batch
ClosePending ==
  /\ top' = IF Pending THEN "results" ELSE top
  /\ batch' = BatchAfterClose
  /\ UNCHANGED base

\* commit_tool_results / add_tool_results of the batch just run: appended, or
\* written over the placeholders another thread's heal has left.
CommitResults ==
  /\ top' = IF batch = "open" THEN "results" ELSE top
  /\ holderAt' = IF holderAt # "batch" THEN holderAt
                 ELSE IF batch = "open" THEN "top" ELSE "deep"
  /\ UNCHANGED <<base, live>>

\* skeletonize_notification_holder
Skeletonize == live' = {} /\ holderAt' = "none"

\* add_assistant_message: earlier user entries are no longer trailing.
AppendAssistant(kind) ==
  /\ base' = kind
  /\ top' = "none"
  /\ batch' = IF kind = "calls" THEN "open" ELSE "none"
  /\ holderAt' = IF holderAt = "top" THEN "deep" ELSE holderAt
  /\ UNCHANGED live

\* drop_trailing(role == "user"), the adapters' rollback of a failed send: it
\* takes every trailing user entry, and a payload block that sat in one, which
\* the agent goes on to hold.
HolderDropped ==
  /\ holderAt' = IF holderAt = "top" THEN "gone" ELSE holderAt
  /\ UNCHANGED live
DropTrailing == top' = "none" /\ HolderDropped

\* What a request serialised now shows of the live payload.
Visible(at) == IF at \in {"top", "deep"} THEN live ELSE {}

\* The kernel publishes a notification of its own, over an older one if there
\* is one: a rewritten file is a change, whatever has been shown of it.
PublishKernelNote ==
  LET Drop(shown) == shown \ {KernelNote} IN
  /\ files' = files \cup {KernelNote}
  /\ published' = published \cup {KernelNote}
  /\ fp' = Drop(fp) /\ seen' = Drop(seen)
  /\ live' = Drop(live) /\ sig' = Drop(sig)
  /\ snap' = [t \in Threads |-> Drop(snap[t])]

\* _perform_refresh: once the watcher runs both events are set; without a
\* launch command or an ack file it returns before that.
PerformRefresh ==
  \/ shutdown' = TRUE /\ cancel' = TRUE
  \/ "refresh" \in Faults /\ UNCHANGED <<shutdown, cancel>>

\* Faulty: the flag is set before it is tested.
RequestRefreshLate ==
  /\ refreshReq' = TRUE
  /\ UNCHANGED <<shutdown, cancel>>

\* request_worker_hang_refresh: once per process, whatever came of it.
RequestRefresh ==
  /\ refreshReq' = TRUE
  /\ IF refreshReq THEN UNCHANGED <<shutdown, cancel>> ELSE PerformRefresh

-----------------------------------------------------------------------------
(***************************************************************************)
(* _sync_notifications, by any thread t.  For the run loop the pass ends   *)
(* by going on at the label in `back`.                                     *)
(***************************************************************************)

SyncTo(t, step) == sat' = [sat EXCEPT ![t] = step] /\ UNCHANGED pc

SyncDone(t) ==
  /\ sat' = [sat EXCEPT ![t] = "idle"]
  /\ snap' = [snap EXCEPT ![t] = {}]
  /\ woke' = [woke EXCEPT ![t] = FALSE]
  /\ pc' = IF t = "rl" THEN back ELSE pc
  /\ back' = IF t = "rl" THEN "top" ELSE back

\* _skip_poisoned_sync
SkipPoisoned(t) ==
  /\ poisoned
  /\ RequestRefresh
  /\ SyncDone(t)
  /\ UNCHANGED <<state, asleep, queueVars, turnVars, wireVars, holdVars,
                 poisoned, fellBack, noteVars, hbVars>>

\* Who may enter a pass: the run loop where it calls it, the heartbeat once a
\* tick until shutdown, the soul timer while the agent is IDLE.
Alone(t) ==
  /\ \A u \in Threads : sat[u] = "idle"
  /\ t # "rl" => pc \notin {"sync", "attach"}

MayEnter(t) ==
  /\ sat[t] = "idle"
  /\ t = "rl" => pc = "sync"
  /\ t = "hb" => ~shutdown /\ hb = "tick"
  /\ t = "soul" => state = "IDLE"
  /\ "overlap" \in Windows \/ Alone(t)

SyncUnchanged(t) ==
  /\ t = "rl" /\ MayEnter(t) /\ files = fp
  /\ SyncDone(t)
  /\ UNCHANGED <<lifeVars, queueVars, turnVars, wireVars, holdVars, flagVars,
                 noteVars, hbVars>>

SyncSkipAtEntry(t) == MayEnter(t) /\ files # fp /\ SkipPoisoned(t)

SyncCollect(t) ==
  /\ MayEnter(t) /\ files # fp /\ ~poisoned
  /\ snap' = [snap EXCEPT ![t] = files]
  /\ SyncTo(t, IF files = {} THEN "clear" ELSE "branch")
  /\ UNCHANGED <<lifeVars, queueVars, back, turnVars, wireVars, holdVars,
                 flagVars, noteVars, woke, hbVars>>

\* Every channel was cleared.
SyncClear(t) ==
  /\ sat[t] = "clear"
  /\ Skeletonize
  /\ fp' = snap[t]
  /\ SyncDone(t)
  /\ UNCHANGED <<lifeVars, queueVars, turnVars, wireVars, sig, inflight,
                 flagVars, files, published, kernelNotes,
                 seen, hbVars>>

\* A notification wakes a sleeping agent before it is injected.
SyncWakeAgent(t) ==
  /\ sat[t] = "branch" /\ state = "ASLEEP" /\ ~poisoned
  /\ asleep' = FALSE /\ cancel' = FALSE /\ state' = "IDLE"
  /\ woke' = [woke EXCEPT ![t] = TRUE]
  /\ SyncTo(t, "inject")
  /\ UNCHANGED <<shutdown, queueVars, back, turnVars, wireVars, holdVars,
                 flagVars, noteVars, snap, hbVars>>

\* Faulty: an ACTIVE agent commits what it defers.
SyncBranchCommits(t) ==
  /\ sat[t] = "branch" /\ state # "ASLEEP"
  /\ state = "IDLE" => ~poisoned
  /\ woke' = [woke EXCEPT ![t] = FALSE]
  /\ SyncTo(t, IF state = "IDLE" THEN "inject" ELSE "commit_ok")
  /\ UNCHANGED <<lifeVars, queueVars, back, turnVars, wireVars, holdVars,
                 flagVars, noteVars, snap, hbVars>>

\* IDLE goes on to inject; ACTIVE defers; STUCK and SUSPENDED cannot inject.
SyncBranch(t) ==
  /\ sat[t] = "branch" /\ state # "ASLEEP"
  /\ state = "IDLE" => ~poisoned
  /\ woke' = [woke EXCEPT ![t] = FALSE]
  /\ SyncTo(t, IF state = "IDLE" THEN "inject" ELSE "commit_no")
  /\ UNCHANGED <<lifeVars, queueVars, back, turnVars, wireVars, holdVars,
                 flagVars, noteVars, snap, hbVars>>

\* Faulty: no look at the poison flag before the history is written.
SyncInjectUnguarded(t) ==
  /\ sat[t] \in {"inject", "reinject"} /\ ~Pending
  /\ SyncTo(t, "append")
  /\ UNCHANGED <<lifeVars, queueVars, back, turnVars, wireVars, holdVars,
                 flagVars, noteVars, snap, woke, hbVars>>

\* _inject_notification_pair refuses over a poisoned or a dangling history ...
SyncInject(t) ==
  /\ sat[t] \in {"inject", "reinject"} /\ ~poisoned /\ ~Pending
  /\ SyncTo(t, "append")
  /\ UNCHANGED <<lifeVars, queueVars, back, turnVars, wireVars, holdVars,
                 flagVars, noteVars, snap, woke, hbVars>>

SyncInjectRefused(t) ==
  /\ sat[t] \in {"inject", "reinject"} /\ ~poisoned /\ Pending
  /\ SyncTo(t, IF sat[t] = "inject" THEN "heal"
               ELSE IF woke[t] THEN "degrade" ELSE "commit_no")
  /\ UNCHANGED <<lifeVars, queueVars, back, turnVars, wireVars, holdVars,
                 flagVars, noteVars, snap, woke, hbVars>>

\* ... else it builds the pair and appends assistant[notification call] and
\* user[its result], the new live block, without looking again.
SyncAppend(t) ==
  /\ sat[t] = "append"
  /\ base' = "calls" /\ top' = "results"
  /\ live' = snap[t] /\ holderAt' = "top"
  /\ SyncTo(t, "wake")
  /\ UNCHANGED <<lifeVars, queueVars, back, turnVars, batch, sig, inflight,
                 flagVars, noteVars, snap, woke, hbVars>>

\* _heal_pending_tool_calls: the poison flag, then the close.
SyncHeal(t) ==
  /\ sat[t] = "heal" /\ ~poisoned
  /\ SyncTo(t, "close")
  /\ UNCHANGED <<lifeVars, queueVars, back, turnVars, wireVars, holdVars,
                 flagVars, noteVars, snap, woke, hbVars>>

SyncClose(t) ==
  /\ sat[t] = "close"
  /\ ClosePending
  /\ SyncTo(t, "reinject")
  /\ UNCHANGED <<lifeVars, queueVars, back, turnVars, holdVars, flagVars,
                 noteVars, snap, woke, hbVars>>

\* Faulty: the pair is appended and nobody is woken.
SyncPostWakeSilent(t) ==
  /\ sat[t] = "wake" /\ ~poisoned
  /\ SyncTo(t, "commit_ok")
  /\ UNCHANGED <<lifeVars, queueVars, back, turnVars, wireVars, holdVars,
                 flagVars, noteVars, snap, woke, hbVars>>

SyncPostWake(t) ==
  /\ sat[t] = "wake" /\ ~poisoned
  /\ inbox' = Append(inbox, "tc_wake")
  /\ SyncTo(t, "commit_ok")
  /\ UNCHANGED <<lifeVars, sent, back, turnVars, wireVars, holdVars,
                 flagVars, noteVars, snap, woke, hbVars>>

\* Delivery fell through after a heal: a text message points at the files.
SyncDegrade(t) ==
  /\ sat[t] = "degrade"
  /\ inbox' = Append(inbox, "request")
  /\ fp' = snap[t]
  /\ SyncTo(t, "commit_no")
  /\ UNCHANGED <<lifeVars, sent, back, turnVars, wireVars, holdVars,
                 flagVars, files, published, kernelNotes,
                 seen, snap, woke, hbVars>>

\* Faulty: the fingerprint is committed whether or not the injection worked.
SyncCommitAlways(t) ==
  /\ sat[t] \in {"commit_ok", "commit_no"} /\ ~poisoned
  /\ fp' = snap[t]
  /\ SyncDone(t)
  /\ UNCHANGED <<lifeVars, queueVars, turnVars, wireVars, holdVars, flagVars,
                 files, published, kernelNotes, seen, hbVars>>

\* The state is read again: a STUCK or SUSPENDED agent commits undelivered.
SyncCommit(t) ==
  /\ sat[t] \in {"commit_ok", "commit_no"} /\ ~poisoned
  /\ fp' = IF sat[t] = "commit_ok" \/ state \in {"STUCK", "SUSPENDED"}
           THEN snap[t] ELSE fp
  /\ SyncDone(t)
  /\ UNCHANGED <<lifeVars, queueVars, turnVars, wireVars, holdVars, flagVars,
                 files, published, kernelNotes, seen, hbVars>>

\* Every later checkpoint of the pass re-reads the poison flag.
SyncSkipLater(t) ==
  /\ \/ sat[t] \in {"inject", "heal", "reinject", "wake", "commit_ok",
                    "commit_no"}
     \/ sat[t] = "branch" /\ state \in {"ASLEEP", "IDLE"}
  /\ SkipPoisoned(t)

CommitWindow == pc = "commit" => "commit" \in Windows

Sync(t) ==
  /\ CommitWindow
  /\ \/ SyncUnchanged(t) \/ SyncSkipAtEntry(t) \/ SyncCollect(t)
     \/ SyncClear(t) \/ SyncWakeAgent(t) \/ SyncBranch(t) \/ SyncInject(t)
     \/ SyncInjectRefused(t) \/ SyncAppend(t) \/ SyncHeal(t) \/ SyncClose(t)
     \/ SyncPostWake(t) \/ SyncDegrade(t) \/ SyncCommit(t)
     \/ SyncSkipLater(t)

-----------------------------------------------------------------------------
(***************************************************************************)
(* The run loop: taking a message.                                         *)
(***************************************************************************)

Goto(label) == pc' = label /\ UNCHANGED back

\* The run loop makes a notification sync of its own and goes on at b.
BeginSync(b) == pc' = "sync" /\ back' = b

\* _handle_message is over; the TC_WAKE handler syncs once more.
Finish == IF msg = "tc_wake" THEN BeginSync("turn_end") ELSE Goto("turn_end")

LoopExit ==
  /\ pc = "top" /\ shutdown
  /\ Goto("exit")
  /\ UNCHANGED <<lifeVars, queueVars, turnVars, wireVars, holdVars, flagVars,
                 noteVars, syncVars, hbVars>>

\* Faulty: sleeping over a dangling history.
FallAsleepUnhealed ==
  /\ pc = "top" /\ ~shutdown /\ asleep
  /\ Goto("block")
  /\ UNCHANGED <<lifeVars, queueVars, turnVars, wireVars, holdVars, flagVars,
                 noteVars, syncVars, hbVars>>

\* Heal dangling calls before sleeping, unless the worker may still write.
FallAsleep ==
  /\ pc = "top" /\ ~shutdown /\ asleep
  /\ IF poisoned THEN UNCHANGED wireVars ELSE ClosePending
  /\ Goto("block")
  /\ UNCHANGED <<lifeVars, queueVars, turnVars, holdVars, flagVars, noteVars,
                 syncVars, hbVars>>

BecomeAwake ==
  /\ pc = "top" /\ ~shutdown /\ ~asleep
  /\ Goto("await")
  /\ UNCHANGED <<lifeVars, queueVars, turnVars, wireVars, holdVars, flagVars,
                 noteVars, syncVars, hbVars>>

\* inbox.get(timeout) returns a message.  A thread blocked in get does not
\* look at the events again before it returns.
TakeMessage ==
  /\ pc \in {"block", "await"} /\ inbox # <<>>
  /\ msg' = Head(inbox)
  /\ inbox' = Tail(inbox)
  /\ Goto(IF pc = "block" THEN "woken" ELSE "taken")
  /\ UNCHANGED <<lifeVars, sent, aed, transient, rounds, sleepState, sendKind,
                 outcome, effect, wireVars, holdVars, flagVars, noteVars,
                 syncVars, hbVars>>

\* Faulty: a blocking get without a timeout.
TakeTimeoutNever ==
  /\ inbox = <<>> /\ pc = "await" /\ (shutdown \/ asleep)
  /\ Goto("top")
  /\ UNCHANGED <<lifeVars, queueVars, turnVars, wireVars, holdVars, flagVars,
                 noteVars, syncVars, hbVars>>

\* inbox.get times out: the sleeping loop leaves on shutdown only, the awake
\* one re-reads both events.
TakeTimeout ==
  /\ inbox = <<>>
  /\ \/ pc = "block" /\ shutdown
     \/ pc = "await" /\ (shutdown \/ asleep)
  /\ Goto(IF pc = "block" THEN "exit" ELSE "top")
  /\ UNCHANGED <<lifeVars, queueVars, turnVars, wireVars, holdVars, flagVars,
                 noteVars, syncVars, hbVars>>

\* _concat_queued_messages: a text message swallows every queued text message;
\* wakes are put back.
Wakes == {i \in DOMAIN inbox : inbox[i] = "tc_wake"}
Concat ==
  inbox' = IF msg = "request"
           THEN [i \in 1..Cardinality(Wakes) |-> "tc_wake"] ELSE inbox

\* Both branches end in state ACTIVE; only the asleep one clears the events.
StartTurn ==
  /\ pc \in {"woken", "taken"}
  /\ Concat
  /\ asleep' = (asleep /\ pc = "taken")
  /\ cancel' = (cancel /\ pc = "taken")
  /\ state' = "ACTIVE"
  /\ sleepState' = "IDLE" /\ aed' = 0 /\ transient' = 0
  /\ Goto("turn")
  /\ UNCHANGED <<shutdown, sent, msg, rounds, sendKind, outcome, effect,
                 wireVars, holdVars, flagVars, noteVars, syncVars, hbVars>>

\* The poison guard at the head of the AED loop.
RefusePoisoned ==
  /\ pc = "turn" /\ poisoned
  /\ RequestRefresh
  /\ asleep' = TRUE
  /\ sleepState' = "ASLEEP"
  /\ Goto("turn_end")
  /\ UNCHANGED <<state, queueVars, msg, aed, transient, rounds, sendKind,
                 outcome, effect, wireVars, holdVars, poisoned, fellBack,
                 noteVars, syncVars, hbVars>>

\* _handle_request: a fresh LoopGuard, then housekeeping before the send.
HandleRequest ==
  /\ pc = "turn" /\ ~poisoned /\ msg = "request"
  /\ rounds' = 0
  /\ BeginSync("send_text")
  /\ UNCHANGED <<lifeVars, queueVars, msg, aed, transient, sleepState,
                 sendKind, outcome, effect, wireVars, holdVars, flagVars,
                 noteVars, syncVars, hbVars>>

\* _handle_tc_wake drives the wire only when it ends in tool results.
HandleTcWake ==
  /\ pc = "turn" /\ ~poisoned /\ msg = "tc_wake"
  /\ rounds' = 0
  /\ Goto(IF ~Pending /\ TailIsToolResult THEN "send_none" ELSE "turn_end")
  /\ UNCHANGED <<lifeVars, queueVars, msg, aed, transient, sleepState,
                 sendKind, outcome, effect, wireVars, holdVars, flagVars,
                 noteVars, syncVars, hbVars>>

-----------------------------------------------------------------------------
(***************************************************************************)
(* The run loop: one LLM call.  What the call carries is fixed when it is  *)
(* sent; the answer is appended to whatever the tail is by then.           *)
(***************************************************************************)

\* A pass that only looks or defers does not touch the history.
Undisturbed ==
  "overlap" \notin Windows =>
    \A t \in Pollers : sat[t] \in {"idle", "branch", "commit_no"}

\* session.send(content): _health_check closes dangling calls, then the text
\* is appended.
SendText ==
  /\ pc = "send_text" /\ Undisturbed
  /\ top' = "text" /\ batch' = BatchAfterClose
  /\ sendKind' = "text" /\ inflight' = Visible(holderAt)
  /\ Goto("llm")
  /\ UNCHANGED <<lifeVars, queueVars, msg, aed, transient, rounds, sleepState,
                 outcome, effect, base, live, holderAt, sig, flagVars,
                 noteVars, syncVars, hbVars>>

\* session.send(tool_results); an abandoned batch has none to append.
HasResults == effect \notin Aborted

SendResults ==
  /\ pc = "send_results" /\ Undisturbed
  /\ IF HasResults THEN CommitResults ELSE UNCHANGED <<base, top, live, holderAt>>
  /\ sendKind' = "results" /\ inflight' = Visible(holderAt')
  /\ Goto("llm")
  /\ UNCHANGED <<lifeVars, queueVars, msg, aed, transient, rounds, sleepState,
                 outcome, effect, batch, sig, flagVars, noteVars, syncVars,
                 hbVars>>

\* session.send(None): the wire is driven as it stands.
SendNone ==
  /\ pc = "send_none" /\ Undisturbed
  /\ sendKind' = "none" /\ inflight' = Visible(holderAt)
  /\ Goto("llm")
  /\ UNCHANGED <<lifeVars, queueVars, msg, aed, transient, rounds, sleepState,
                 outcome, effect, wireVars, live, holderAt, sig, flagVars,
                 noteVars, syncVars, hbVars>>

\* After a tool-loop round come the housekeeping and the next iteration, after
\* a first send the entry of _process_response.
Answered == IF sendKind = "results" THEN BeginSync("loop") ELSE Goto("entered")

\* An answer: text alone, or a batch of tool calls.
MayPublish == kernelNotes < MaxKernelNotes

LlmAnswer(kind) ==
  /\ pc = "llm"
  /\ kind = "calls" => rounds < MaxRounds \/ MayPublish
  /\ AppendAssistant(kind)
  /\ seen' = seen \cup inflight
  /\ outcome' = kind
  /\ Answered
  /\ inflight' = {}
  /\ UNCHANGED <<lifeVars, queueVars, msg, aed, transient, rounds, sleepState,
                 sendKind, effect, sig, flagVars, files, fp,
                 published, kernelNotes, syncVars, hbVars>>

\* A well-formed answer with neither text, calls nor thoughts: nothing is
\* appended and nothing rolled back.
LlmEmpty ==
  /\ pc = "llm" /\ "empty" \in Faults
  /\ outcome' = "empty"
  /\ Answered
  /\ inflight' = {}
  /\ UNCHANGED <<lifeVars, queueVars, msg, aed, transient, rounds, sleepState,
                 sendKind, effect, wireVars, live, holderAt, sig, flagVars,
                 noteVars, syncVars, hbVars>>

\* The adapter rolls back what send appended; after a tool batch the run loop
\* commits the same results again; a wake that appended nothing closes dangling
\* calls.
CommitsAgain == sendKind = "results" /\ HasResults

RollBack ==
  \/ /\ sendKind # "none" /\ ~CommitsAgain
     /\ DropTrailing
     /\ UNCHANGED <<base, batch>>
  \/ /\ CommitsAgain /\ batch = "open"
     /\ batch' = "none"
     /\ UNCHANGED <<base, top, live, holderAt>>
  \/ /\ CommitsAgain /\ batch # "open"
     /\ top' = IF base = "calls" THEN "results" ELSE "none"
     /\ batch' = "none"
     /\ HolderDropped
     /\ UNCHANGED base
  \/ /\ sendKind = "none"
     /\ ClosePending
     /\ UNCHANGED <<live, holderAt>>

\* The provider call raises.
LlmFail(f) ==
  /\ pc = "llm" /\ f \in Faults \cap {"transient", "hard"}
  /\ RollBack
  /\ outcome' = f
  /\ Goto("error")
  /\ inflight' = {}
  /\ UNCHANGED <<lifeVars, queueVars, msg, aed, transient, rounds, sleepState,
                 sendKind, effect, sig, flagVars, noteVars, syncVars,
                 hbVars>>

\* WorkerStillRunningError: the worker outlived the timeout and its grace.
LlmHang ==
  /\ pc = "llm" /\ "hang" \in Faults
  /\ Goto("hang")
  /\ inflight' = {}
  /\ UNCHANGED <<lifeVars, queueVars, turnVars, wireVars, live, holderAt, sig,
                 flagVars, noteVars, syncVars, hbVars>>

-----------------------------------------------------------------------------
(***************************************************************************)
(* The run loop: _process_response.                                        *)
(***************************************************************************)

\* A cancel raised while the first LLM call ran is dropped here.
EnterProcessing ==
  /\ pc = "entered"
  /\ cancel' = FALSE
  /\ Goto("loop")
  /\ UNCHANGED <<state, asleep, shutdown, queueVars, turnVars, wireVars,
                 holdVars, flagVars, noteVars, syncVars, hbVars>>

RaiseEmpty ==
  /\ pc = "loop" /\ outcome = "empty"
  /\ outcome' = "transient"
  /\ Goto("error")
  /\ UNCHANGED <<lifeVars, queueVars, msg, aed, transient, rounds, sleepState,
                 sendKind, effect, wireVars, holdVars, flagVars, noteVars,
                 syncVars, hbVars>>

FinalText ==
  /\ pc = "loop" /\ outcome = "reply"
  /\ Finish
  /\ UNCHANGED <<lifeVars, queueVars, turnVars, wireVars, holdVars, flagVars,
                 noteVars, syncVars, hbVars>>

\* Calls answered by a cancel are left dangling on the wire.
CancelBeforeDispatch ==
  /\ pc = "loop" /\ outcome = "calls" /\ cancel
  /\ cancel' = FALSE
  /\ batch' = "none"
  /\ Finish
  /\ UNCHANGED <<state, asleep, shutdown, queueVars, turnVars, base, top,
                 holdVars, flagVars, noteVars, syncVars, hbVars>>

\* _handle_guarded_non_dispatch: the calls are answered by placeholders and
\* the stop is published as a notification.
GuardStops ==
  /\ pc = "loop" /\ outcome = "calls" /\ ~cancel /\ rounds = MaxRounds
  /\ top' = IF Pending THEN "results" ELSE top
  /\ batch' = "none"
  /\ PublishKernelNote
  /\ kernelNotes' = kernelNotes + 1
  /\ Finish
  /\ UNCHANGED <<lifeVars, queueVars, turnVars, base, holderAt, inflight,
                 flagVars, sat, woke, hbVars>>

Dispatch(e) ==
  /\ pc = "loop" /\ outcome = "calls" /\ ~cancel /\ rounds < MaxRounds
  /\ e \in ToolEffects /\ (e = "molt" => MayPublish)
  /\ rounds' = rounds + 1
  /\ effect' = e
  /\ Goto("exec")
  /\ UNCHANGED <<lifeVars, queueVars, msg, aed, transient, sleepState,
                 sendKind, outcome, wireVars, holdVars, flagVars, noteVars,
                 syncVars, hbVars>>

\* notification(action="dismiss")
ToolDismiss ==
  /\ effect = "dismiss"
  /\ \E n \in files : files' = files \ {n}
  /\ UNCHANGED <<state, asleep, cancel, fp, published, kernelNotes, seen,
                 wireVars, live, holderAt, sig, snap>>

\* system(action="sleep"): refused with undelivered notifications unless forced.
ToolSleep ==
  /\ \/ effect = "force_sleep"
     \/ effect = "sleep" /\ files = fp
  /\ state' = "ASLEEP" /\ asleep' = TRUE /\ cancel' = TRUE
  /\ UNCHANGED <<noteVars, wireVars, live, holderAt, sig, snap>>

\* psyche(context, molt): a fresh history that ends in the molt's own call; the
\* fingerprint and the holder are reset, and the post-molt notification written.
ToolMolt ==
  /\ effect = "molt"
  /\ base' = "calls" /\ top' = "none" /\ batch' = "open"
  /\ files' = files \cup {KernelNote}
  /\ published' = published \cup {KernelNote}
  /\ fp' = {} /\ seen' = seen \ {KernelNote}
  /\ live' = {} /\ holderAt' = "none"
  /\ sig' = sig \ {KernelNote}
  /\ snap' = [t \in Threads |-> snap[t] \ {KernelNote}]
  /\ kernelNotes' = kernelNotes + 1
  /\ UNCHANGED <<state, asleep, cancel>>

ToolOther ==
  /\ \/ effect \in {"plain", "poll"}
     \/ effect = "dismiss" /\ files = {}
     \/ effect = "sleep" /\ files # fp
  /\ UNCHANGED <<state, asleep, cancel, noteVars, wireVars, live, holderAt, sig,
                 snap>>

ExecuteTools ==
  /\ pc = "exec"
  /\ ToolDismiss \/ ToolSleep \/ ToolMolt \/ ToolOther
  /\ Goto("attach")
  /\ UNCHANGED <<shutdown, queueVars, turnVars, inflight, flagVars, sat, woke,
                 hbVars>>

\* ToolExecutor looks at the cancel event before each call of a batch and
\* between finished ones: what has run by then keeps its effect, and the
\* executor returns no results at all.
AbortTools ==
  /\ pc \in {"exec", "attach"} /\ cancel /\ HasResults
  /\ effect' = IF effect = "molt" THEN "aborted_molt" ELSE "aborted"
  /\ Goto("attach")
  /\ UNCHANGED <<lifeVars, queueVars, msg, aed, transient, rounds, sleepState,
                 sendKind, outcome, wireVars, holdVars, flagVars, noteVars,
                 syncVars, hbVars>>

\* attach_active_notifications, skipped for a molt batch.  The batch carries
\* the payload, a changed one or one asked for; or an unchanged payload stays
\* where it is; or no result of the batch can carry it.
HasMolt == effect \in {"molt", "aborted_molt"}

AttachCleared ==
  /\ HasMolt \/ files = {}
  /\ Skeletonize
  /\ sig' = IF HasMolt THEN sig ELSE {}
  /\ Goto("after")

AttachStamped ==
  /\ HasResults /\ ~HasMolt /\ files # {}
  /\ live' = files /\ holderAt' = "batch" /\ sig' = files
  /\ Goto("commit")

AttachKept ==
  /\ HasResults /\ ~HasMolt /\ files # {} /\ sig = files /\ holderAt # "none"
  /\ Goto("commit")
  /\ UNCHANGED <<live, holderAt, sig>>

AttachNowhere ==
  /\ ~HasMolt /\ files # {}
  /\ Goto("after")
  /\ UNCHANGED <<live, holderAt, sig>>

Attach ==
  /\ pc = "attach"
  /\ "overlap" \in Windows \/ \A t \in Pollers : sat[t] = "idle"
  /\ AttachCleared \/ AttachStamped \/ AttachKept \/ AttachNowhere
  /\ UNCHANGED <<lifeVars, queueVars, turnVars, wireVars, inflight, flagVars,
                 noteVars, syncVars, hbVars>>

\* _commit_notification_fp reads the directory again.
CommitFingerprint ==
  /\ pc = "commit"
  /\ fp' = files
  /\ Goto("after")
  /\ UNCHANGED <<lifeVars, queueVars, turnVars, wireVars, holdVars, flagVars,
                 files, published, kernelNotes, seen, syncVars, hbVars>>

\* A cancel that came while the tools ran, or a poll that found nothing: the
\* results, if there are any, are committed, and the turn ends without another
\* call.
StopAfterTools ==
  /\ pc = "after" /\ (effect = "poll" \/ cancel)
  /\ IF HasResults THEN CommitResults ELSE UNCHANGED <<base, top, live, holderAt>>
  /\ batch' = "none"
  /\ cancel' = FALSE
  /\ Finish
  /\ UNCHANGED <<state, asleep, shutdown, queueVars, turnVars, sig, inflight,
                 flagVars, noteVars, syncVars, hbVars>>

ContinueAfterTools ==
  /\ pc = "after" /\ effect # "poll" /\ ~cancel
  /\ Goto("send_results")
  /\ UNCHANGED <<lifeVars, queueVars, turnVars, wireVars, holdVars, flagVars,
                 noteVars, syncVars, hbVars>>

-----------------------------------------------------------------------------
(***************************************************************************)
(* The run loop: AED, automatic error detection.                           *)
(***************************************************************************)

\* Faulty: transient failures are retried without a limit.
RetryTransientAlways ==
  /\ pc = "error" /\ outcome = "transient"
  /\ transient' = transient + 1
  /\ ClosePending
  /\ msg' = "request"
  /\ Goto("turn")
  /\ UNCHANGED <<lifeVars, queueVars, aed, rounds, sleepState, sendKind,
                 outcome, effect, holdVars, flagVars, noteVars, syncVars,
                 hbVars>>

\* A transient failure is retried after a backoff, with a recovery prompt in
\* place of the message; the state stays what it was.
RetryTransient ==
  /\ pc = "error" /\ outcome = "transient" /\ transient < MaxTransient
  /\ transient' = transient + 1
  /\ ClosePending
  /\ msg' = "request"
  /\ Goto("turn")
  /\ UNCHANGED <<lifeVars, queueVars, aed, rounds, sleepState, sendKind,
                 outcome, effect, holdVars, flagVars, noteVars, syncVars,
                 hbVars>>

\* Faulty: the attempt is not counted.
CountAttemptLost ==
  /\ pc = "error" /\ (outcome # "transient" \/ transient = MaxTransient)
  /\ ClosePending
  /\ state' = "STUCK"
  /\ Goto("aed")
  /\ UNCHANGED <<asleep, cancel, shutdown, queueVars, aed, msg, transient,
                 rounds, sleepState, sendKind, outcome, effect, holdVars,
                 flagVars, noteVars, syncVars, hbVars>>

\* Any other failure is counted, and shows as STUCK while it is dealt with.
CountAttempt ==
  /\ pc = "error" /\ (outcome # "transient" \/ transient = MaxTransient)
  /\ aed' = aed + 1
  /\ ClosePending
  /\ state' = "STUCK"
  /\ Goto("aed")
  /\ UNCHANGED <<asleep, cancel, shutdown, queueVars, msg, transient, rounds,
                 sleepState, sendKind, outcome, effect, holdVars, flagVars,
                 noteVars, syncVars, hbVars>>

\* The session is rebuilt and the recovery prompt handled as a new message.
Recover ==
  /\ pc = "aed" /\ aed < MaxAed
  /\ msg' = "request"
  /\ state' = "ACTIVE"
  /\ Goto("turn")
  /\ UNCHANGED <<asleep, cancel, shutdown, queueVars, aed, transient, rounds,
                 sleepState, sendKind, outcome, effect, wireVars, holdVars,
                 flagVars, noteVars, syncVars, hbVars>>

\* Last attempt: once per process the default preset is activated and the
\* process relaunched; the run loop returns whatever the refresh did.
FallBack ==
  /\ pc = "aed" /\ aed = MaxAed /\ CanFallback /\ ~fellBack
  /\ fellBack' = TRUE
  /\ PerformRefresh
  /\ Goto("exit")
  /\ UNCHANGED <<state, asleep, queueVars, turnVars, wireVars, holdVars,
                 poisoned, refreshReq, noteVars, syncVars, hbVars>>

\* Otherwise, or when activating the preset fails, the agent gives up until
\* the next message.
GiveUp ==
  /\ pc = "aed" /\ aed = MaxAed
  /\ fellBack' = (fellBack \/ CanFallback)
  /\ sleepState' = "ASLEEP"
  /\ asleep' = TRUE
  /\ Goto("turn_end")
  /\ UNCHANGED <<state, cancel, shutdown, queueVars, msg, aed, transient,
                 rounds, sendKind, outcome, effect, wireVars, holdVars,
                 poisoned, refreshReq, noteVars, syncVars, hbVars>>

\* A hung worker: poison mark and published notification ...
MarkPoisoned ==
  /\ pc = "hang" /\ ~poisoned
  /\ poisoned' = TRUE
  /\ PublishKernelNote
  /\ state' = "STUCK"
  /\ Goto("hang")
  /\ UNCHANGED <<asleep, cancel, shutdown, queueVars, turnVars, wireVars,
                 holderAt, inflight, refreshReq, fellBack, kernelNotes, sat, woke,
                 hbVars>>

\* ... then the forced refresh, and sleep.
SleepPoisoned ==
  /\ pc = "hang" /\ poisoned
  /\ RequestRefresh
  /\ asleep' = TRUE /\ state' = "ASLEEP" /\ sleepState' = "ASLEEP"
  /\ Goto("turn_end")
  /\ UNCHANGED <<queueVars, msg, aed, transient, rounds, sendKind, outcome,
                 effect, wireVars, holdVars, poisoned, fellBack, noteVars,
                 syncVars, hbVars>>

-----------------------------------------------------------------------------
(***************************************************************************)
(* The run loop: the end of a turn.                                        *)
(***************************************************************************)

\* sleep_state is written only when nobody has set the asleep event.
EndTurn ==
  /\ pc = "turn_end"
  /\ state' = IF asleep THEN state ELSE sleepState
  /\ Goto("idle_check")
  /\ UNCHANGED <<asleep, cancel, shutdown, queueVars, turnVars, wireVars,
                 holdVars, flagVars, noteVars, syncVars, hbVars>>

\* The locals of a turn die with it.
TurnLocals ==
  /\ msg' = "request" /\ aed' = 0 /\ transient' = 0 /\ rounds' = 0
  /\ sleepState' = "IDLE" /\ sendKind' = "none"
  /\ outcome' = "reply" /\ effect' = "plain"

\* Pending notifications are looked for once the state shows IDLE.
IdleCheck ==
  /\ pc = "idle_check"
  /\ IF sleepState = "IDLE" /\ ~asleep /\ files # fp /\ files # {}
     THEN BeginSync("top") ELSE Goto("top")
  /\ TurnLocals
  /\ UNCHANGED <<lifeVars, queueVars, wireVars, holdVars, flagVars, noteVars,
                 syncVars, hbVars>>

-----------------------------------------------------------------------------
(***************************************************************************)
(* The heartbeat thread: signal files and timeouts, between syncs.         *)
(***************************************************************************)

BetweenSyncs == hb = "tick" /\ ("hb" \in Pollers => sat["hb"] = "idle")

Drop(signal) ==
  /\ signal \in left /\ ~shutdown /\ BetweenSyncs
  /\ left' = left \ {signal}

HbInterrupt ==
  /\ Drop("interrupt")
  /\ cancel' = TRUE
  /\ UNCHANGED <<state, asleep, shutdown, queueVars, pc, back, turnVars,
                 wireVars, holdVars, flagVars, noteVars, syncVars, hb>>

HbSuspend ==
  /\ Drop("suspend")
  /\ cancel' = TRUE /\ state' = "SUSPENDED" /\ shutdown' = TRUE
  /\ UNCHANGED <<asleep, queueVars, pc, back, turnVars, wireVars, holdVars,
                 flagVars, noteVars, syncVars, hb>>

\* _perform_refresh, and shutdown whatever came of it.
HbRefresh ==
  /\ Drop("refresh")
  /\ shutdown' = TRUE
  /\ cancel' = TRUE \/ ("refresh" \in Faults /\ UNCHANGED cancel)
  /\ UNCHANGED <<state, asleep, queueVars, pc, back, turnVars, wireVars,
                 holdVars, flagVars, noteVars, syncVars, hb>>

\* The state is written first, the asleep event a moment later.
HbSleep ==
  /\ Drop("sleep")
  /\ cancel' = TRUE /\ state' = "ASLEEP" /\ hb' = "sleeping"
  /\ UNCHANGED <<asleep, shutdown, queueVars, pc, back, turnVars, wireVars,
                 holdVars, flagVars, noteVars, syncVars>>

\* _maybe_sleep_after_idle_timeout
HbIdleTimeout ==
  /\ Drop("idle_timeout") /\ state = "IDLE"
  /\ state' = "ASLEEP" /\ hb' = "sleeping"
  /\ UNCHANGED <<asleep, cancel, shutdown, queueVars, pc, back, turnVars,
                 wireVars, holdVars, flagVars, noteVars, syncVars>>

\* The safety net over a STUCK agent, config.aed_timeout.
HbAedTimeout ==
  /\ state = "STUCK" /\ ~shutdown /\ BetweenSyncs
  /\ state' = "ASLEEP" /\ hb' = "sleeping"
  /\ UNCHANGED <<asleep, cancel, shutdown, queueVars, pc, back, turnVars,
                 wireVars, holdVars, flagVars, noteVars, syncVars, left>>

HbSetAsleep ==
  /\ hb = "sleeping"
  /\ asleep' = TRUE /\ hb' = "tick"
  /\ UNCHANGED <<state, cancel, shutdown, queueVars, pc, back, turnVars,
                 wireVars, holdVars, flagVars, noteVars, syncVars, left>>

-----------------------------------------------------------------------------
(***************************************************************************)
(* The environment: agent.send and the notification producers.             *)
(***************************************************************************)

PutRequest ==
  /\ sent < MaxRequests
  /\ sent' = sent + 1
  /\ inbox' = Append(inbox, "request")
  /\ UNCHANGED <<lifeVars, pc, back, turnVars, wireVars, holdVars, flagVars,
                 noteVars, syncVars, hbVars>>

Publish(n) ==
  /\ n \notin published
  /\ CommitWindow
  /\ files' = files \cup {n}
  /\ published' = published \cup {n}
  /\ UNCHANGED <<lifeVars, queueVars, pc, back, turnVars, wireVars, holdVars,
                 flagVars, fp, kernelNotes, seen, syncVars, hbVars>>

-----------------------------------------------------------------------------
Take == LoopExit \/ FallAsleep \/ BecomeAwake \/ TakeMessage \/ TakeTimeout
Begin == StartTurn \/ RefusePoisoned \/ HandleRequest \/ HandleTcWake
Call == SendText \/ SendResults \/ SendNone
Answer ==
  \/ \E kind \in {"reply", "calls"} : LlmAnswer(kind)
  \/ LlmEmpty
  \/ \E f \in {"transient", "hard"} : LlmFail(f)
  \/ LlmHang
Process ==
  \/ EnterProcessing \/ RaiseEmpty \/ FinalText \/ CancelBeforeDispatch
  \/ GuardStops \/ \E e \in AllEffects : Dispatch(e)
  \/ ExecuteTools \/ AbortTools \/ Attach \/ CommitFingerprint \/ StopAfterTools
  \/ ContinueAfterTools
Aed ==
  \/ RetryTransient \/ CountAttempt \/ Recover \/ FallBack \/ GiveUp
  \/ MarkPoisoned \/ SleepPoisoned
End == EndTurn \/ IdleCheck

RunLoop == Take \/ Begin \/ Call \/ Answer \/ Process \/ Aed \/ End

Heartbeat ==
  \/ HbInterrupt \/ HbSuspend \/ HbRefresh \/ HbSleep \/ HbIdleTimeout
  \/ HbAedTimeout \/ HbSetAsleep

Next ==
  \/ RunLoop
  \/ \E t \in Threads : Sync(t)
  \/ Heartbeat
  \/ PutRequest
  \/ \E n \in Notes : Publish(n)

\* The run loop and the heartbeat are daemon threads that never block for
\* good: inbox.get has a timeout, an LLM call has retry_timeout plus a grace,
\* a tick sleeps one second.  Nothing makes the environment act.
Fairness ==
  /\ WF_vars(RunLoop)
  /\ \A t \in Threads : WF_vars(Sync(t))
  /\ WF_vars(HbSetAsleep)
  /\ WF_vars(HbAedTimeout)

Spec == Init /\ [][Next]_vars
FairSpec == Spec /\ Fairness
-----------------------------------------------------------------------------
(***************************************************************************)
(* Properties.                                                             *)
(***************************************************************************)

\* No turn and no pass is under way.
Resting == /\ pc \in {"top", "block", "await", "idle_check"}
           /\ \A t \in Threads : sat[t] = "idle"
Alive == ~shutdown /\ ~poisoned

\* A fingerprint is committed whole: any difference delivers every file again.
Committed == IF files = fp THEN files ELSE {}

\* A notification whose fingerprint is committed is one the model has read, or
\* can read in the history the next time it is called.
NothingDropped ==
  Alive /\ Resting => Committed \subseteq seen \cup Visible(holderAt)

\* A committed notification the model has not read leaves a message in the
\* inbox: the loop never rests on it.
NoLostWake == Alive /\ Resting /\ inbox = <<>> => Committed \subseteq seen

\* Every notification is read by the model or cleared from disk.
NotificationSeen ==
  \A n \in Notes : n \in files ~> n \in seen \/ n \notin files \/ shutdown

\* A pass that found a difference goes on trying: the directory and the
\* fingerprint agree again, unless the process ends.
DeliveryRetried == files # fp ~> files = fp \/ shutdown

\* The worker of a hung call may still write the history: once it is marked
\* no thread of the agent starts to change it, and only one that had passed
\* its last check before the mark still does.
PastCheck == {t \in Threads : sat[t] \in {"clear", "append", "close"}}
FrozenStep ==
  poisoned => /\ PastCheck' \subseteq PastCheck
              /\ \/ UNCHANGED <<wireVars, live, holderAt>>
                 \/ PastCheck' # PastCheck
PoisonFrozen == [][FrozenStep]_vars

\* The history a sleeping agent saves can be appended to after a relaunch.
SleepWireAppendable == pc = "block" /\ ~poisoned => ~Pending

\* No turn is for ever: AED counts every failure that sends it round again.
TurnEnds == pc = "turn" ~> pc \in {"top", "exit"}

\* Shutdown is seen wherever the run loop is, a blocking wait included.
ShutdownStops == shutdown ~> pc = "exit"

\* A poisoned process does not stay: some thread asks for its refresh.
PoisonRefreshes == poisoned ~> shutdown
=============================================================================
