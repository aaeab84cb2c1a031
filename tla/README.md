# Verification of the LingTai agent kernel

This directory holds TLA+ models of the LingTai SDK (`src/src/lingtai_kernel`
and `src/src/lingtai`), the TLC configurations that check them on small
instances, and theorems about them that the TLAPS proof system checks.
`PROJECT.json` ties every definition to the lines it models, every property to a
plausible bug that breaks it, and every hazard to the properties that watch it.

Paths below are relative to `src/src/lingtai_kernel/` unless they start with
`lingtai/` (then relative to `src/src/`).

## 1. The system

An agent is one Python process with one working directory. In the process:

| thread | code | what it does |
|---|---|---|
| run loop | `base_agent/turn.py` `_run_loop` | takes a message from the inbox queue, drives LLM calls and tool batches, recovers from errors (AED) |
| heartbeat | `base_agent/lifecycle.py` `_heartbeat_loop` | once a second: signal files, timeouts, one pass over `.notification/` |
| soul timer | `intrinsics/soul/flow.py` | side consultations; one pass over `.notification/` when the agent is idle |
| LLM worker | `llm_utils.py` | the provider call, on a pool thread that may outlive its timeout |
| producers | mail poller, MCP inbox, bash watchers, daemons, mailmen | write `.notification/*.json` |

None of the first three holds a lock over what they share: the life cycle state
and its events, the inbox, the committed fingerprint of `.notification/`, and
the chat history. Other processes come and go around it: the refresh watcher
that relaunches the agent, daemons, MCP servers, other agents that write into
its mailbox.

### Inventory

| component | state it keeps | operations | interacts with | what makes it correct |
|---|---|---|---|---|
| Run loop and AED (`base_agent/turn.py`) | message in hand, `aed_attempts`, `transient_attempts`, `sleep_state` | take, wake, handle request, handle wake, process response, retry, count, rebuild, fall back, give up | inbox, history, executor, life cycle | turns end; shutdown is seen; a sleeping agent is left in a state that can be resumed |
| Notification delivery (`base_agent/__init__.py`, `meta_block.py`) | `_notification_fp`, live holder, payload signature | pass, heal, inject pair, wake, degrade, attach to a batch, commit | store, history, inbox, state | a committed notification was read, or will be; nothing is committed and forgotten |
| Heartbeat and signals (`base_agent/lifecycle.py`) | state, events, AED clock | interrupt, suspend, sleep, refresh, clear, timeouts | run loop through the events | no signal puts the agent in a state no other step leaves |
| Worker recovery (`base_agent/worker_recovery.py`, `llm_utils.py`) | poison mark, refresh request | mark, publish, request once, settle grace | everybody who writes the history | a poisoned history is not written, and the process is replaced |
| Chat history (`llm/interface.py`) | entries, current prompt, deferred prompt | append, close, pair, commit results, drop, reload | adapters, loop, molt, delivery | a request shows each call with its result, once, and the true result |
| Session and adapters (`session.py`, `llm/base.py`, `lingtai/llm/*`) | provider session | send, health check, trim on overflow, roll back | history | a failed send leaves the history as it was but for what must stay |
| Molt (`intrinsics/psyche/_molt.py`) | a fresh history | replay the last entries and its own call | history, delivery | the new history is well formed |
| Tool executor (`tool_executor.py`) | guard counters, event log | run a batch, cancel | history, event log | a tool that ran is accounted for |
| Notification store (`notifications.py`) | `.notification/*.json` | publish, submit, dismiss, fingerprint | producers, delivery | a newer content is not dismissed with an older one |
| Mail (`services/mail.py`, `intrinsics/email/`) | inbox, outbox, sent, read marks, `_seen` | send, deliver, archive, bounce, claim, roll back, poll, mark | store, other agents | a mail accepted is delivered, once, or its sender is told |
| Refresh watcher and lock (`base_agent/lifecycle.py`, `workdir.py`, `lingtai/cli.py`) | `.refresh.taken`, `.agent.lock`, `.agent.heartbeat` | hand over, check for duplicates, relaunch, rebuild the log index | old and new process | one process at a time; one in the end, or an alert |
| Daemon manager (`lingtai/core/daemon/`) | table of runs, run directories, process groups | emanate, ask, time out, reclaim, done-callback, restart | store | each run's end is reported once, with the right state |
| Bash jobs (`lingtai/core/bash/`) | job directories, handles | start, poll, cancel, watch | store | an answer "over" is true; every job that is polled for is answered |
| MCP client and event inbox (`lingtai/core/mcp/`, `lingtai/services/mcp.py`) | background loop, sessions, event files, registry | start, call, restart, close; scan, consume, dead letter, announce; register | store, MCP servers | a call returns; an event is announced, once per event file; a declared server is registered |
| MCP servers (`lingtai/mcp_servers/`) | cursors, seen ids, stores of messages, duplicate guards, mailbox connections | receive, mark, store, push, answer; read, send, clear; move, delete | event inbox, platforms | each keeps its promise (at most once, at least once) through crashes |
| Provider sessions (`lingtai/llm/*`) | the provider's own history, delta baselines | send, roll back, rebuild, continue over REST or WebSocket | history, loop | the model is shown what happened, once |
| Logs and totals (`services/logging.py`, `base_agent` token ledger) | `events.jsonl`, `log.sqlite`, ledger | append, index, rebuild, restore | boot, session | derived totals agree with the log |
| Live blocks and pressure (`meta_block.py`, `reminders/`) | the payload's holder, streak, pending event | stamp, strip, restore, warn | executor, history | the payload is not lost; a warning is given once |
| Set-up (`lingtai/agent.py`, `presets.py`) | `init.json`, presets, prompt sections | boot, swap, fall back, reload | molt, refresh | the chosen preset boots; a molt composes what a boot would |
| Avatars (`lingtai/core/avatar/`) | ledger, `.rules`, processes | spawn, report, set and distribute rules | children's directories | the ledger is true; rules reach all descendants |
| Soul (`intrinsics/soul/`) | timer, fire lock, channel, `.inquiry` | arm, cancel, fire, consult, answer | run loop, heartbeat, store | the channel has the last fire's voices; a consultation's chat is legal |
| Timed-call inbox (`tc_inbox.py`) | queue of call/result pairs | enqueue, coalesce, drain, splice, requeue | run loop, history | a pair is in the history at most once |
| Search and paged reads (`services/file_io*.py`, `core/grep`, `core/glob`, `core/read`, the Rust sidecar) | one search's cap and stop flag, a page's position | walk, filter, cap, read a page | the model | what was left out is said |
| Everything else | | | knowledge, skills, catalog, vision, web search, auth, retention, migration, nudges | listed in `PROJECT.json` with the reason why it is not modelled |

### What is hard

The hazards are in `PROJECT.json`, each at its line. Most come from three facts:
state is read, then a slow step is made, then the state is used (the
notification pass, the sleep signal, the fingerprint commit); a failure is
recovered from by several mechanisms at once (the adapter's roll-back, the
loop's re-commit of results, AED's placeholders, the health check, the pairing
enforcement); and whatever is *committed* must stay true when the step it was
committed for does not happen after all (a cancelled batch, a failed send, a
crash).

## 2. Modules

| module | models | run |
|---|---|---|
| `AgentLoop`, `MCAgentLoop` | run loop, heartbeat, soul timer, notification passes | `loop_*` |
| `ChatInterface`, `MCChatInterface` | the chat history and everybody who writes it | `sessions`, `chat_*` |
| `NotificationStore` | the merged system channel: producers, goal reminders, dismissals, under one lock | `services` |
| `BashJobs` | background jobs, their watchers and the one temporary file the watchers share | `services` |
| `Delivery` | **abstract**: a channel that hands each message on at most once, at least once, or as it can | implemented by `ChatBridge` |
| `McpInbox` | the file inbox between MCP servers and the agent | `channels` |
| `ChatBridge` | how six kinds of server take a message in; composed with `McpInbox`, implements `Delivery` | `channels` |
| `Mail` | outbox, mailmen, pollers, claims, bounces, the mail digest | `channels` |
| `DaemonManager` | daemon runs, their pools, watchdogs, command lines and announcements | `processes` |
| `Relaunch` | the processes of one directory: duplicate check, lock, heartbeat, watcher | `processes` |
| `McpClient` | the loop thread of a server's connection, calls, restarts, refreshes | `processes` |
| `ToolBatch` | one batch of tool calls, sequential or in a pool with a deadline | `processes` |
| `ProviderTurn` | one request to a provider, for five kinds of adapter | `sessions` |
| `CodexSession` | delta continuation over REST and WebSocket | `sessions` |
| `Consultation`, `SoulFlow` | a consultation's chat; timer, fires, inquiries | `sessions` |
| `TimedCalls` | the queue of call/result pairs and their splicing | `sessions` |
| `SessionLog` | event log, index, ledger, totals restored | `sessions` |
| `LiveMeta`, `Pressure` | the live blocks on results; context-pressure warnings | `sessions` |
| `AgentSetup` | presets, boots, fallback, prompt sections | `sessions`, `character_overwritten` |
| `Avatars` | spawn, ledger, rules down the tree | `sessions` |
| `ChatDesk`, `Mailbox` | what the agent does with a channel; IMAP commands with a retry | `sessions` |
| `McpRegistry` | the registry file, boots and hand edits | `sessions` |
| `FileSearch` | grep, glob and paged reads, in Python and in the sidecar | `sessions` |
| `Subsequence` | the part of a sequence at given places, in order; used by `LiveMeta`, `ChatDesk` and `McpRegistry` | |
| `MCChannels`, `MCServices`, `MCSessions`, `MCProcesses` | the instances of the modules above | |
| `AgentLoopProofs`, `HistoryProofs` (`ChatInterface`, `Consultation`, `TimedCalls`, `FileSearch`), `CodexProofs` (`CodexSession`, `ProviderTurn`), `ProcessesProofs` (`ToolBatch`, `Relaunch`, `DaemonManager`, `McpClient`), `ServicesProofs` (`BashJobs`, `NotificationStore`), `ChannelsProofs` (`Mail`, `ChatBridge`, `McpInbox`), `AgentsProofs` (`AgentSetup`, `Avatars`, `McpRegistry`, `SessionLog`), `SessionsProofs` (`LiveMeta`, `Pressure`, `SoulFlow`, `ChatDesk`, `Mailbox`, and `MCSessions` as a whole) | theorems | |

`AgentLoop` and `ChatInterface` meet at the chat history. `AgentLoop` keeps three facts of it
(what the last non-user entry is, what trails it, where the live notification
payload sits), enough for delivery, and lets three threads interleave between
any two steps. `ChatInterface` keeps every entry with the ids it calls and
answers, and takes one writer at a time.

### AgentLoop

`state`, `asleep`, `cancel`, `shutdown`, `inbox` are the fields of the same
names of the agent. `pc` is where the run loop is, one label for each stretch of
`_run_loop`, `_handle_request`, `_handle_tc_wake` and `_process_response`
between two points where another thread can matter; `back` is where it goes on
after a notification pass of its own. `sat[t]` is the step of
`_sync_notifications` that thread `t` is in, `snap[t]` the fingerprint it has
read: a pass is not atomic in the code, and is a dozen steps here.

* The fingerprint is the set of files on disk, so `files # fp` is the code's
  `fp != self._notification_fp`. A kernel notification that is published again
  is taken out of `fp`, `seen` and the payloads: a rewritten file is new.
* `live` and `holderAt` are the one live payload and where it is: in the results
  of the batch being run, in the trailing user entry (which a failed send
  drops: it is "gone" then, and still the holder), or deeper. `inflight` is what
  the LLM call in flight carries; an answer adds it to the history variable `seen`.
* A batch of tool calls has one effect: nothing, a dismissal, a sleep (refused
  when there are undelivered notifications, or forced), a molt, a poll that ends
  the turn. A cancel may abort it (`AbortTools`): what ran keeps its effect and
  there are no results. A refresh by tool has the effect of `HbRefresh`.
* An LLM call may give text or calls, an empty answer, a transient or a hard
  error, or hang (`Faults`). `RollBack` is what the adapter and the loop do to
  the history on an error.

Not modelled here: the contents of messages, `.clear` (a molt on the heartbeat
thread) and `.inquiry`, the auto-insight call, agent meta blocks; the intercepted
path, which ends a turn as `StopAfterTools` does; what a poll that finds nothing
does in a batch that was aborted.

### ChatInterface

`chat` is the object: entries, `_current_system_text` (`current`) and
`_pending_system` (`deferred`). An entry has a role, the ids it calls, the ids
it answers, and which of those answers are real (`real`), as opposed to
placeholders. `logged` is the event log, which outlives a crash; `disk` is
`history/chat_history.jsonl`. `phase` tells a request in flight and a batch being
run from neither. The operators `Close`, `AddResults`, `StripOrphans`,
`DropUsers`, `Trim`, `Flush` and `KeepLast` are the methods of the class and of
the session base class, translated; the actions compose them in the order the
callers do (`SendText` is `session.send`: prompt, tools, health check, append,
pairing).

`Races` are two ways in which the history is written that break
`OneResultPerId` in this code: `"late"`, a worker that answers tool results with
new calls within the settle grace, and `"inject"`, a notification pair injected
between the check for pending calls and its append, while a batch runs. The
first is the finding of `chat_duplicate_result`; both are off in `sessions`,
which shows that they are the only ones in that instance. An empty answer, a
molt with `keep_tool_calls` and a cancelled batch whose turn goes on are not in
this module (the first and the last are in `AgentLoop`).

### Messages that come in

`Delivery` is what a channel promises: a message is unsent, waiting, handed or
lost, and the promise says whether a waiting one may be lost (not at least once)
and a handed one handed again (not at most once). `ChatBridge` has the servers:
each *fetches* or receives, *marks* (cursor, watermark, replay key), *stores*,
*pushes* an event and *answers*, in an order of its own, one action for each,
with a crash or a failed write between any two. `Promise`, `Fate` and `Copies`
are the refinement mapping, and `KeepsPromise == Contract!Spec` is the
refinement, liveness included. The servers' events go into the files of
`McpInbox`, whose sweep runs on the agent: the two modules share these files and
interleave freely. `Mail` has the letters between agents and the claims of a
person's mail by several agents, one thread for each mailman and poller. A mailman
dispatches, removes the outbox entry and tells the sender of a refusal in three steps
(`mlStep`), as `_mailman` does: a crash or an exception between them strands the entry
or loses the bounce, and nothing repairs it. `Accounted` and `LetterSettles` say that
these are the only ways. A roll-back of a claim removes the copy and puts the claim
back as far as it can; `mlKept` remembers the copies it left behind.

### Processes

`Relaunch` has up to four processes of a directory, each with the duplicate
check, the heartbeat look, the lock and its inode, the boot and the stop as
separate steps, beside the watcher of a refresh. `DaemonManager` keeps a record
for each run (its worker, its directory, its command) and for each batch (its
pool, cancel event and watchdog); ids are used again after a reclaim, so that a
late callback may find another run under its handle. `McpClient` has the main
thread, the background loops of a connection and a server that may die; a connection
has its session before the handshake (`"initializing"`), and one that fails keeps it.
`ToolBatch` has every call's thread, guard and log entry.

### What a session keeps

`ProviderTurn` compares what was sent with what the provider has, for five
adapters: who keeps the history, who rolls back, what a rebuild of the session
keeps. `CodexSession` refines one of them: which items go over the wire after
which response id. `LiveMeta` and `Pressure` have the blocks stamped on tool
results; what the channels hold, all together, is one value there, which may come back
and may be written in another form (another fingerprint, the same signature).
`TimedCalls` has what is spliced between them, `SessionLog` what is derived
from the log. `SoulFlow` has each fire's thread, which may fail between its record and
the channel and then fail to record that (`"mute"`). `AgentSetup`, `Avatars`, `McpRegistry` have files that the
operator edits while the agent runs: an edit is an action that may fall anywhere.
`ChatDesk` and `Mailbox` have the tool calls that talk to the outside and are
made again after an error. `FileSearch` has the two engines of a search, the
second with one action per thread of its parallel walk.

A definition whose comment begins with "A bug" or "Bug" is a plausible mistake
in the definition that follows it. No action uses it: it is there to show that
the properties see the difference (`PROJECT.json`, `mutants`), and a few are
kept for comparison only.

## 3. Runs

All runs allow the system to stop (`CHECK_DEADLOCK FALSE`): an agent with no
messages, or one that has exited, rightly takes no step.

| run | instance | shows |
|---|---|---|
| `loop_delivery` | a mail and a kernel notification, one request, three threads, dismissals and molts, no signals or faults | `NotificationSeen`: every notification is read or cleared. `NoLostWake`: at rest nothing is committed unread unless a message waits in the inbox |
| `loop_signals` | interrupt, sleep, refresh and idle timeout at any time, a hung worker, a refresh that may fail, sleeps by tool, polls | `NothingDropped`: what is committed was read, or stands in the history. `SleepWireAppendable`: no dangling calls under a sleeping agent |
| `loop_faults` | empty answers, transient errors, a hang, a suspend, passes that overlap, a fingerprint that is committed late, preset fallback | `TypeOK`, `PoisonFrozen`, `TurnEnds`, `ShutdownStops`, `PoisonRefreshes` |
| `loop_lost_mail` | as `loop_delivery` with a sleep by tool | **violated**: `NoLostWake` |
| `loop_deaf_sleep` | a sleep signal and a request | **violated**: `DeliveryRetried` |
| `chat_lost_prompt` | the history alone, without trims | **violated**: `PromptReachesModel` |
| `chat_duplicate_result` | the same with a late answer | **violated**: `OneResultPerId` |
| `channels` | six kinds of bridge with 2 messages, pages of 1 and 2 rows; mail between two agents and a person | `KeepsPromise`, `FileAnnounced`, `AnnouncedOnce`, `ToldPerEvent`; `Accounted`, `LetterSettles`, `ClaimedOnce`, `AnnouncedToOne`, `PersonHeard` |
| `services` | one producer thread, heartbeat and run loop on the system channel; two jobs, one of which ignores SIGTERM, and a restart | `UnreadKept`, `OneReminder`, `StaleReminderGoes`; `OverIsOver`, `PollAnswers` |
| `processes` | seven plans of daemon batches, a refresh, a rebuild, an MCP client, a batch of 2 tools | `EndAnnounced`, `EndsAsTold`, `OneAgent`, `AgentComesBack`, `RawPreserved`, `AllEnd` |
| `sessions` | 21 parts, see below | `SessionTypes`, `HistoryLegal`, `ShownOnce`, `ModelSeesHistory`, `NoticesKept`, `DerivedAgrees`, `DesksKeep`, `StartsWell` |
| `character_overwritten` | `AgentSetup` | **violated**: `SelfAuthoredWins` |

The last four passing runs check several modules that share no variable. Their
MC module has a variable `part` that picks which one moves, while the others
stay in one initial state: TLC explores the sum of the parts and not their
product, and nothing is lost, since the components do not interact there. Those
that do are composed for good: `ChatBridge` with `McpInbox`, the three threads
of `AgentLoop`, the callers of `ChatInterface`, all processes of `Relaunch`. A
property of such a run is a conjunction of the modules' properties or is one of
them, and each part's own properties can be read in its module.

### Bounds

* `MaxRequests`, `Notes`: one text and two notifications are enough for a wake
  to find a message in the inbox, for a message to arrive in a turn that was
  woken, and for a pass to deliver one notification while another arrives.
* `MaxRounds`, `MaxTransient`, `MaxAed` are limits of the code (the loop guard,
  `_TRANSIENT_AED_RETRY_LIMIT`, `max_aed_attempts`), set to 1 or 2: small enough
  that they are reached, and 2 attempts where the first must be recovered from.
* `MaxKernelNotes` bounds how often the kernel publishes a notification of its
  own. Where it is used up, an answer with calls that would have to be stopped
  or molted is not given.
* Each signal is dropped once at most.
* `Windows` are races of the passes. Passes interleave with the run loop step by
  step in every run; `"overlap"` adds that two passes run at once, and that one
  writes while the run loop begins a request or moves the payload, `"commit"`
  that something happens between the read of a batch's payload and the commit of
  its fingerprint. Both can lose a notification in this code, within a window of
  microseconds, so the delivery properties are checked without them and the
  hazards say so; the properties that must hold in spite of them are checked
  with them.
* In `ChatInterface`, `MaxSends`, `MaxCalls`, `MaxTrims`, `MaxCrashes` and
  `MaxUpdates` bound the length of a behaviour. Three requests and four ids are
  a batch of two calls, its results, and a new call over them.
* `channels`: with two messages one can be fetched, marked or answered while the
  other waits, and a page of one row hides the older. One crash and one fault
  fall between any two steps. The inductive invariants of section 5 were also
  checked with three messages. One letter with a dead address, one with a living
  one and one person's mail have every outcome. Two faults or crashes of mail
(`MaxMailTrouble`) let a roll-back fail as well.
* `services`: `MaxEvents` 2 stands for the 20 of the code, and 3 posts overflow it.
  Two goals and one change let a reminder become stale.
* `processes`: a `Plan` gives each part of the daemon manager its batches. Two
  runs are enough for one to take over the other's handle and for a watchdog
  to meet another batch. `OneAgent` is checked with one fault
  (`RlFaults`) and either a rebuild of the index or a launch that misses its
  duplicate, not both: what lies beyond is in section 4, and what holds for any
  number of processes in section 5. `McLoops` 3: a client, its restart and a second
  client, or a restart with its own second start; not both.
* `sessions`: `DeskIn`, `DeskOut`, `Family`, `Rules`, `Trouble`, `Asked`, `Fired`,
  `MailOps`, `Retries` split the big modules into parts with more of one thing
  and less of another (two incoming messages; three outgoing; one of each). The
  trees of `search` have one entry of every kind, three at a time, with two
  walkers and at most 2 hits; a file of `pages` has 3 lines. Two payloads in two forms
  (`LmPayloads`) let the channels change, return and be rewritten.

### Fairness

The run loop and each pass are weakly fair: they are daemon threads, and none
of their steps blocks for good (`inbox.get` has a timeout, an LLM call has
`retry_timeout` and a grace, a batch has its own time limits). So are the second
half of a sleep and the AED timeout, which the heartbeat makes a moment after,
or at its next tick. Nothing makes the environment act: no message, signal or
notification need ever come, and no fault must happen or stop happening.

`PoisonRefreshes` is checked where a refresh works (`"refresh"` is not in
`Faults`): the request is made once per process, so when it fails nothing asks
again.

`channels`: a server's thread and the agent's sweep are weakly fair (daemon
threads in a loop with a timeout), so are the mailmen, pollers and tools of
mail, and the start of a crashed agent, without which no file is ever polled
again; no crash, post or fault need happen. `KeepsPromise` has its liveness only
for the promise at least once. `services`: strong fairness for taking the lock
(`threading.Lock` is released after each file operation, and a waiting thread is
let in sooner or later) and for the goal check, which the heartbeat comes back
to; weak fairness for a thread in its critical section, and for a watcher;
strong fairness for a poll, which the agent makes again while it has the job.
`processes`: weak fairness for workers, watchdogs, the refresh watcher, processes
that boot or stop, the ageing of a heartbeat and the caller of a tool. A command is not fair: it may run for ever,
and only the watchdog ends it. An announcement or a relaunch that a crash of
the agent itself prevents is excepted in the property. `sessions` checks safety
and steps only, and assumes nothing.

## 4. What the violations mean

* `loop_lost_mail`: mail that arrives after `system(sleep)` has looked, and
  before its batch is stamped, is put on the result of the sleep call and
  committed; the cancel ends the turn before anyone reads it.
* `loop_deaf_sleep`: the sleep signal writes the state and the event in two
  steps. A message taken in between leaves the loop asleep with the state
  ACTIVE, in which every pass defers.
* `chat_lost_prompt`: a prompt stashed while calls are pending is dropped by the
  next `send`, which sets the same prompt again and finds nothing to do.
* `chat_duplicate_result`: after a late answer, results that were accepted are
  committed again.
* `character_overwritten`: a boot, a refresh or a molt writes the operator's
  character seed over the one the agent has written for itself.

### Other statements of the repository that the models refute

These were tried while modelling, found false, and are kept in the modules as
definitions without a run; each quotes the statement it is about.

| definition | what TLC shows |
|---|---|
| `LiveMeta.OnePayload` | a restart, or a batch that was restored, leaves an old payload beside the new one; the property that holds, `PayloadKept`, says one *since the last restart or molt* |
| `LiveMeta.PayloadReadable` | a state of the channels is committed that no result shows: see below |
| `ChatDesk.ClearKeepsUnread` | a read may clear the mirror of an event the agent was not given |
| `Pressure.AfterIsAfter`, `Pressure.LowEnds` | the size stamped after a rebuild may be the old one; a low response that is not measured leaves the streak |
| `SessionLog.SinceMolt` | a crash between the molt's log line and its index makes the totals count from the molt before |
| `ProviderTurn.ResultsReach` | with a history the provider keeps, a rebuild after an error loses results |
| `Relaunch.LockExcludes` | the lock alone does not exclude: a stop unlinks the path, and a second process locks a new inode |
| `McpClient.HealthyIsUp` | a refresh may call a server healthy whose session is dead |
| `ToolBatch.RawStaysOut` | a call that asked for a summary is healed with its raw result |
| `BashJobs.EndShown` | two watchers share one file: the second end replaces the first before it is read |
| `Mail.DigestMirrors` | two renders that overlap leave an older digest |
| `SoulFlow.TimerIsIdle` | a timer that rang forgets the one armed since; a new delay arms one in a turn |
| `Mailbox.MovedOnce` | a copy made before the connection failed is made again |
| `TimedCalls.LatestWins` | a wake that must put its pair back replaces a newer one |
| `FileSearch.FilteredAlike` | the sidecar caps before Python filters: fewer matches than the other engine |

`PayloadReadable` is what the comment at `meta_block.py:2002-2005` promises. A batch
attaches a payload and keeps its signature; an idle pass injects another payload as a
pair, which becomes the holder, and does not touch the signature
(`base_agent/__init__.py:1579-1601`); then the channels return to the first payload
(the second channel is dismissed). The next batch finds it unchanged and a holder in
place, and commits a fingerprint whose payload stands nowhere. The injection would have
to set the signature. `PayloadKept` excepts this state and no other. With
`SPECIFICATION LmSpec`, `LmMax = 3`, `LmPayloads = 2` and `LmTurnovers = 1` TLC finds it
at once.

Two more have no definition: the registry is said to be appended to
non-destructively (`lingtai/core/mcp/__init__.py:321`), which is false of a file
without a final newline, where the last record and the new one become one line
(`McpRegistry` models it, and its properties except it); and `OneAgent` fails when
both of its guards do. A process that missed the one before it takes the flock
between that one's unlock and its unlink; the unlink takes the name of the inode
that is held, and a third process finds no name and locks a new file. That needs
two launches that miss a duplicate (`RlFaults` 2, four agents), or one and a
rebuild of the index.

## 5. Proofs

TLC looks at a few notifications and small limits. The theorems hold for every
value of the constants, under the named assumptions of their modules: those of
`AgentLoop` (limits are naturals, at least one AED attempt, the kernel's
notification is one of the notifications, signals, faults and effects are among
those the module names), of `ChatInterface` (the first prompt is a prompt and
"none" is not, limits are naturals), of `ToolBatch` (a batch has a call), of `BashJobs` (no
job has the name of a file state; restarts are a natural), of `NotificationStore`
(goals and refs are apart, no thread is named like the free lock, the cap is
positive), of `Mail` (senders are
agents, the dead address is none, one send of a text is free, and no letter is a
person's mail), of `McpInbox` and `ChatBridge` (messages are the numbers 1 to n,
a page and a sweep take at least one), of `Relaunch` (processes are finitely many
positive numbers, with one for the first agent and one for each try of the
watcher; at least one try), of `DaemonManager` (backends are among those the
module names, its bounds are positive), of `McpClient` (a client and a loop at
least), of `CodexSession` (transports are REST and WebSocket, the bounds are
naturals), of `Pressure` (a budget is positive), of `SoulFlow` (a fire at least), of
`ChatDesk` (servers are among the four, a page takes one at least), of `AgentSetup`
(a preset), of `Avatars` (agents are numbers, the top one is 1), of `McpRegistry`
(the catalog's names are names), of `SessionLog` (troubles are among those it
names), of `FileSearch` (a thread at least, finitely many entries, trees of
entries, positive bounds), of `ProviderTurn` (adapters are among the five kinds), of
`TimedCalls` (sources that keep one pair are sources, and none is named like the agent),
of `Consultation` (one round at least) and of `MCSessions` (parts are among those it names). Other bounds are naturals. No other assumption is made;
a hypothesis of a single theorem stands in its statement.

**`TypeCorrect`** (`Spec => []TypeOK`). `TypeOK` is not inductive: it bounds the
counters, and nothing in it says why an action that counts is not taken at the
limit. `TypeInv` adds

* `PcOK`, `SyncWaits`: where the run loop may be, and that it waits at `"sync"`
  while a pass of its own is under way, so the end of a pass is the only step
  that moves it from there;
* `AttemptLeft`: wherever a failure may still be counted, fewer than `MaxAed`
  have been. This is the argument that AED ends: the last attempt leaves for the
  fallback or for sleep, and only a new message starts again from 0;
* `StopLeft`: a batch that will be stopped by the guard, or that molts, was let
  in only while a kernel notification was left.

The proof has a lemma for each thread of actions, and one step for each action.
`SyncToType`, `SyncDoneType` and `Frame` are the facts its steps share.

**`PoisonFreezes`** (`Spec => PoisonFrozen`). Once the worker is marked, no step
begins to write the history or the payload; a thread that had passed its last
look at the mark finishes, and no other thread gets past. This needs to know
where the marked run loop can be: `FrozenInv` says that it is outside every
stretch that writes, and that a pass it makes returns to the head of the loop.
The theorem includes overlapping passes.

**`SleepAppendable`** (`Spec => []SleepWireAppendable`). A run loop blocked
asleep has no dangling calls under it. The invariant is inductive with the type
invariant: the only step to the block closes what is dangling, and no pass can
leave calls at the tail.

**`NoWakeIsLost`**, **`NothingIsDropped`** (`[]NoLostWake`, `[]NothingDropped`, for
any notifications, threads that make passes, requests and limits). Both have
hypotheses, and TLC refutes each without them:

* `Apart`: passes keep out of the two windows described under Bounds;
* `NoFailure`: calls of the LLM do not fail (they may hang, and a refresh may
  fail). AED drops the entry that carries a payload whose fingerprint is committed;
* `Calm`, for `NoWakeIsLost`: no turn is cut short. An interrupt, a sleep or a
  poll ends the turn between the stamp on a result and the call that would carry
  it (the finding of `loop_lost_mail`);
* `NoMolt` or `Calm`, for `NothingIsDropped`: a molt resets the history, and a turn
  that is cut short just before it has been read by nobody.

`loop_delivery` and `loop_signals` are instances of these hypotheses. `PassInv`, in
both, is about passes: one at a time (`OnePass`), none that could write a history
the run loop is sending or has reset (`PassAway`, `NeverDegrades`), a payload that
lies where `holderAt` says (`Placed`) and holds no more than the files (`Known`,
`Sound`). `NothingIsDropped` adds `KeepInv`: what is told and still there is in the
live payload (`Kept`), and no call of the LLM is made over a dangling history
(`WireInv`), for healing one is how a payload would be lost. `NoWakeIsLost` adds
`HearInv`: in a turn the agent is ACTIVE and passes only look or defer (`Steady`,
`Deferred`), and one formula for each stretch of the loop says where an unread
notification is: between turns in the last results with a message waiting
(`AtRest`), with a pass that has appended it (`AtWake`), in the call in flight or in
the batch (`InTurn`). The proofs go by groups of actions, the run loop's and the
passes', one lemma each.

**`HistoryTyped`, `RequestsLegal`** (`ChatInterface`), for histories of any length,
prompts, limits and molts, under `Races = {}`: nobody but the run loop touches the
history while a request or a batch is under way. TLC refutes the second without it
(`chat_duplicate_result`). `HistoryLegal` is far from inductive, since it speaks of
requests and the history is most often not one. `ChInv` says of the history and of
the saved file that they are `Sound`: an id is called once and answered once, a call
is answered by the very next entry, and only the last entry may have calls without
results; what the event log has of a result is shown as real. To this come, for a
batch that runs, that its calls are the ones that dangle and that it is answered
nowhere, in the file either (`Running`: so a tool may end, and a molt or a crash come
between); and for a request that carries results, that they are the last turn's
(`Sent`: so the roll-back, which drops every trailing user entry, leaves a history
these results can be committed to again, even after a trim). The lemmas before it are
about the operators: each of append, close, add results, drop, strip, trim, the
molt's selection and the two ways to tell the prompt keeps `Sound`. Those that choose
a place (`Trim`, `DropUsers`, `KeepLast`) need that a set of places has a least and a
greatest member and can be gone through by rank (`Least`, `Greatest`, `Nth`).

**`CodexTyped`, `HistoryIsSeen`** (`CodexSession`: `CxSpec => []ModelSeesHistory`), for
histories of any length and both transports. `CxInv` says that a result comes right
after the turn it answers and that only the last entry calls without one (`Formed`);
that a summarized result whose effect no longer waits was not frozen as something
else (`Thawed`: so a full request and a delta show the same body); that a request in
flight is of a history without a dangling call, all of it or what comes after the
baseline (`Flying`); and that what the server saw over a live socket is that baseline
(`Continues`). The lemmas are about what a request makes of a history (`Request`), what an
answer, a heal and a summary make of it (`Turned`, `FormedAppend`, `FormedLike`,
`FormedPrefix`, `Renewed`), and about the items, which a fold joins entry by entry. What
`FlattenSeq` returns is proved by the first place at which it would fail (`WFMin`:
`Joined`, `Singles`), as below for the store.

**`BatchTyped`, `BatchPreservesRaw`** (`ToolBatch`). `TbInv` adds to both what
each stage implies: a logged result is that of a tool that is over, a result in
the map was logged, no reduced form is shown before the batch is collected, and
the history is empty until the heal.

**`JobsTyped`, `OverWhenTold`** (`BashJobs`). The two together are inductive:
no answer "over" needs an earlier one to be explained, and the proof has one
lemma for the processes and their watchers and one for what the agent calls.

**`StoreTyped`, `RemindedOnce`, `UnreadIsKept`** (`NotificationStore`), for any
producers, goals and sizes. `StInv` says that whoever holds the lock has the file
in memory as it is on disk (`HasRead`), so that a rewrite is a change of the file
and not of an old copy; that from the scan to the section that adds a reminder the
file has none of its goal (`Absent`: the heartbeat alone adds one, though the scan
is made without the lock); that ids are never given again (`IdsPast`); and that what
a committed fingerprint holds, or a dismissal without force has read, was shown
(`Shown`). The actions filter the list with a recursive function (`StUnder`). What it
leaves is proved by induction over its prefixes: the property of each prefix is a
set of numbers, and the first for which it would fail comes from the library's
`WFMin`, which has no operator parameter (`First`, `PickedStep`, `UnderIsPicked`).

**`ProcessesTyped`, `SeenIsOne`, `LockIsOne`** (`Relaunch`). Two processes work in a
directory only if both of its guards fail, and each theorem is one guard.
`SeenIsOne`: while no launch is blind to the process before it (an action formula,
`[][~RlBlind]_rlVars`), at most one process is past the check, with any number of
failed steps and rebuilds, so that the lock is not needed. `LockIsOne`: with no
rebuild and at most one fault, a second process may get past the check, but then
every later launch sees a process before it, and while both are active neither has
another file open than the one the path names (`OneInv`). `Reserve` is the type invariant's strengthening: a process is left
for each try of the watcher. That a set of numbers has a least one (`Least`, for the
choice of the process that is launched) comes from the library's `WFMin`, which has
no operator parameter.

**`DaemonTyped`, `EndsAreAnnounced`, `EndsAreTrue`** (`DaemonManager`). `DmInv` adds to the
properties that an entry of the table leads to a run of its handle (`Entered`), that
a run which is not over has said nothing (`Silent`), and that a directory which is
claimed was announced, by a run that is over and has its handle (`Claims`): this is
why the second of two runs with one handle may say nothing. `CallInv` says that the
tasks a call has left fit into the handles. Nearly every step only *renews* runs
(`Renewed`: handle, batch, announcement and claim stay, no end comes or goes, and a
timeout needs a batch that timed out), which preserves the invariant once and for
all (`RunsRenew`); the steps that are left are `RunAdded` and `AnnounceKeeps`.

**`LettersAccounted`, `OnceClaimed`, `OnceAnnounced`** (`Mail`). `MlInv` has a
part for each: the step a mailman is at, or died at, says what became of its letter
(`StepsWell`: in the outbox until the clean-up, arrived when it was delivered, not
arrived when it was refused), and one that is not dispatched is new to its recipient
(`LettersNew`); `ClaimsWell` and `HeldAlone`
say that a claim's name belongs to one agent and its copy is in no other inbox but
what a roll-back left there, and that what is being claimed is in the poller's `_seen`
and not told yet; `ToldIsSeen` says that what was told was told once, cannot
arrive again, and is in `_seen` as long as it is in the inbox. Copies left by a
roll-back (`mlKept`) are excepted: an agent that has read such a copy meets the same
mail again.

**`StepsKeepPromise`** (`ChatBridge`). The refinement's safety part:
`ChSpec => Contract!Init /\ [][Contract!Next]_(Contract!vars)`, for six servers,
any number of messages and any page size. `BrInv` has one conjunct for each order
of steps: `MarkedFirst` (telegram, imap: what the cursor has not passed was not
pushed), `StoredFirst` (wechat: what the cursor has passed is stored, and its key
is on disk before it is pushed), `PushedFirst` (cloud_mail: what the watermark has
passed was pushed, or hidden by a full page), `AnsweredLast` (feishu, whatsapp).
Five lemmas (`Rests`, `Loses`, `Hands`, `Arrives`, `FateSame`) say what a step of
the server has to do to the cursor, the store and the batch to be a step of the
abstract channel, and each server has a lemma of its own. That at least once
means *in the end* is liveness and stays with TLC (`KeepsPromise`).

**`PushedOnce`**, **`BridgeTyped`** (`ChatBridge` with `McpInbox`). A message is pushed to
the host once, and once more at most for each fault or crash so far. `Again` says in
addition that a message the server may still push (`MayPush`: not past the watermark of
cloud_mail, not answered by a webhook) has that push left. The types rest on it: there
is an event file for each push. TLC never saw that the files' range had been
written for one fault, since the run has one; the proof did, and the range is now a
function of `MaxFaults`.

**`ClientTyped`** (`McpClient`). `McInv` adds to the types that whoever connects or calls
is a client, and that a loop is left as long as it may start a second time: an
operation starts a thread at most twice (`RoomForTwo`).

**`PartsTyped`, `ServicesTyped`, `ChannelsTyped`.** The instances that let one of several
modules move at a time behave, for each module, as that module's specification
(`EachPart`). So the theorems above hold of the instances that TLC runs, and these
three state their `TypeOK`.

**`Announced`**, **`ToldOnce`** (`ChatBridge` with `McpInbox`). The first follows
from `BrInv`. The second counts: for each message, announcements, files and
previews together are at most its pushes and the faults so far (`IbInv`).

**`NoticesAreKept`, `DerivedAlwaysAgrees`, `DesksAreKept`, `AgentsStartWell`**
(`MCSessions`). Each is the conjunction of the theorems of several modules, carried to
the instance TLC runs: in a step of `SessionsNext` one part moves and the others keep
their variables, so a behaviour of the whole is one of each module's own specification
(`EachIsItself`; the guards on `part` only take steps away). The modules' theorems:

* `PayloadStays` (`LiveMeta`). `LmInv` counts the results: since the last turnover
  no two have a number, only the holder shows a payload (`OnlyHolder`), and whatever
  the fingerprint or the signature says was delivered is on one of them, or was taken
  with one by a summary (`Bears`); or nobody is the holder and there is no signature; or
  an injected pair is the holder (`PairHeld`) and the signature is of another payload or of
  this one, the case of `PayloadReadable`. The signature is needed beside the
  fingerprint, since it is what lets the next batch commit without a stamp.
* `PsAlways` (`Pressure`). `PsCounts`: each request is answered once at most, so the
  totals stay within the requests.
* `VoicesLast` (`SoulFlow`). `SfInv` says that the lock is held by the one fire past it
  and that ids grow (`SfHeld`), and that a record newer than the channel is of the fire
  at hand, unless showing it failed, its thread was killed, or it could not record that
  (`SfNewest`).
* `DeskStays` (`ChatDesk`). `DkInv` says that a send at the platform was let in below the
  limit (`DkRepeats`), and that a message marked read was told, came again or is of a
  call between its mark and its answer (`DkMarks`).
* `MailStays` (`Mailbox`). `MbInv` says that a uid names one copy, that the steps a call
  has left are a suffix of its commands, and that a move has its target before its
  source is marked (`Covered`): the argument for a second try over a new connection.
* `ChosenBoots`, `MoltsAgree` (`AgentSetup`). `AsSetInv` restates what boots without the
  operators of the boot (`BootsWell`).
* `RulesArrive` (`Avatars`). While nobody hands out rules across another's call, each
  running agent has the last rules, will have them when its heartbeat is through
  (`Final`), or is owed them (`Owed`): by a call that has it on its list, will walk to
  it, or waits for the newborn above it. That a walk finds whom it should needs the tree
  to be one (`AvTree`: one parent each, nothing outside the top's reach, an age that
  grows downward). The set a walk reaches is written as the least set closed under
  children (`Reach`), which needs no recursion.
* `AddonsAlways`, `BootsAppend` (`McpRegistry`). `RgKept` follows a boot: while it writes,
  what it knows is what the file has (`Adding`), and each declared add-on is there or
  still to come (`Comes`).
* `TotalsAgree` (`SessionLog`). The invariant is slight; the work is in the three ways of
  counting: a scan that found a molt, or the start of the log, counts what the whole log
  would (`ScanSuffices`, `ScanCounts`), and so does an index that misses no record.

**`SearchIsHonest`** (`FileSearch`), for any tree, cap and number of threads. `FsInv` says
that an entry handed out is with one worker or through (`Apart`); that what was collected
is of entries that are through, and all of it unless the walk was stopped (`FoundSoFar`);
that the counter passes the cap only by what is refused (`Counted`: this is why a walk cut
at the cap has as many matches as the cap); and that all workers are over only when nothing
is left or the walk was stopped (`EndsWell`).

**`ShownOnceAlways`** (`MCSessions`). The theorems it joins, besides `SearchIsHonest`:

* `ShownAlways` (`ProviderTurn`), for the five kinds of adapter. `PtInv` is a case for each
  who keeps the history and whether a request is in flight. With a canonical history, the
  entries are apart, a turn of results follows the turn that asked (`Good`), and what tools
  returned is in it, went in an overflow, or is due (`Covers`): of the history *and* of what a
  roll-back would restore. With the provider's, each response it kept is without a message
  twice, and a text that failed is not in the one a retry would continue from (`RestedOK`).
* `PairsAlways` (`TimedCalls`). `TcInv` says that a pair is in one place at most, under its
  number (`Disjoint`), that a source that keeps one has one in each sequence, and that what is
  tracked is the pair in the chat, if it has one (`WireOK`). The last is what makes the
  replacement right, and what a restart that reads the tracking off the chat has to restore.
* `ConsultsAlways` (`Consultation`). `Lawful` says that a result comes right after its call
  and that only the last entry calls without one. The work is in the cut: a part that begins
  with anything but a result stays lawful (`CutLawful`), the first such place behind the first
  that fits is the longest that could be sent (`Longest`), and its size is that of its parts
  (`CutSize`).
* `PagesAlways` (`FileSearch`). `FrInv`: so many lines were shown, the next is the one after
  them, and those that fit in no page are the ones cut. The sum of the lengths of a page's
  lines is a recursive function (`Fitting`); that it has a value at every length is proved by
  the first at which it would have none, from `WFMin` (`SumsExists`).

**`SessionTypesAlways`** (`MCSessions`). One type lemma for each of the fifteen modules.
For nine the types are part of the invariant above, or follow from it at once. The other
six add what the invariant had no use for: that a context is in the order its results came,
and no more notices are made than there can be (`LiveMeta`, `LmTyped`); that an id is no
greater than the number of ids given (`SoulFlow`, `SfCounted`); that each event is of a
message of the log (`ChatDesk`, `DkEvents`); that copies are made of messages there were
(`Mailbox`, `MessagesStay`); that what is composed is of the texts (`AgentSetup`, `AsShown`);
that no more rules are set, and no more faults happen, than may (`Avatars`, `AvBounded`).
`Races = {}` is a hypothesis for `ChatInterface` alone.

Only model-checked: every liveness property, which is out of the prover's reach
(`AgentComesBack`, `AllEnd`, `TurnEnds`, `ShutdownStops`, `PoisonRefreshes`, `NotificationSeen`,
`FileAnnounced`, `LetterSettles`, `PersonHeard`, `StaleReminderGoes`, `PollAnswers`, and the
liveness of `KeepsPromise`), and `HistoryLegal` with a race let in, which is false. Every
invariant and every action property of the passing runs is stated by a theorem.

Where a module is proved about, its definitions were chosen accordingly: a filtered
sequence is the part at a set of places (`Subsequence`), a tree's descendants are the
least closed set, a list is gone through by a recursive function in the place of a fold, a
size is a number of elements. TLC evaluates the same definitions.

## 6. Not modelled, and what is left

Not modelled: knowledge, skills and the catalog (files read, written and
formatted on one thread); vision, web search and auth (calls to outside
services); retention, migration and nudges other than the goal's (periodic
sequences of file operations); redaction and the texts of prompts, summaries and
notifications; request building, streaming and pricing of the adapters; the
command lines' own protocols. Three hazards have no property, each for the reason
`PROJECT.json` gives: a refresh of a poisoned agent that fails, the text of a
request whose first send failed, and `.clear` on the heartbeat thread.

Left, in this order:

1. `AgentLoop` over `NotificationStore`: the files that `AgentLoop` abstracts as a
   set, with their producers, and the fingerprint race of both in one instance.
2. `.clear`: a molt by the heartbeat thread, in `AgentLoop` and `ChatInterface`.
