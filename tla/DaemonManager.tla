--------------------------- MODULE DaemonManager ----------------------------
(***************************************************************************)
(* The daemon capability (lingtai/core/daemon): the run loop emanates a    *)
(* batch of tasks, each run by a worker of the batch's thread pool, in     *)
(* process or through a command line agent; a watchdog per batch stops     *)
(* what is too slow, reclaim stops everything, ask follows up, and every   *)
(* end is announced to the agent.  A run has a directory with its record;  *)
(* the manager's table finds it by a handle that reclaim makes free again. *)
(***************************************************************************)
EXTENDS Integers, Sequences, FiniteSets

CONSTANTS
  Backends,    \* backends the agent uses
  MaxRuns,     \* bound: runs, and handles
  MaxBatches,  \* bound: batches
  MaxTasks,    \* bound: tasks of a batch
  MaxRestarts  \* bound: restarts of the agent process

CommonMcp == {"lingtai", "claude-p", "codex", "opencode", "qwen-code"}
Resumable == {"claude-p", "codex", "opencode", "mimocode", "oh-my-pi", "cursor"}
Piped     == Resumable \cup {"qwen-code", "kimicode"}

ASSUME DaemonAssumption ==
  /\ Backends \subseteq Piped \cup {"lingtai", "claude"}
  /\ {MaxRuns, MaxBatches, MaxTasks} \subseteq Nat \ {0}
  /\ MaxRestarts \in Nat

VARIABLES
  dmRun,      \* the runs: directory, worker and process of each
  dmBatch,    \* the batches: events, pool and watchdog of each
  dmTable,    \* _emanations: handle -> run, 0 when free
  dmNext,     \* _next_id
  dmCall,     \* the call of the daemon tool in progress
  dmAsk,      \* the run a command's follow-up is in flight for (bound: one), 0
  dmReply,    \* how the last follow-up was announced
  dmRestarts

dmVars == <<dmRun, dmBatch, dmTable, dmNext, dmCall, dmAsk, dmReply, dmRestarts>>
askVars == <<dmAsk, dmReply>>

Runs    == 1..Len(dmRun)
Batches == 1..Len(dmBatch)
Handles == 1..MaxRuns

Settled == {"done", "failed", "cancelled", "timeout"}
RunRecord ==
  [handle : Handles, batch : 1..MaxBatches,
   work   : {"refused", "queued", "spawned", "busy", "last", "ended", "dropped",
             "over", "lost"},
   disk   : {"running"} \cup Settled,          \* daemon.json state
   proc   : {"none", "alive", "exited", "killed"},
   tracked : BOOLEAN,                          \* in _cli_procs and its group
   reason : {"none", "timeout", "reclaim"},    \* _cli_term_reasons
   missed : BOOLEAN,     \* a kill scan ran while it was not registered yet
   claimed : BOOLEAN,    \* terminal_notified
   said   : [named : 0..MaxRuns, status : Settled \cup {"none"}],
   shut   : BOOLEAN,     \* the entry's shutdown_in_progress
   buffer : BOOLEAN]     \* a follow-up waits in followup_buffer
BatchRecord ==
  [backend : Backends, left : 0..MaxTasks, stage : {"filling", "refused", "armed"},
   cancel : BOOLEAN, timedOut : BOOLEAN, pool : BOOLEAN,
   watch : {"none", "armed", "fired", "over"}]

DmInit ==
  /\ dmRun = <<>> /\ dmBatch = <<>>
  /\ dmTable = [h \in Handles |-> 0]
  /\ dmNext = 1 /\ dmCall = "none" /\ dmAsk = 0 /\ dmReply = "silent" /\ dmRestarts = 0

DmBackend(r)   == dmBatch[dmRun[r].batch].backend
DmCancelled(r) == dmBatch[dmRun[r].batch].cancel
DmDone(r)      == dmRun[r].work \in {"ended", "dropped", "over", "lost"}

----------------------------------------------------------------------------
(* _handle_emanate, _handle_emanate_cli                                    *)

\* What a call keeps: unfinished runs, and finished ones that ask can resume.
DmPruned ==
  [h \in Handles |->
     IF dmTable[h] = 0 THEN 0
     ELSE IF DmDone(dmTable[h]) /\ DmBackend(dmTable[h]) = "lingtai" THEN 0
     ELSE dmTable[h]]

DmEmanate(backend, n) ==
  /\ dmCall = "none"
  /\ Len(dmBatch) < MaxBatches /\ Len(dmRun) + n <= MaxRuns
  /\ dmTable' = DmPruned
  /\ dmBatch' = [b \in 1..Len(dmBatch) + 1 |->
        IF b <= Len(dmBatch) THEN [dmBatch[b] EXCEPT !.pool = @ /\ ~dmBatch[b].cancel]
        ELSE [backend |-> backend, left |-> n, stage |-> "filling",
              cancel |-> FALSE, timedOut |-> FALSE, pool |-> TRUE, watch |-> "none"]]
  /\ dmCall' = "emanate"
  /\ UNCHANGED <<dmRun, dmNext, askVars, dmRestarts>>

DmNewRun(work, disk) ==
  [handle |-> dmNext, batch |-> Len(dmBatch), work |-> work, disk |-> disk,
   proc |-> "none", tracked |-> FALSE, reason |-> "none",
   missed |-> FALSE, claimed |-> FALSE,
   said |-> [named |-> 0, status |-> "none"], shut |-> FALSE, buffer |-> FALSE]

\* The directory is made, the future submitted and its callback attached ...
DmSubmit ==
  /\ dmCall = "emanate" /\ dmBatch[Len(dmBatch)].left > 0
  /\ dmRun' = Append(dmRun, DmNewRun("queued", "running"))
  /\ dmNext' = dmNext + 1
  /\ dmCall' = "enter"
  /\ UNCHANGED <<dmBatch, dmTable, askVars, dmRestarts>>

\* ... before the table knows the run.
DmEnter ==
  /\ dmCall = "enter"
  /\ dmTable' = [dmTable EXCEPT ![dmRun[Len(dmRun)].handle] = Len(dmRun)]
  /\ dmBatch' = [dmBatch EXCEPT ![Len(dmBatch)].left = @ - 1]
  /\ dmCall' = "emanate"
  /\ UNCHANGED <<dmRun, dmNext, askVars, dmRestarts>>

\* A task that cannot be set up ends the call with an error: the tasks before
\* it run on, without a watchdog.
DmRefuse ==
  /\ dmCall = "emanate" /\ dmBatch[Len(dmBatch)].left > 0
  /\ dmRun' = Append(dmRun, DmNewRun("refused", "failed"))
  /\ dmNext' = dmNext + 1
  /\ dmBatch' = [dmBatch EXCEPT ![Len(dmBatch)].stage = "refused"]
  /\ dmCall' = "none"
  /\ UNCHANGED <<dmTable, askVars, dmRestarts>>

DmAllOver(b, runs) ==
  \A r \in 1..Len(runs) : runs[r].batch = b => runs[r].work \in {"over", "refused"}

DmDispatch ==
  /\ dmCall = "emanate" /\ dmBatch[Len(dmBatch)].left = 0
  /\ dmBatch' = [dmBatch EXCEPT
        ![Len(dmBatch)].stage = "armed", ![Len(dmBatch)].watch = "armed",
        ![Len(dmBatch)].cancel = @ \/ DmAllOver(Len(dmBatch), dmRun)]
  /\ dmCall' = "none"
  /\ UNCHANGED <<dmRun, dmTable, dmNext, askVars, dmRestarts>>

----------------------------------------------------------------------------
(* The workers                                                             *)

DmPut(r, run) == dmRun' = [dmRun EXCEPT ![r] = run]
DmOnlyRun == UNCHANGED <<dmBatch, dmTable, dmNext, dmCall, askVars, dmRestarts>>

DmKilled(run) == [run EXCEPT !.proc = IF @ = "alive" THEN "killed" ELSE @]
\* What no later step reads is reset.
DmEnded(run, disk) ==
  [run EXCEPT !.work = "ended", !.disk = disk, !.proc = "none", !.tracked = FALSE,
              !.reason = "none", !.missed = FALSE, !.buffer = FALSE]

\* mark_cancelled_or_timeout, whose "[cancelled]" the worker returns.
DmStopped(r) ==
  DmEnded(dmRun[r], IF dmBatch[dmRun[r].batch].timedOut THEN "timeout" ELSE "cancelled")
DmFailed(r) == DmEnded(dmRun[r], "failed")

\* A worker starts: a cancelled batch ends it; a lingtai worker may fail to
\* build its service, which no mark_failed records; a command may not start.
DmBegin(r) ==
  /\ dmRun[r].work = "queued"
  /\ IF DmCancelled(r) THEN DmPut(r, DmStopped(r))
     ELSE \/ DmBackend(r) = "lingtai" /\ DmPut(r, [dmRun[r] EXCEPT !.work = "busy"])
          \/ DmBackend(r) = "lingtai" /\ DmPut(r, DmEnded(dmRun[r], "running"))
          \/ DmBackend(r) = "claude"
             /\ DmPut(r, [dmRun[r] EXCEPT !.work = "busy", !.proc = "alive"])
          \/ DmBackend(r) \in Piped
             /\ DmPut(r, [dmRun[r] EXCEPT !.work = "spawned", !.proc = "alive"])
          \/ DmBackend(r) # "lingtai" /\ DmPut(r, DmFailed(r))
  /\ DmOnlyRun

\* The process is registered a step after it was started.
DmRegister(r) ==
  /\ dmRun[r].work = "spawned"
  /\ DmPut(r, [dmRun[r] EXCEPT !.work = "busy", !.tracked = TRUE])
  /\ DmOnlyRun

\* A line of a command's output, read with the batch cancelled.
DmLine(r) ==
  /\ dmRun[r].work = "busy" /\ DmBackend(r) \in Piped /\ DmCancelled(r)
  /\ DmPut(r, DmStopped(r))
  /\ DmOnlyRun

\* What a command's end is worth: its exit code, the error flag of its result
\* event, whether it said anything, and whether it signalled finish(done).
ExitReport == [ok : BOOLEAN, error : BOOLEAN, spoke : BOOLEAN, signed : BOOLEAN]

\* _require_done_completion
DmCompleted(x, r) == DmBackend(r) \in CommonMcp => x.signed

DmClaudeGood(x, r)   == x.ok /\ ~x.error /\ DmCompleted(x, r)
DmCodexGood(x, r)    == x.ok /\ x.spoke /\ DmCompleted(x, r)
DmOpencodeGood(x, r) == x.ok /\ DmCompleted(x, r)
DmQwenGood(x, r)     == x.ok /\ DmCompleted(x, r)
DmKimiGood(x, r)     == x.ok /\ DmCompleted(x, r)
DmCursorGood(x, r)   == x.ok /\ ~x.error
DmGood(x, r) ==
  CASE DmBackend(r) = "claude-p" -> DmClaudeGood(x, r)
    [] DmBackend(r) = "codex"    -> DmCodexGood(x, r)
    [] DmBackend(r) \in {"opencode", "mimocode", "oh-my-pi"} -> DmOpencodeGood(x, r)
    [] DmBackend(r) = "qwen-code" -> DmQwenGood(x, r)
    [] DmBackend(r) = "kimicode"  -> DmKimiGood(x, r)
    [] DmBackend(r) = "cursor"    -> DmCursorGood(x, r)

DmExit(r) ==
  /\ dmRun[r].work = "busy" /\ dmRun[r].proc = "alive"
  /\ DmPut(r, [dmRun[r] EXCEPT !.proc = "exited"])
  /\ DmOnlyRun

\* End of output: wait for the command, unregister, judge.
DmReap(r) ==
  /\ dmRun[r].work = "busy" /\ DmBackend(r) \in Piped
  /\ dmRun[r].proc \in {"exited", "killed"}
  /\ \E x \in ExitReport :
       /\ dmRun[r].proc = "killed" => ~x.ok
       /\ DmPut(r, IF DmGood(x, r) THEN DmEnded(dmRun[r], "done")
                   ELSE DmFailed(r))
  /\ DmOnlyRun

\* An exception while reading: the command is killed.
DmBreak(r) ==
  /\ dmRun[r].work = "busy" /\ DmBackend(r) \in Piped
  /\ DmPut(r, DmFailed(r))
  /\ DmOnlyRun

\* The terminal session of "claude" polls the event and its own process.
DmTurnEnds(r) ==
  /\ dmRun[r].work = "busy" /\ DmBackend(r) = "claude"
  /\ IF DmCancelled(r) THEN DmPut(r, DmStopped(r))
     ELSE \/ DmPut(r, DmEnded(dmRun[r], "done"))
          \/ DmPut(r, DmFailed(r))
  /\ DmOnlyRun

\* _run_emanation: cancel is looked at before each round of tool calls ...
DmToolRound(r) ==
  /\ dmRun[r].work = "busy" /\ DmBackend(r) = "lingtai" /\ DmCancelled(r)
  /\ DmPut(r, DmStopped(r))
  /\ DmOnlyRun

\* ... a text answer after a round drains the follow-up of the handle's entry,
\* whose answer may call tools again ...
DmDrain(r) ==
  /\ dmRun[r].work = "busy" /\ DmBackend(r) = "lingtai"
  /\ LET e == dmTable[dmRun[r].handle]
         had == e # 0 /\ dmRun[e].buffer
     IN \E work \in IF had THEN {"busy", "last"} ELSE {"last"} :
          dmRun' = [q \in Runs |->
             [dmRun[q] EXCEPT !.buffer = @ /\ q # e,
                              !.work = IF q = r THEN work ELSE @]]
  /\ DmOnlyRun

\* ... and the last answer is the result, if the run has signalled its finish,
\* or an exception is.
DmLingtaiEnds(r) ==
  /\ dmRun[r].work \in {"busy", "last"} /\ DmBackend(r) = "lingtai"
  /\ \/ DmPut(r, DmEnded(dmRun[r], "done"))
     \/ DmPut(r, DmFailed(r))
  /\ DmOnlyRun

----------------------------------------------------------------------------
(* _on_emanation_done and _arm_batch_done_cancel                           *)

\* What the future gives: an exception, the text "[cancelled]" or an answer.
DmResult(r) ==
  CASE dmRun[r].disk \in {"running", "failed"} -> "raised"
    [] dmRun[r].disk \in {"cancelled", "timeout"} -> "cancelled"
    [] dmRun[r].disk = "done" -> "text"

\* Bug: the future's text decides before the record.
DmStatusOfText(e, result) ==
  CASE result = "raised" -> "failed"
    [] result = "cancelled" -> "cancelled"
    [] OTHER -> "done"

\* _classify_terminal_state for the entry e the handle leads to.
DmStatus(e, result) ==
  CASE result = "raised" -> "failed"
    [] result # "raised" /\ e # 0 /\ dmRun[e].disk # "running" -> dmRun[e].disk
    [] result # "raised" /\ e # 0 /\ dmRun[e].disk = "running"
         /\ dmBatch[dmRun[e].batch].timedOut -> "timeout"
    [] OTHER -> IF result = "cancelled" \/ (e # 0 /\ DmCancelled(e))
                THEN "cancelled" ELSE "done"

\* The callbacks of a future: announce once per directory, and the last of the
\* batch ends its watchdog.
DmAnnounce(r) ==
  /\ dmRun[r].work \in {"ended", "dropped"}
  /\ LET e      == dmTable[dmRun[r].handle]
         status == DmStatus(e, DmResult(r))
         said   == IF e # 0 /\ dmRun[e].claimed THEN dmRun[r].said
                   ELSE [named |-> e, status |-> status]
     IN dmRun' = [q \in Runs |->
          [dmRun[q] EXCEPT !.claimed = @ \/ q = e,
                           !.work = IF q = r THEN "over" ELSE @,
                           !.shut = @ /\ q # r,
                           !.said = IF q = r THEN said ELSE @]]
  /\ LET b == dmRun[r].batch
     IN dmBatch' = [dmBatch EXCEPT
          ![b].cancel = @ \/ (dmBatch[b].stage = "armed" /\ DmAllOver(b, dmRun'))]
  /\ UNCHANGED <<dmTable, dmNext, dmCall, askVars, dmRestarts>>

----------------------------------------------------------------------------
(* _watchdog                                                               *)

DmExpire(b) ==
  /\ dmBatch[b].watch = "armed"
  /\ dmBatch' = [dmBatch EXCEPT ![b] =
        IF dmBatch[b].cancel THEN [@ EXCEPT !.watch = "over"]
        ELSE [@ EXCEPT !.watch = IF dmBatch[b].backend \in Piped THEN "fired" ELSE "over",
                       !.timedOut = TRUE, !.cancel = TRUE]]
  /\ UNCHANGED <<dmRun, dmTable, dmNext, dmCall, askVars, dmRestarts>>

\* A kill scan: what is registered is killed for the reason, the first counts.
DmScanned(run, inScope, reason) ==
  IF ~inScope THEN run
  ELSE IF run.tracked
    THEN [DmKilled(run) EXCEPT !.tracked = FALSE,
                               !.reason = IF @ = "none" THEN reason ELSE @]
    ELSE [run EXCEPT !.missed = @ \/ run.work \in {"queued", "spawned"}]

\* Bugs: the flat list instead of the batch's group; no group.
DmOwnedNone(r, b) == FALSE
DmOwnedAll(r, b) == TRUE
DmOwned(r, b) == dmRun[r].batch = b

DmWatchKill(b) ==
  /\ dmBatch[b].watch = "fired"
  /\ dmRun' = [r \in Runs |-> DmScanned(dmRun[r], DmOwned(r, b), "timeout")]
  /\ dmBatch' = [dmBatch EXCEPT ![b].watch = "over"]
  /\ UNCHANGED <<dmTable, dmNext, dmCall, askVars, dmRestarts>>

----------------------------------------------------------------------------
(* _shutdown_runtime_resources, for reclaim and for the agent's stop       *)

\* Entries are marked, then every registered process is killed, asks included.
DmReclaim ==
  /\ dmCall = "none" /\ Len(dmBatch) > 0
  /\ dmRun' = [r \in Runs |->
       LET mine == dmTable[dmRun[r].handle] = r
       IN DmScanned([dmRun[r] EXCEPT !.shut = @ \/ mine], TRUE, "reclaim")]
  /\ dmCall' = "reclaim"
  /\ UNCHANGED <<dmBatch, dmTable, dmNext, askVars, dmRestarts>>

\* Pools are cancelled: a future no worker has taken yet is dropped.
DmReclaimPools ==
  /\ dmCall = "reclaim"
  /\ dmBatch' = [b \in Batches |->
       [dmBatch[b] EXCEPT !.cancel = @ \/ dmBatch[b].pool, !.pool = FALSE]]
  /\ dmRun' = [r \in Runs |->
       IF dmRun[r].work = "queued" /\ dmBatch[dmRun[r].batch].pool
       THEN [dmRun[r] EXCEPT !.work = "dropped"]
       ELSE dmRun[r]]
  /\ dmCall' = "clear"
  /\ UNCHANGED <<dmTable, dmNext, askVars, dmRestarts>>

\* The dropped futures' callbacks have run; the handles are free again.
DmReclaimClear ==
  /\ dmCall = "clear"
  /\ \A r \in Runs : dmRun[r].work # "dropped"
  /\ dmTable' = [h \in Handles |-> 0] /\ dmNext' = 1
  /\ dmCall' = "none"
  /\ UNCHANGED <<dmRun, dmBatch, askVars, dmRestarts>>

----------------------------------------------------------------------------
(* _handle_ask and the ask workers                                         *)

DmAskCli(e) ==
  /\ DmBackend(e) \in Resumable \cup {"claude"}
  /\ dmRun[e].work \in {"busy", "ended", "over"}
  /\ dmAsk = 0 /\ dmAsk' = e /\ dmReply' = "silent"
  /\ UNCHANGED dmRun
DmAskLingtai(e) ==
  /\ DmBackend(e) = "lingtai" /\ ~DmDone(e)
  /\ DmPut(e, [dmRun[e] EXCEPT !.buffer = TRUE])
  /\ UNCHANGED askVars

DmAskCall(h) ==
  /\ dmCall = "none" /\ dmTable[h] # 0
  /\ DmAskCli(dmTable[h]) \/ DmAskLingtai(dmTable[h])
  /\ UNCHANGED <<dmBatch, dmTable, dmNext, dmCall, dmRestarts>>

\* What a follow-up's end is announced as: "silent" when it said nothing, and
\* the terminal session of "claude", which the event of a batch that is over
\* stops at once, as completed with the text "[cancelled]".
AskReport == [timedOut : BOOLEAN, ok : BOOLEAN, error : BOOLEAN, spoke : BOOLEAN]
DmReplyIf(failed, spoke) ==
  CASE failed -> "failed" [] ~failed /\ spoke -> "completed" [] OTHER -> "silent"
DmClaudeReply(x)   == DmReplyIf(x.timedOut \/ ~x.ok \/ x.error, x.spoke)
DmCodexReply(x)    == DmReplyIf(x.timedOut \/ ~x.ok \/ (x.error /\ ~x.spoke), x.spoke)
DmOpencodeReply(x) == DmReplyIf(x.timedOut \/ ~x.ok, x.spoke)
DmCursorReply(x)   == DmReplyIf(x.timedOut \/ ~x.ok \/ x.error, x.spoke)
DmInteractiveReply(x, r) ==
  IF DmCancelled(r) THEN "cancelled" ELSE DmReplyIf(x.timedOut \/ ~x.ok, x.spoke)
DmReply(x, r) ==
  CASE DmBackend(r) = "claude-p" -> DmClaudeReply(x)
    [] DmBackend(r) = "codex"    -> DmCodexReply(x)
    [] DmBackend(r) = "cursor"   -> DmCursorReply(x)
    [] DmBackend(r) = "claude"   -> DmInteractiveReply(x, r)
    [] OTHER                     -> DmOpencodeReply(x)

\* _publish_followup_if_live
DmLive(r) ==
  LET e == dmTable[dmRun[r].handle] IN e # 0 /\ ~dmRun[e].shut

\* Bug: a follow-up takes the run's one terminal announcement.
DmAskEndsClaims ==
  /\ dmAsk # 0 /\ dmAsk' = 0
  /\ DmPut(dmAsk, [dmRun[dmAsk] EXCEPT !.claimed = TRUE])
  /\ UNCHANGED <<dmBatch, dmTable, dmNext, dmCall, dmReply, dmRestarts>>

\* The worker ends by end of output, its deadline or a kill.  The follow-up it
\* announces does not touch the run's own announcement.
DmAskEnds ==
  /\ dmAsk # 0 /\ dmAsk' = 0
  /\ \E x \in AskReport :
       dmReply' = IF DmLive(dmAsk) THEN DmReply(x, dmAsk) ELSE "silent"
  /\ UNCHANGED <<dmRun, dmBatch, dmTable, dmNext, dmCall, dmRestarts>>

----------------------------------------------------------------------------
\* The process dies: threads, table and tracking go; commands live on in their
\* sessions.  The next manager fails the records of the dead parent.
DmRestart ==
  /\ dmRestarts < MaxRestarts
  /\ dmRestarts' = dmRestarts + 1
  /\ dmRun' = [r \in Runs |->
       [dmRun[r] EXCEPT !.work = IF @ \in {"over", "refused"} THEN @ ELSE "lost",
                        !.disk = IF @ = "running" THEN "failed" ELSE @,
                        !.tracked = FALSE, !.buffer = FALSE]]
  /\ dmBatch' = [b \in Batches |->
       [dmBatch[b] EXCEPT !.pool = FALSE,
                          !.watch = IF @ = "none" THEN "none" ELSE "over"]]
  /\ dmTable' = [h \in Handles |-> 0] /\ dmNext' = 1 /\ dmCall' = "none"
  /\ dmAsk' = 0 /\ dmReply' = "silent"

DmCallSteps == DmSubmit \/ DmEnter \/ DmRefuse \/ DmDispatch
               \/ DmReclaimPools \/ DmReclaimClear
DmWork(r) == DmBegin(r) \/ DmRegister(r) \/ DmReap(r) \/ DmTurnEnds(r)
             \/ DmLingtaiEnds(r) \/ DmAnnounce(r)
DmEvent(r) == DmExit(r) \/ DmBreak(r) \/ DmLine(r)
              \/ DmToolRound(r) \/ DmDrain(r)
DmWatch(b) == DmExpire(b) \/ DmWatchKill(b)

DmNext ==
  \/ \E backend \in Backends, n \in 1..MaxTasks : DmEmanate(backend, n)
  \/ DmCallSteps
  \/ \E r \in Runs : DmWork(r) \/ DmEvent(r)
  \/ \E b \in Batches : DmWatch(b)
  \/ DmReclaim
  \/ \E h \in Handles : DmAskCall(h)
  \/ DmAskEnds \/ DmRestart
DmSpec == DmInit /\ [][DmNext]_dmVars

\* Threads and the run loop run; a model answers, and its turns are capped
\* (max_turns).  A command may run, and be silent, for ever.
DmFairness ==
  /\ WF_dmVars(DmCallSteps)
  /\ \A r \in 1..MaxRuns : WF_dmVars(r \in Runs /\ DmWork(r))
  /\ \A b \in 1..MaxBatches : WF_dmVars(b \in Batches /\ DmWatch(b))

----------------------------------------------------------------------------
DmTypeOK ==
  /\ dmRun \in Seq(RunRecord) /\ Len(dmRun) <= MaxRuns
  /\ dmBatch \in Seq(BatchRecord) /\ Len(dmBatch) <= MaxBatches
  /\ dmTable \in [Handles -> 0..Len(dmRun)]
  /\ dmNext \in 1..MaxRuns + 1
  /\ dmCall \in {"none", "emanate", "enter", "reclaim", "clear"}
  /\ dmAsk \in 0..MaxRuns
  /\ dmReply \in {"silent", "failed", "completed", "cancelled"}
  /\ dmRestarts \in 0..MaxRestarts

\* Reclaim makes the handles free while workers of the reclaimed runs still
\* end, so that a later run may have the handle of an earlier one.
Shares(r) == \E q \in Runs \ {r} : dmRun[q].handle = dmRun[r].handle

\* "Deliver every terminal state ... Deliver exactly once per run"
\* (core/daemon/__init__.py:5785-5789): when a run is over it has been
\* announced, under its own directory or, when the table no longer or not yet
\* knew its handle, under the handle alone (_on_emanation_done).  Of two runs
\* with one handle only one need be, under the directory of either: the first
\* callback takes the claim of the directory that the handle leads to.
EndAnnounced ==
  \A r \in Runs : dmRun[r].work = "over" =>
    \E q \in Runs :
      /\ dmRun[q].handle = dmRun[r].handle /\ dmRun[q].said.status # "none"
      /\ Shares(r) \/ dmRun[q].said.named \in {r, 0}

\* What is announced of a run is what its record says; of a run whose entry
\* reclaim has removed, a timeout may be called cancelled; a failure that came
\* before the run's loop leaves the record running (_classify_terminal_state).
TruthTold ==
  \A r \in Runs : LET said == dmRun[r].said IN
    dmRun[r].work = "over" /\ said.status # "none" /\ said.named \in {r, 0} =>
      \/ said.status = dmRun[r].disk
      \/ said.named = 0 /\ said.status = "cancelled" /\ dmRun[r].disk = "timeout"
      \/ said.status = "failed" /\ dmRun[r].disk = "running"

\* A watchdog never ends the work of another batch, nor of one that was in
\* time (_kill_cli_group, _arm_batch_done_cancel).
TimeoutIsOwn ==
  \A r \in Runs :
    dmRun[r].reason = "timeout" \/ dmRun[r].disk = "timeout"
      => dmBatch[dmRun[r].batch].timedOut

\* A daemon run ends for the reason it is announced with: the announcement
\* agrees with its record, and no watchdog ends another batch's work
\* (_classify_terminal_state, _watchdog).
EndsAsTold == TruthTold /\ TimeoutIsOwn

\* Every run of a dispatched batch ends, by itself, by its watchdog or by
\* reclaim, unless a kill scan came before its process was registered
\* (_watchdog, _shutdown_runtime_resources).
DmRuns(r) == r \in Runs /\ dmRun[r].work \in {"queued", "spawned", "busy", "last"}
RunEnds ==
  \A r \in 1..MaxRuns :
    DmRuns(r) ~> ~DmRuns(r) \/ dmRun[r].missed
                 \/ dmBatch[dmRun[r].batch].stage = "refused"
=============================================================================
