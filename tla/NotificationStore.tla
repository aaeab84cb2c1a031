-------------------------- MODULE NotificationStore --------------------------
(***************************************************************************)
(* The merged channel `.notification/system.json` and one plain channel    *)
(* (lingtai_kernel/notifications.py).  Any thread of the agent adds events *)
(* to system.json; the heartbeat's goal check adds and clears reminders;   *)
(* the run loop's tools dismiss.  Each of them reads the file, computes    *)
(* and writes the whole file back, under _system_notification_lock.  A     *)
(* plain channel is rewritten whole by its producer and has no lock.       *)
(***************************************************************************)
EXTENDS Integers, Sequences, FiniteSets

CONSTANTS
  Posters,       \* threads that enqueue: mail bounces, daemon ends, MCP events
  PostRefs,      \* the refs they enqueue under
  Goals,         \* goals a person or a tool may write to goal.json
  MaxEvents,     \* the 20 of "Cap at the 20 most recent"
  MaxPosts,      \* bound: events ever enqueued
  MaxGoalMoves   \* bound: changes of goal.json

ASSUME StoreAssumption == /\ Goals \cap PostRefs = {}
                          /\ "none" \notin Goals \cup PostRefs /\ "free" \notin Posters
                          /\ MaxEvents \in Nat \ {0}
                          /\ MaxPosts \in Nat /\ MaxGoalMoves \in Nat

VARIABLES
  stEvents,   \* events in system.json; <<>>: the file is absent
  stOwner,    \* who holds _system_notification_lock, "free" for nobody
  stAt,       \* per thread: the operation it is in
  stBuf,      \* per thread: the events it has read
  stRef,      \* per thread: the ref it enqueues, keeps or dismisses
  stSkip,     \* per thread: skip_if_ref_id_exists / force
  stFp,       \* system.json's entry of agent._notification_fp
  stKnown,    \* events of the file that some committed fingerprint had
  stPosted,   \* events enqueued so far: the next event_id
  stGoal,     \* the active goal of goal.json, "none" without one
  stMoves,    \* changes of goal.json so far
  stSnooze    \* _goal_reminder_last_dismissed_at is within the delay

stVars == <<stEvents, stOwner, stAt, stBuf, stRef, stSkip, stFp, stKnown,
            stPosted, stGoal, stMoves, stSnooze>>

StThreads == Posters \cup {"hb", "rl"}
StRefs    == PostRefs \cup Goals
StEvent   == [id : 1..MaxPosts, ref : StRefs]
StIds(events) == {events[i].id : i \in DOMAIN events}
StHasRef(events, r) == \E i \in DOMAIN events : events[i].ref = r
\* The events under some refs, in their order.
StUnder(events, refs) ==
  LET kept[n \in 0..Len(events)] ==
        IF n = 0 THEN <<>>
        ELSE IF events[n].ref \in refs THEN Append(kept[n - 1], events[n])
        ELSE kept[n - 1]
  IN kept[Len(events)]

StInit ==
  /\ stEvents = <<>> /\ stOwner = "free"
  /\ stAt = [t \in StThreads |-> "idle"]
  /\ stBuf = [t \in StThreads |-> <<>>]
  /\ stRef = [t \in StThreads |-> "none"]
  /\ stSkip = [t \in StThreads |-> FALSE]
  /\ stFp = <<>> /\ stKnown = {} /\ stPosted = 0
  /\ stGoal \in Goals \cup {"none"} /\ stMoves = 0 /\ stSnooze = FALSE

StGoto(t, at) == stAt' = [stAt EXCEPT ![t] = at]
\* An operation returns: its locals are gone.
StReturn(t) == /\ StGoto(t, "idle")
               /\ stBuf' = [stBuf EXCEPT ![t] = <<>>]
               /\ stRef' = [stRef EXCEPT ![t] = "none"]
               /\ stSkip' = [stSkip EXCEPT ![t] = FALSE]
StTake(t)     == stOwner = "free" /\ stOwner' = t
StRelease     == stOwner' = "free"
StRead(t)     == stBuf' = [stBuf EXCEPT ![t] = stEvents]
goalVars  == <<stGoal, stMoves>>

----------------------------------------------------------------------------
(* _enqueue_system_notification                                            *)

\* A bug: the file is read before the lock is taken.
StEnqueueReadEarly(t) ==
  /\ StRead(t)
  /\ StGoto(t, "append")
  /\ \/ /\ t \in Posters /\ stAt[t] = "idle" /\ stPosted < MaxPosts
        /\ \E r \in PostRefs : stRef' = [stRef EXCEPT ![t] = r]
     \/ stAt[t] = "enqueue" /\ UNCHANGED stRef
  /\ UNCHANGED <<stEvents, stOwner, stSkip, stFp, stKnown, stPosted, goalVars,
                 stSnooze>>

\* The lock, then the file.  A producer has a ref; the goal check has its own.
StEnqueueRead(t) ==
  /\ StTake(t)
  /\ StRead(t)
  /\ StGoto(t, "append")
  /\ \/ /\ t \in Posters /\ stAt[t] = "idle" /\ stPosted < MaxPosts
        /\ \E r \in PostRefs, skip \in BOOLEAN :
              /\ stRef' = [stRef EXCEPT ![t] = r]
              /\ stSkip' = [stSkip EXCEPT ![t] = skip]
     \/ stAt[t] = "enqueue" /\ UNCHANGED <<stRef, stSkip>>
  /\ UNCHANGED <<stEvents, stFp, stKnown, stPosted, goalVars, stSnooze>>

\* A bug: it is capped before the new one is added.
StCappedLate(events) ==
  SubSeq(events, IF Len(events) > MaxEvents + 1 THEN Len(events) - MaxEvents
                 ELSE 1, Len(events))

\* events[-20:]
StCapped(events) ==
  SubSeq(events, 1 + (IF Len(events) > MaxEvents THEN Len(events) - MaxEvents
                      ELSE 0), Len(events))

\* At the bound of posts the write is skipped; a real one would go on.
StAppend(t) ==
  /\ stAt[t] = "append"
  /\ IF stPosted = MaxPosts \/ (stSkip[t] /\ StHasRef(stBuf[t], stRef[t]))
     THEN UNCHANGED <<stEvents, stPosted>>
     ELSE /\ stEvents' = StCapped(Append(stBuf[t], [id |-> stPosted + 1,
                                                    ref |-> stRef[t]]))
          /\ stPosted' = stPosted + 1
  /\ StRelease
  /\ StReturn(t)
  /\ UNCHANGED <<stFp, stKnown, goalVars, stSnooze>>

----------------------------------------------------------------------------
(* nudge/goal.py, on the heartbeat of an IDLE agent                        *)

\* check up to its first lock: no goal, or one that has waited its delay.
StGoalCheck ==
  /\ stAt["hb"] = "idle"
  /\ stRef' = [stRef EXCEPT !["hb"] = stGoal]
  /\ StGoto("hb", "goal_clear")
  /\ UNCHANGED <<stEvents, stOwner, stBuf, stSkip, stFp, stKnown, stPosted, goalVars,
                 stSnooze>>

StGoalClearRead ==
  /\ stAt["hb"] = "goal_clear"
  /\ StTake("hb")
  /\ StRead("hb")
  /\ StGoto("hb", "goal_cleared")
  /\ UNCHANGED <<stEvents, stRef, stSkip, stFp, stKnown, stPosted, goalVars,
                 stSnooze>>

\* A bug: nothing is cleared once there is no goal.
StGoalKeptIdle(events, keep) ==
  StUnder(events, IF keep = "none" THEN StRefs ELSE PostRefs \cup {keep})

\* _clear_goal_reminders_locked: every reminder goes but keep_ref_id's.
StGoalKept(events, keep) ==
  StUnder(events, PostRefs \cup {keep})

StGoalClearWrite ==
  /\ stAt["hb"] = "goal_cleared"
  /\ stEvents' = StGoalKept(stBuf["hb"], stRef["hb"])
  /\ StRelease
  /\ IF stRef["hb"] = "none"
     THEN StReturn("hb")
     ELSE StGoto("hb", "goal_scan") /\ UNCHANGED <<stBuf, stRef, stSkip>>
  /\ UNCHANGED <<stFp, stKnown, stPosted, goalVars, stSnooze>>

\* A bug: it does not look whether the reminder is there.
StGoalScanBlind ==
  /\ stAt["hb"] = "goal_scan"
  /\ IF stSnooze THEN StReturn("hb")
     ELSE StGoto("hb", "enqueue") /\ UNCHANGED <<stBuf, stRef, stSkip>>
  /\ UNCHANGED <<stEvents, stOwner, stFp, stKnown, stPosted, goalVars,
                 stSnooze>>

\* Is it there already, or was it dismissed just now?  Read without the lock.
StGoalScan ==
  /\ stAt["hb"] = "goal_scan"
  /\ IF StHasRef(stEvents, stRef["hb"]) \/ stSnooze
     THEN StReturn("hb")
     ELSE StGoto("hb", "enqueue") /\ UNCHANGED <<stBuf, stRef, stSkip>>
  /\ UNCHANGED <<stEvents, stOwner, stFp, stKnown, stPosted, goalVars,
                 stSnooze>>

\* goal.json is rewritten, by a person or by the agent's file tools.
StSetGoal ==
  /\ stMoves < MaxGoalMoves
  /\ \E g \in (Goals \cup {"none"}) \ {stGoal} : stGoal' = g
  /\ stMoves' = stMoves + 1
  /\ UNCHANGED <<stEvents, stOwner, stAt, stBuf, stRef, stSkip, stFp, stKnown,
                 stPosted, stSnooze>>

StSnoozeOver ==
  /\ stSnooze /\ stSnooze' = FALSE
  /\ UNCHANGED <<stEvents, stOwner, stAt, stBuf, stRef, stSkip, stFp, stKnown,
                 stPosted, goalVars>>

----------------------------------------------------------------------------
(* What the agent has been shown: agent._notification_fp                   *)

StCommitted(events) ==
  /\ stFp' = events
  /\ stKnown' = (stKnown \cup StIds(events)) \cap StIds(stEvents)

\* _sync_notifications of the heartbeat takes the fingerprint, then commits it.
StSyncRead ==
  /\ stAt["hb"] = "idle"
  /\ StRead("hb")
  /\ StGoto("hb", "sync")
  /\ UNCHANGED <<stEvents, stOwner, stRef, stSkip, stFp, stKnown, stPosted,
                 goalVars, stSnooze>>

StSyncCommit ==
  /\ stAt["hb"] = "sync"
  /\ StCommitted(stBuf["hb"])
  /\ StReturn("hb")
  /\ UNCHANGED <<stEvents, stOwner, stPosted, goalVars, stSnooze>>

\* _commit_notification_fp after a tool batch: the directory as it is then.
StBatchCommit ==
  /\ stAt["rl"] = "idle"
  /\ StCommitted(stEvents)
  /\ UNCHANGED <<stEvents, stOwner, stAt, stBuf, stRef, stSkip, stPosted,
                 goalVars, stSnooze>>

----------------------------------------------------------------------------
(* dismiss_channel                                                         *)

\* Without force, a file that is there must be the one committed.
StStale(current, delivered) == current # <<>> /\ delivered # current

\* "all" for dismiss_channel("system"), a ref for dismiss_ref, dismiss_event.
StDismissRead ==
  /\ stAt["rl"] = "idle"
  /\ StTake("rl")
  /\ \E r \in StRefs \cup {"all"}, force \in BOOLEAN :
        /\ force \/ ~StStale(stEvents, stFp)
        /\ stRef' = [stRef EXCEPT !["rl"] = r]
        /\ stSkip' = [stSkip EXCEPT !["rl"] = force]
  /\ StRead("rl")
  /\ StGoto("rl", "dismissing")
  /\ UNCHANGED <<stEvents, stFp, stKnown, stPosted, goalVars, stSnooze>>

StMatches(ref) == IF ref = "all" THEN StRefs ELSE {ref}

\* A dismissed goal reminder stays away for a delay.
StDismissWrite ==
  /\ stAt["rl"] = "dismissing"
  /\ LET gone(e) == e.ref \in StMatches(stRef["rl"])
     IN /\ stEvents' = StUnder(stBuf["rl"], StRefs \ StMatches(stRef["rl"]))
        /\ stSnooze' = (stSnooze \/ \E i \in DOMAIN stBuf["rl"] :
                                      /\ gone(stBuf["rl"][i])
                                      /\ stBuf["rl"][i].ref \in Goals)
  /\ StRelease
  /\ StReturn("rl")
  /\ UNCHANGED <<stFp, stKnown, stPosted, goalVars>>

----------------------------------------------------------------------------
StHeartbeat == \/ StGoalCheck \/ StGoalClearRead \/ StGoalClearWrite
               \/ StGoalScan \/ StSyncRead \/ StSyncCommit
StRunLoop == StBatchCommit \/ StDismissRead \/ StDismissWrite
StNext == \/ \E t \in StThreads : StEnqueueRead(t) \/ StAppend(t)
          \/ StHeartbeat \/ StRunLoop
          \/ StSetGoal \/ StSnoozeOver
StSpec == StInit /\ [][StNext]_stVars

\* Threads finish what they are in; the heartbeat comes back to the goal check
\* of an agent that is IDLE long enough again and again.
StLockStep == StGoalClearRead \/ StEnqueueRead("hb")
StOwnerStep == \/ \E t \in StThreads : StAppend(t)
               \/ StGoalClearWrite \/ StDismissWrite
StFairness == /\ SF_stVars(StGoalCheck) /\ SF_stVars(StLockStep)
              /\ WF_stVars(StOwnerStep) /\ WF_stVars(StGoalScan \/ StSyncCommit)

----------------------------------------------------------------------------
(* Properties                                                              *)

StTypeOK ==
  /\ stEvents \in Seq(StEvent) /\ Len(stEvents) <= MaxEvents
  /\ stOwner \in StThreads \cup {"free"}
  /\ \A t \in StThreads :
       stOwner = t <=> stAt[t] \in {"append", "goal_cleared", "dismissing"}
  /\ stAt \in [StThreads -> {"idle", "enqueue", "append", "goal_clear",
                             "goal_cleared", "goal_scan", "sync",
                             "dismissing"}]
  /\ stBuf \in [StThreads -> Seq(StEvent)]
  /\ stRef \in [StThreads -> StRefs \cup {"none", "all"}]
  /\ stSkip \in [StThreads -> BOOLEAN]
  /\ stFp \in Seq(StEvent) /\ stKnown \subseteq 1..MaxPosts
  /\ stPosted \in 0..MaxPosts
  /\ stGoal \in Goals \cup {"none"} /\ stMoves \in 0..MaxGoalMoves
  /\ stSnooze \in BOOLEAN

\* A read-modify-write of system.json keeps what the others added: an event
\* leaves the file only when the agent had committed a fingerprint that holds
\* it, when the agent forced the dismissal, when it is a reminder of a goal
\* that was replaced, or when twenty newer ones push it out
\* (messaging.py:_enqueue_system_notification, notifications.py:dismiss_channel).
UnreadKept ==
  [][LET lost == {i \in DOMAIN stEvents : stEvents[i].id \notin StIds(stEvents')}
     IN \A i \in lost :
          \/ stEvents[i].id \in stKnown
          \/ stAt["rl"] = "dismissing" /\ stSkip["rl"]
          \/ stAt["hb"] = "goal_cleared" /\ stEvents[i].ref \in Goals
          \/ Len(stEvents) = MaxEvents /\ i = 1 /\ stPosted' = stPosted + 1
    ]_stVars

\* The goal check looks for its reminder without the lock and adds one in a
\* later section; still no goal is reminded of twice (nudge/goal.py:check).
OneReminder ==
  \A g \in Goals : Cardinality({i \in DOMAIN stEvents : stEvents[i].ref = g}) <= 1

\* A reminder of a goal that was replaced or finished while the check was
\* between its sections does not stay (nudge/goal.py:_clear_goal_reminders).
StaleReminderGoes ==
  \A g \in Goals : <>[](stGoal # g) => <>[](~StHasRef(stEvents, g))
=============================================================================
