------------------------------ MODULE Pressure ------------------------------
(***************************************************************************)
(* How full the context is and what the agent is told of it: the usage a   *)
(* provider reports (session.py), the streak of rounds with a full context *)
(* (reminders/context_pressure.py), the rebuilds of the provider's context *)
(* an adapter announces, and what of all that is stamped on a tool result  *)
(* (meta_block.py, tool_executor.py). A usage is one of the bands that the *)
(* thresholds 0.6, 0.75 and 0.95 make, a token total counts to a budget.   *)
(***************************************************************************)
EXTENDS Integers, Sequences, FiniteSets

CONSTANTS
  PsRounds,  \* bound: requests
  PsBatch,   \* bound: results of a batch
  PsWrites,  \* bound: rebuilds
  PsMolts,   \* bound: molts, and restarts
  PsBudget   \* cache_miss_budget, in responses that missed the cache

ASSUME PressureAssumption ==
  /\ PsRounds \in Nat /\ PsBatch \in Nat /\ PsWrites \in Nat /\ PsMolts \in Nat
  /\ PsBudget \in Nat \ {0}

VARIABLES
  psPhase,    \* "send" between batches, "wait" for an answer, "tools"
  psUsage,    \* _latest_input_tokens as a band, "none" before the first
  psMeasured, \* the request that usage is the size of, or 0
  psServed,   \* the adapter's _last_provider_input_tokens
  psCalls,    \* _api_calls
  psMissed,   \* total input less total cached
  psStreak, psLastRound,  \* the ContextPressureReminder
  psDelayed,  \* the adapter holds back the effect of summaries
  psPending,  \* its _pending_reconstruction_event
  psLogged,   \* _last_current_molt_event_round of the turn's executor
  psDue,      \* results of the batch that are still to be stamped
  psStamp,    \* the blocks stamped last
  psRequests, \* requests so far
  psRebuilds, \* rebuilds so far
  psReported, \* rebuilds a result has told of
  psTurnovers

psVars == <<psPhase, psUsage, psMeasured, psServed, psCalls, psMissed, psStreak,
            psLastRound, psDelayed, psPending, psLogged, psDue, psStamp, psRequests,
            psRebuilds, psReported, psTurnovers>>
psMeter == <<psUsage, psMeasured, psCalls, psMissed>>
psReminder == <<psStreak, psLastRound>>
psAdapter == <<psServed, psDelayed, psPending, psRebuilds>>
psTold == <<psStamp, psReported>>

Bands == {"low", "mid", "high", "full"}
High(band) == band \in {"high", "full"}
Recovered(band) == band = "low"
WarnAfter == 3

NoEvent == [id |-> 0, at |-> 0, kind |-> "none"]
NoStamp == [molt |-> 0, hint |-> FALSE, budget |-> FALSE, event |-> NoEvent, after |-> 0,
            warns |-> FALSE, logs |-> FALSE, calls |-> 0, missed |-> 0]

PsInit ==
  /\ psPhase = "send" /\ psUsage = "none" /\ psMeasured = 0 /\ psServed = "none"
  /\ psCalls = 0 /\ psMissed = 0 /\ psStreak = 0 /\ psLastRound = 0
  /\ psDelayed = FALSE /\ psPending = NoEvent /\ psLogged = 0 /\ psDue = 0
  /\ psStamp = NoStamp /\ psRequests = 0 /\ psRebuilds = 0 /\ psReported = [r \in {} |-> 0]
  /\ psTurnovers = 0

----------------------------------------------------------------------------
(* Requests *)

\* _record_reconstruction_event: a newer one takes the place of one not yet told.
Rebuilt(kind) ==
  /\ psRebuilds < PsWrites
  /\ psRebuilds' = psRebuilds + 1
  /\ psPending' = [id |-> psRebuilds + 1, at |-> psRequests, kind |-> kind]
  /\ psDelayed' = FALSE

\* The delayed effect of summaries is released by a request after a full one.
PsSend ==
  /\ psPhase = "send" /\ psRequests < PsRounds
  /\ IF psDelayed /\ psServed = "full" THEN Rebuilt("automatic")
     ELSE UNCHANGED <<psRebuilds, psPending, psDelayed>>
  /\ psRequests' = psRequests + 1 /\ psPhase' = "wait" /\ psStamp' = NoStamp
  /\ UNCHANGED <<psMeter, psServed, psReminder, psLogged, psDue, psReported, psTurnovers>>

\* note_round, once per response that tells its usage.
RoundNoted(band) ==
  IF psCalls + 1 = psLastRound THEN UNCHANGED psReminder
  ELSE /\ psLastRound' = psCalls + 1
       /\ psStreak' = IF High(band) THEN psStreak + 1 ELSE 0

\* _track_usage, and a batch of n tool calls.
PsAnswer(band, missed, n) ==
  /\ psPhase = "wait" /\ psPhase' = "tools" /\ psDue' = n
  /\ psCalls' = psCalls + 1
  /\ psMissed' = IF missed /\ psMissed < PsBudget THEN psMissed + 1 ELSE psMissed
  /\ psUsage' = band /\ psServed' = band /\ psMeasured' = psRequests
  /\ RoundNoted(band)
  /\ UNCHANGED <<psDelayed, psPending, psRebuilds, psLogged, psTold, psRequests, psTurnovers>>

\* A response without a usage.
PsAnswerBlind(n) ==
  /\ psPhase = "wait" /\ psPhase' = "tools" /\ psDue' = n
  /\ psCalls' = psCalls + 1 /\ psServed' = "none"
  /\ UNCHANGED <<psUsage, psMeasured, psMissed, psReminder, psDelayed, psPending, psRebuilds,
                 psLogged, psTold, psRequests, psTurnovers>>

PsFail ==
  /\ psPhase = "wait" /\ psPhase' = "send"
  /\ UNCHANGED <<psMeter, psReminder, psAdapter, psLogged, psDue, psTold, psRequests,
                 psTurnovers>>

----------------------------------------------------------------------------
(* Tools *)

Working == psPhase = "tools" /\ psDue > 0

\* system(summarize): the effect is delayed, or not when the context is full already.
PsSummarize ==
  /\ Working /\ ~psDelayed
  /\ IF psServed = "full" THEN Rebuilt("automatic")
     ELSE psDelayed' = TRUE /\ UNCHANGED <<psRebuilds, psPending>>
  /\ UNCHANGED <<psPhase, psMeter, psServed, psReminder, psLogged, psDue, psTold, psRequests,
                 psTurnovers>>

\* system(summarize, rebuild_only)
PsRebuild ==
  /\ Working
  /\ Rebuilt("manual")
  /\ UNCHANGED <<psPhase, psMeter, psServed, psReminder, psLogged, psDue, psTold, psRequests,
                 psTurnovers>>

\* A molt: another chat with an estimated size, totals from zero. The reminder stays.
PsMolt(band) ==
  /\ Working /\ psTurnovers < PsMolts /\ psTurnovers' = psTurnovers + 1
  /\ psUsage' = band /\ psMeasured' = psRequests /\ psCalls' = 0 /\ psMissed' = 0
  /\ psServed' = "none" /\ psDelayed' = FALSE /\ psPending' = NoEvent
  /\ UNCHANGED <<psPhase, psReminder, psRebuilds, psLogged, psDue, psTold, psRequests>>

----------------------------------------------------------------------------
(* Stamps *)

\* _current_context_usage: what was measured last, else an estimate of the chat.
ContextUsage == IF psMeasured # 0 THEN {psUsage} ELSE Bands

\* The reminder is active after WarnAfter full rounds in a row, until one is not.
Active == psStreak >= WarnAfter

\* build_cache_miss_budget_context, of the totals that survive a restart.
BudgetSpent == psMissed >= PsBudget

\* _build_session_token_economy: the totals since the last molt.
Economy == [NoStamp EXCEPT !.calls = psCalls, !.missed = psMissed]

\* build_meta: the streak, when it warns; the hint of a rebuild; the spent budget.
Told(usage) == [Economy EXCEPT !.molt = IF Active THEN psStreak ELSE 0,
                               !.hint = High(usage), !.budget = BudgetSpent]

\* The event of a warning is logged once a round.
Logs == Active /\ psLastRound # psLogged
Emitted == psLogged' = IF Logs THEN psLastRound ELSE psLogged

\* Bug: the adapter keeps the event it has handed out.
KeptPending == psPending

\* take_pending_reconstruction_event
Taken == NoEvent

\* build_reconstruction_tool_meta: with the latest size, and a warning above 0.6.
Stamp(usage) ==
  [Told(usage) EXCEPT !.logs = Logs, !.event = psPending,
                      !.after = IF psPending.id # 0 THEN psMeasured ELSE 0,
                      !.warns = psPending.id # 0 /\ ~Recovered(usage)]

\* _attach_tool_block on a result that is a dict.
PsStamp ==
  /\ Working /\ psDue' = psDue - 1
  /\ \E usage \in ContextUsage : psStamp' = Stamp(usage)
  /\ Emitted
  /\ psPending' = Taken
  /\ psReported' = IF psPending.id = 0 THEN psReported
                   ELSE [r \in DOMAIN psReported \cup {psPending.id} |->
                          (IF r \in DOMAIN psReported THEN psReported[r] ELSE 0)
                          + (IF r = psPending.id THEN 1 ELSE 0)]
  /\ UNCHANGED <<psPhase, psMeter, psServed, psReminder, psDelayed, psRebuilds, psRequests,
                 psTurnovers>>

\* A result that is not.
PsPlain ==
  /\ Working /\ psDue' = psDue - 1
  /\ UNCHANGED <<psPhase, psMeter, psReminder, psAdapter, psLogged, psTold, psRequests,
                 psTurnovers>>

\* The batch goes to the provider; or the turn is over, and the next has another executor.
PsBatchEnds(over) ==
  /\ psPhase = "tools" /\ psDue = 0 /\ psPhase' = "send"
  /\ psLogged' = IF over THEN 0 ELSE psLogged
  /\ UNCHANGED <<psMeter, psReminder, psAdapter, psDue, psTold, psRequests, psTurnovers>>

\* A new process restores the totals.
PsRestart ==
  /\ psTurnovers < PsMolts /\ psTurnovers' = psTurnovers + 1
  /\ psPhase' = "send" /\ psUsage' = "none" /\ psMeasured' = 0 /\ psServed' = "none"
  /\ psStreak' = 0 /\ psLastRound' = 0 /\ psDelayed' = FALSE /\ psPending' = NoEvent
  /\ psLogged' = 0 /\ psDue' = 0
  /\ UNCHANGED <<psCalls, psMissed, psTold, psRequests, psRebuilds>>

PsNext ==
  \/ PsSend \/ PsFail \/ PsSummarize \/ PsRebuild \/ PsStamp \/ PsPlain \/ PsRestart
  \/ \E band \in Bands, missed \in BOOLEAN, n \in 0..PsBatch : PsAnswer(band, missed, n)
  \/ \E n \in 0..PsBatch : PsAnswerBlind(n)
  \/ \E band \in {"low", "mid"} : PsMolt(band)
  \/ \E over \in BOOLEAN : PsBatchEnds(over)

PsSpec == PsInit /\ [][PsNext]_psVars

----------------------------------------------------------------------------
(* Properties *)

\* Every value is of its type.
PsTypeOK ==
  /\ psPhase \in {"send", "wait", "tools"}
  /\ {psUsage, psServed} \subseteq Bands \cup {"none"}
  /\ psMeasured \in 0..psRequests /\ psCalls \in 0..psRequests /\ psMissed \in 0..PsBudget
  /\ psStreak \in 0..PsRounds /\ psLastRound \in 0..PsRounds /\ psLogged \in 0..PsRounds
  /\ psDelayed \in BOOLEAN /\ psDue \in 0..PsBatch
  /\ psPending.id \in 0..psRebuilds
  /\ DOMAIN psReported \subseteq 1..psRebuilds /\ psTurnovers \in 0..PsMolts

\* A rebuild is told by one result at most, and of the chat it was made in: none that
\* waited when the agent molted is told later. The totals a result tells are of one
\* molt: no more calls missed the cache than were made.
ToldOnce ==
  /\ \A r \in DOMAIN psReported : psReported[r] = 1
  /\ psPending.id # 0 => psPending.id \notin DOMAIN psReported
  /\ psStamp.event.id # 0 => psStamp.event.id \in DOMAIN psReported
  /\ psStamp.missed <= psStamp.calls

\* The size a result gives for the context after a rebuild is that of a request sent
\* after it ("at attach time _latest_input_tokens already holds the provider-reported
\* size of the rebuilt context", meta_block.py).
AfterIsAfter == psStamp.event.id # 0 => psStamp.after > psStamp.event.at

\* The streak counts each response that told a full context once ("counted exactly once
\* per real provider response", session.py): a low one ends it.
LowEnds == psMeasured = psRequests /\ psPhase = "tools" /\ psServed = "low" => psStreak = 0
=============================================================================
