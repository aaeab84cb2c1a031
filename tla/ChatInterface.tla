---------------------------- MODULE ChatInterface ----------------------------
(***************************************************************************)
(* The canonical chat history, lingtai_kernel/llm/interface.py, with       *)
(* everybody who writes to it in one agent process: session.send and the   *)
(* adapter behind it, the tool loop and its error paths, the molt, the     *)
(* notification heal-and-inject, and the reload after a restart.           *)
(*                                                                         *)
(* The modelled adapter is the one the Anthropic and OpenAI chat sessions  *)
(* share: append the message, serialise, call, and on an error drop the    *)
(* trailing user entries.  Every append is unlocked.                       *)
(***************************************************************************)
EXTENDS Integers, Sequences, FiniteSets

CONSTANTS
  Prompts,          \* texts of the system prompt, tools included
  FirstPrompt,      \* the one the process starts with
  NoPrompt,         \* None
  MoltKeeps,        \* values of keep_last a molt may be called with
  MaxCalls,         \* bound: tool call ids ever issued
  MaxSends,         \* bound: requests to the provider
  MaxTrims,         \* _OVERFLOW_MAX_ROUNDS
  MaxCrashes,       \* bound: restarts
  MaxUpdates,       \* bound: changes of the system prompt
  Races             \* "late": tool results may get a late answer that calls;
                    \* "inject": a notification pair may come while tools run

ASSUME PromptAssumption == FirstPrompt \in Prompts /\ NoPrompt \notin Prompts
ASSUME KeepAssumption   == MoltKeeps \subseteq Nat
ASSUME BoundAssumption  == /\ MaxCalls \in Nat /\ MaxSends \in Nat
                           /\ MaxTrims \in Nat /\ MaxCrashes \in Nat
                           /\ MaxUpdates \in Nat
ASSUME RaceAssumption   == Races \subseteq {"late", "inject"}

Ids == 1..MaxCalls

VARIABLES
  chat,       \* the ChatInterface: entries, current and deferred prompt
  prompt,     \* what build_system_prompt gives now
  phase,      \* "idle" in no call, "sending" a request, "exec" running tools
  request,    \* what the request in flight was made of
  batch,      \* ids of the calls being run, or whose results were just sent
  logged,     \* ids with a tool_result event in logs/events.jsonl
  nextId,     \* first unused id
  trims,      \* overflow rounds of the request in flight
  disk,       \* history/chat_history.jsonl
  sends, crashes, updates

counters == <<sends, crashes, updates>>
vars == <<chat, prompt, phase, request, batch, logged, nextId, trims, disk,
          counters>>

-----------------------------------------------------------------------------
(***************************************************************************)
(* Entries.  An entry is a system prompt, an assistant turn with the ids   *)
(* it calls, or a user turn with the ids it answers; `real` are those      *)
(* answered by a block that is not synthesized.                            *)
(***************************************************************************)

EntryType ==
  [role : {"system", "user", "assistant"}, calls : SUBSET Ids,
   results : SUBSET Ids, real : SUBSET Ids, prompt : Prompts \cup {NoPrompt}]

System(p) == [role |-> "system", calls |-> {}, results |-> {}, real |-> {},
              prompt |-> p]
Text == [role |-> "user", calls |-> {}, results |-> {}, real |-> {},
         prompt |-> NoPrompt]
Results(ids, real) == [Text EXCEPT !.results = ids, !.real = real]
Assistant(ids) == [Text EXCEPT !.role = "assistant", !.calls = ids]

Calls(h)    == UNION {h[i].calls : i \in DOMAIN h}
Answered(h) == UNION {h[i].results : i \in DOMAIN h}

\* Faulty: any turn with unanswered-looking calls, wherever it is.
PendingAnywhere(h) == \E i \in DOMAIN h : h[i].calls # {}

\* has_pending_tool_calls
Pending(h) == h # <<>> /\ h[Len(h)].calls # {}

\* Faulty: no lookup in the event log.
CloseBlind(h, log) ==
  IF Pending(h) THEN Append(h, Results(h[Len(h)].calls, {})) ELSE h

\* close_pending_tool_calls: a result found in the event log is replayed, the
\* other calls get a placeholder.
Close(h, log) ==
  IF Pending(h)
  THEN Append(h, Results(h[Len(h)].calls, h[Len(h)].calls \cap log)) ELSE h

\* add_tool_results: written over the placeholders there are, the others
\* appended in one entry.
Placeholders(h) == UNION {h[i].results \ h[i].real : i \in DOMAIN h}
AddResults(h, ids) ==
  LET over == [i \in DOMAIN h |->
                 [h[i] EXCEPT !.real = @ \cup (h[i].results \cap ids)]]
      rest == ids \ Placeholders(h)
  IN IF rest = {} THEN over ELSE Append(over, Results(rest, rest))

\* Faulty: the mark of a real result outlives the result.
StripKeepsReal(h, i) ==
  [h[i] EXCEPT !.calls = IF i = Len(h) THEN @ ELSE @ \cap Answered(h),
               !.results = @ \cap Calls(h)]

\* enforce_tool_pairing: calls never answered and results never called are
\* taken out of their entries, but for the turn at the tail.
Strip(h, i) ==
  [h[i] EXCEPT !.calls = IF i = Len(h) THEN @ ELSE @ \cap Answered(h),
               !.results = @ \cap Calls(h),
               !.real = @ \cap Calls(h)]

StripOrphans(h) ==
  IF Calls(h) = Answered(h) THEN h ELSE [i \in DOMAIN h |-> Strip(h, i)]

\* drop_trailing(role == "user")
DropUsers(h) ==
  LET kept == {i \in DOMAIN h : \E j \in i..Len(h) : h[j].role # "user"}
  IN SubSeq(h, 1, Cardinality(kept))

\* _trim_context_one_round: about a tenth of what follows the first system
\* entry goes, up to the next cut that parts no results from their calls; a
\* history with no such cut short of its end is left alone.
HeadLen(h) == IF h # <<>> /\ h[1].role = "system" THEN 1 ELSE 0
Tenth(n) == IF n < 20 THEN 1 ELSE n \div 10
Cuts(h) ==
  {c \in (HeadLen(h) + Tenth(Len(h) - HeadLen(h)))..(Len(h) - 1) :
     h[c].calls = {} /\ h[c + 1].results = {}}
CanTrim(h) == Len(h) - HeadLen(h) > 1 /\ Cuts(h) # {}
Trim(h) ==
  LET cut == CHOOSE c \in Cuts(h) : \A d \in Cuts(h) : c <= d
  IN SubSeq(h, 1, HeadLen(h)) \o SubSeq(h, cut + 1, Len(h))

-----------------------------------------------------------------------------
(***************************************************************************)
(* The object: its entries and its two notes of the system prompt.         *)
(***************************************************************************)

ChatType == [entries : Seq(EntryType), current : Prompts \cup {NoPrompt},
             deferred : Prompts \cup {NoPrompt}]

Fresh(p) == [entries |-> <<System(p)>>, current |-> p, deferred |-> NoPrompt]

\* Faulty: a changed prompt is appended whatever the tail is.
AddSystemAtOnce(c, p) ==
  IF p = c.current THEN [c EXCEPT !.deferred = NoPrompt]
  ELSE [entries |-> Append(c.entries, System(p)), current |-> p,
        deferred |-> NoPrompt]

\* add_system: a changed prompt waits while calls are pending.
AddSystem(c, p) ==
  IF p = c.current THEN [c EXCEPT !.deferred = NoPrompt]
  ELSE IF Pending(c.entries)
  THEN [c EXCEPT !.current = p, !.deferred = p]
  ELSE [entries |-> Append(c.entries, System(p)), current |-> p,
        deferred |-> NoPrompt]

\* _flush_pending_system, unless the last system entry says the same.
SystemAt(h) == {i \in DOMAIN h : h[i].role = "system"}
LastPrompt(h) ==
  IF SystemAt(h) = {} THEN NoPrompt
  ELSE h[CHOOSE i \in SystemAt(h) : \A j \in SystemAt(h) : j <= i].prompt
Flush(c) ==
  IF c.deferred = NoPrompt \/ Pending(c.entries) THEN c
  ELSE [c EXCEPT !.deferred = NoPrompt,
                 !.entries = IF LastPrompt(@) = c.deferred THEN @
                             ELSE Append(@, System(c.deferred))]

Enforce(c) == LET f == Flush(c) IN [f EXCEPT !.entries = StripOrphans(@)]

\* session.send tells the chat the prompt, then the tools with the prompt the
\* chat has by then.
Refresh(c, p) == LET told == AddSystem(c, p) IN AddSystem(told, told.current)

\* ChatInterface.from_dict, then restore_chat; a missing file starts afresh.
Reload(h, p, log) ==
  IF h = <<>> THEN Fresh(p)
  ELSE [entries |-> Close(StripOrphans(h), log),
        current |-> LastPrompt(h), deferred |-> NoPrompt]

TypeOK ==
  /\ chat \in ChatType
  /\ \A i \in DOMAIN chat.entries :
       chat.entries[i].real \subseteq chat.entries[i].results
  /\ prompt \in Prompts
  /\ phase \in {"idle", "sending", "exec"}
  /\ request \in {"text", "results", "none"}
  /\ batch \subseteq Ids /\ logged \subseteq Ids
  /\ nextId \in 1..(MaxCalls + 1)
  /\ trims \in 0..MaxTrims
  /\ disk \in Seq(EntryType)
  /\ sends \in 0..MaxSends /\ crashes \in 0..MaxCrashes
  /\ updates \in 0..MaxUpdates

Init ==
  /\ chat = Fresh(FirstPrompt) /\ prompt = FirstPrompt
  /\ phase = "idle" /\ request = "none" /\ batch = {} /\ logged = {}
  /\ nextId = 1 /\ trims = 0 /\ disk = <<>>
  /\ sends = 0 /\ crashes = 0 /\ updates = 0

-----------------------------------------------------------------------------
(***************************************************************************)
(* Requests to the provider.                                               *)
(***************************************************************************)

Entries == chat.entries
SetEntries(h) == chat' = [chat EXCEPT !.entries = h]
Save == disk' = chat'.entries

\* The sections of the prompt change: a tool, a capability, a loaded pad.
UpdateSystemPrompt(p) ==
  /\ phase \in {"idle", "exec"} /\ p # prompt
  /\ updates < MaxUpdates /\ updates' = updates + 1
  /\ prompt' = p
  /\ chat' = AddSystem(chat, p)
  /\ UNCHANGED <<phase, request, batch, logged, nextId, trims, disk, sends,
                 crashes>>

Send(kind) ==
  /\ sends < MaxSends /\ sends' = sends + 1
  /\ phase' = "sending" /\ request' = kind /\ trims' = 0
  /\ UNCHANGED <<prompt, batch, logged, nextId, disk, crashes, updates>>

\* session.send(text): the prompt, _health_check, add_user_message, and the
\* pairing when the request is built.
SendText ==
  /\ phase = "idle"
  /\ LET told == Refresh(chat, prompt)
     IN chat' = Enforce([told EXCEPT !.entries = Append(Close(@, logged), Text)])
  /\ Send("text")

\* session.send(tool_results)
SendResults ==
  /\ phase = "exec" /\ batch \subseteq logged
  /\ chat' = Enforce([Refresh(chat, prompt) EXCEPT !.entries = AddResults(@, batch)])
  /\ Send("results")

\* session.send(None), from _handle_tc_wake.
SendNone ==
  /\ phase = "idle" /\ Entries[Len(Entries)].results # {}
  /\ chat' = Enforce(Refresh(chat, prompt))
  /\ Send("none")

\* A context overflow: one round of trimming, and the request is built again.
TrimContext ==
  /\ phase = "sending" /\ trims < MaxTrims /\ CanTrim(Entries)
  /\ trims' = trims + 1
  /\ chat' = Enforce([chat EXCEPT !.entries = Trim(@)])
  /\ UNCHANGED <<prompt, phase, request, batch, logged, nextId, disk, counters>>

\* The answer, after the overflow notice if there was a trim.
WithNotice == IF trims = 0 THEN Entries ELSE Append(Entries, Text)
NewIds(n) == nextId..(nextId + n - 1)
AppendAnswer(n) == Append(WithNotice, Assistant(NewIds(n)))

Answer(n) ==
  /\ phase = "sending" /\ nextId + n <= MaxCalls + 1
  /\ SetEntries(AppendAnswer(n)) /\ Save
  /\ nextId' = nextId + n
  /\ batch' = NewIds(n)
  /\ phase' = IF n = 0 THEN "idle" ELSE "exec"
  /\ UNCHANGED <<prompt, request, logged, trims, counters>>

\* The request raised and left history h: the results just sent are committed
\* again when calls are pending, a wake closes what is, and so does AED.
Recover(h) ==
  LET restore == request = "results" /\ Pending(h)
      kept == IF restore THEN AddResults(h, batch) ELSE h
      closed == Close(kept, logged)
  IN /\ SetEntries(closed)
     /\ disk' = IF restore THEN kept
                ELSE IF request = "none" /\ Pending(h) THEN closed ELSE disk
     /\ phase' = "idle" /\ batch' = {}
     /\ UNCHANGED <<prompt, request, logged, trims, counters>>

\* The provider call raises, and the adapter rolls back.
Fail ==
  /\ phase = "sending"
  /\ Recover(IF request = "none" THEN Entries ELSE DropUsers(Entries))
  /\ UNCHANGED nextId

\* The watchdog fires and the worker answers within the settle grace: the
\* answer is in the history, and the caller sees a TimeoutError.  When it was
\* given tool results and calls again, they are committed a second time.
LateAnswer(n) ==
  /\ request = "results" /\ n > 0 => "late" \in Races
  /\ phase = "sending" /\ nextId + n <= MaxCalls + 1
  /\ Recover(AppendAnswer(n))
  /\ nextId' = nextId + n

-----------------------------------------------------------------------------
(***************************************************************************)
(* The tool loop.                                                          *)
(***************************************************************************)

\* A tool returns and its tool_result event is written.
RunTool(id) ==
  /\ phase = "exec" /\ id \in batch \ logged
  /\ logged' = logged \cup {id}
  /\ UNCHANGED <<chat, prompt, phase, request, batch, nextId, trims, disk,
                 counters>>

\* psyche(context, molt): the file is archived, a fresh chat is made, the last
\* entries but the molt's own are replayed, and the molt's call on its own.  A
\* call that is not in the history any more is refused.
KeepLast(h, id, n) ==
  LET own == {i \in DOMAIN h : h[i].role = "system" \/ id \in h[i].calls \cup h[i].results}
      rest == DOMAIN h \ own
      last == {i \in rest : Cardinality({j \in rest : j > i}) < n}
      nth(k) == CHOOSE i \in last : Cardinality({j \in last : j <= i}) = k
  IN [k \in 1..Cardinality(last) |-> h[nth(k)]]

Molt(id, n) ==
  /\ phase = "exec" /\ id \in (batch \ logged) \cap Calls(Entries)
  /\ LET fresh == Fresh(prompt)
     IN chat' = [fresh EXCEPT !.entries =
                   (@ \o KeepLast(Entries, id, n)) \o <<Assistant({id})>>]
  /\ disk' = <<>>
  /\ logged' = logged \cup {id}
  /\ UNCHANGED <<prompt, phase, request, batch, nextId, trims, counters>>

\* The turn ends with the history as h, and saves it.
EndTurn(h) ==
  /\ SetEntries(h) /\ Save
  /\ phase' = "idle" /\ batch' = {}
  /\ UNCHANGED <<prompt, request, logged, nextId, trims, counters>>

\* A cancel seen before dispatch, or by the executor before a later call of the
\* batch: what has run is in the event log only, and every call is left dangling.
Abandon == phase = "exec" /\ EndTurn(Entries)

\* _handle_guarded_non_dispatch
GuardStop ==
  phase = "exec" /\ batch \cap logged = {} /\ EndTurn(Close(Entries, logged))

\* A cancel or a poll backoff after the tools: commit_tool_results.
StopAfterTools ==
  phase = "exec" /\ batch \subseteq logged /\ EndTurn(AddResults(Entries, batch))

-----------------------------------------------------------------------------
(***************************************************************************)
(* The other writers.                                                      *)
(***************************************************************************)

\* Falling asleep, or a heal on its own.
Heal ==
  /\ phase = "idle" /\ Pending(Entries)
  /\ SetEntries(Close(Entries, logged)) /\ Save
  /\ UNCHANGED <<prompt, phase, request, batch, logged, nextId, trims, counters>>

\* _inject_notification_pair, after _heal_pending_tool_calls when need be.
InjectPair ==
  /\ phase = "idle" \/ (phase = "exec" /\ "inject" \in Races)
  /\ nextId <= MaxCalls
  /\ SetEntries(Close(Entries, logged)
                  \o <<Assistant({nextId}), Results({nextId}, {})>>)
  /\ Save
  /\ nextId' = nextId + 1
  /\ UNCHANGED <<prompt, phase, request, batch, logged, trims, counters>>

\* The process dies, and the next one starts from the files.
Restart ==
  /\ crashes < MaxCrashes /\ crashes' = crashes + 1
  /\ chat' = Reload(disk, prompt, logged)
  /\ phase' = "idle" /\ request' = "none" /\ batch' = {} /\ trims' = 0
  /\ UNCHANGED <<prompt, logged, nextId, disk, sends, updates>>

Next ==
  \/ \E p \in Prompts : UpdateSystemPrompt(p)
  \/ SendText \/ SendResults \/ SendNone
  \/ TrimContext
  \/ \E n \in 0..2 : Answer(n)
  \/ Fail
  \/ \E n \in 0..2 : LateAnswer(n)
  \/ \E id \in Ids : RunTool(id)
  \/ \E id \in Ids, n \in MoltKeeps : Molt(id, n)
  \/ Abandon \/ GuardStop \/ StopAfterTools
  \/ Heal \/ InjectPair \/ Restart

Spec == Init /\ [][Next]_vars

-----------------------------------------------------------------------------
(***************************************************************************)
(* Properties.                                                             *)
(***************************************************************************)

\* Strict providers: a request shows every tool call with its result in the
\* very next entry, and no result anywhere else.
WireValid ==
  phase = "sending" =>
    \A i \in DOMAIN Entries :
      /\ Entries[i].calls # {} =>
           i < Len(Entries) /\ Entries[i].calls = Entries[i + 1].results
      /\ Entries[i].results # {} =>
           i > 1 /\ Entries[i].results = Entries[i - 1].calls

\* Strict providers reject a second answer to one call id.
OneResultPerId ==
  \A i, j \in DOMAIN Entries :
    i # j => Entries[i].results \cap Entries[j].results = {}

\* A tool that ran, and whose result is in the event log, is never shown to
\* the model as aborted: the roll-back of a failed request, a restart and the
\* heals all replay the real result.
RanIsShown ==
  phase = "sending" =>
    \A i \in DOMAIN Entries :
      Entries[i].results \cap logged \subseteq Entries[i].real

\* What a request carries: pairs, one result to a call, and what the tools that
\* ran gave, whoever of the writers above wrote in what order.
HistoryLegal == WireValid /\ OneResultPerId /\ RanIsShown

\* The model is told the system prompt the session holds: a prompt changed
\* while calls are pending is flushed with the next request.
PromptReachesModel == phase = "sending" => LastPrompt(Entries) = chat.current
=============================================================================
