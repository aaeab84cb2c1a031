---------------------------- MODULE CodexSession -----------------------------
(***************************************************************************)
(* A Codex Responses session (lingtai/llm/openai/adapter.py): the local    *)
(* history is converted for each request, with every tool result shown as  *)
(* it was first shown, and over a websocket only what the server has not   *)
(* seen is sent, after the id of a response that socket has given.         *)
(***************************************************************************)
EXTENDS Integers, Sequences, FiniteSets, SequencesExt

CONSTANTS
  CxTransports, \* transports a session may be made with
  CxMaxIds,     \* bound: user messages and turns, which share their ids
  CxMaxFaults   \* bound: failures of a request

ASSUME CodexAssumption ==
  /\ CxTransports \subseteq {"rest", "websocket"}
  /\ CxMaxIds \in Nat /\ CxMaxFaults \in Nat

CxIds == 1..CxMaxIds

VARIABLES
  cxTransport,
  cxHist,    \* the interface: entries
  cxNext,    \* next id
  cxFrozen,  \* _ws_frozen_outputs: call -> body, "none"
  cxBase,    \* _ws_session: last request and last response
  cxSocket,  \* _ws_transport: "none", "live", or "dead" once the peer closed
  cxPending, \* _summarize_effect_delayed_pending_ids
  cxFull,    \* the last request reached the delayed-summarize threshold
  cxFlight,  \* the request in flight
  cxServer,  \* the last completed response as the server has it
  cxFaults

cxVars == <<cxTransport, cxHist, cxNext, cxFrozen, cxBase, cxSocket, cxPending,
            cxFull, cxFlight, cxServer, cxFaults>>

\* A result's content: with the live meta, without it once newer results carry
\* that, summarized by the agent, or synthesized for a call without a result.
Bodies == {"live", "bare", "short", "aborted"}

\* Entries of the interface; a turn may reason under encryption and call a tool.
User(n)         == [role |-> "user", id |-> n, calls |-> FALSE, secret |-> FALSE, body |-> "none"]
Turn(n, c, s)   == [role |-> "turn", id |-> n, calls |-> c, secret |-> s, body |-> "none"]
Result(n, body) == [role |-> "result", id |-> n, calls |-> FALSE, secret |-> FALSE, body |-> body]
CxEntry == [role : {"user", "turn", "result"}, id : CxIds, calls : BOOLEAN,
            secret : BOOLEAN, body : Bodies \cup {"none"}]

Item(kind, n, body) == [kind |-> kind, id |-> n, body |-> body]
Placeholder(n) == Item("output", n, "orphan")

\* to_responses_input: reasoning, text, then the call.
ItemsOf(e) ==
  CASE e.role = "user" -> <<Item("user", e.id, "none")>>
    [] e.role = "result" -> <<Item("output", e.id, e.body)>>
    [] e.role = "turn" -> (IF e.secret THEN <<Item("reasoning", e.id, "none")>> ELSE <<>>)
                          \o <<Item("text", e.id, "none")>>
                          \o (IF e.calls THEN <<Item("call", e.id, "none")>> ELSE <<>>)

\* The items of a sequence that are in a set.
Only(items, set) ==
  FlattenSeq([k \in DOMAIN items |-> IF items[k] \in set THEN <<items[k]>> ELSE <<>>])

\* _pair_responses_orphan_function_calls: placeholders at the tail.
Unanswered(items) ==
  Only(items, {i \in ToSet(items) : i.kind = "call"
                 /\ ~\E j \in DOMAIN items : items[j].kind = "output" /\ items[j].id = i.id})
PairOrphans(items) ==
  items \o [k \in 1..Len(Unanswered(items)) |-> Placeholder(Unanswered(items)[k].id)]

\* _strip_synthesized_orphan_outputs
Real(items) == Only(items, {i \in ToSet(items) : i.body # "orphan"})

Converted(h) == PairOrphans(FlattenSeq([i \in DOMAIN h |-> ItemsOf(h[i])]))

\* _freeze_responses_outputs: the first body seen is kept and replayed.
Shown(frozen, i) ==
  IF i.kind # "output" \/ i.body = "orphan" \/ frozen[i.id] = "none" THEN i
  ELSE [i EXCEPT !.body = frozen[i.id]]
Frozen(frozen, items) == [k \in DOMAIN items |-> Shown(frozen, items[k])]
FreezeNow(frozen, items) ==
  [n \in CxIds |->
     IF frozen[n] # "none" THEN frozen[n]
     ELSE IF \E k \in DOMAIN items : items[k].kind = "output" /\ items[k].id = n
                                       /\ items[k].body # "orphan"
     THEN (CHOOSE i \in ToSet(items) : i.kind = "output" /\ i.id = n).body
     ELSE "none"]
NothingFrozen == [n \in CxIds |-> "none"]

\* last_request.input and last_response; id 0: no response yet.
NoBase == [input |-> <<>>, added |-> <<>>, id |-> 0]
NoFlight == [mode |-> "none", full |-> <<>>, delta |-> <<>>, prev |-> 0]
\* here: the socket that gave the response is still the session's.
NoServer == [id |-> 0, saw |-> <<>>, meant |-> <<>>, here |-> FALSE, fresh |-> {}]

CxInit ==
  /\ cxTransport \in CxTransports
  /\ cxHist = <<>> /\ cxNext = 1
  /\ cxFrozen = NothingFrozen /\ cxBase = NoBase /\ cxSocket = "none"
  /\ cxPending = {} /\ cxFull = FALSE
  /\ cxFlight = NoFlight /\ cxServer = NoServer /\ cxFaults = 0

CxIdle == cxFlight.mode = "none"
CxFault == cxFaults < CxMaxFaults /\ cxFaults' = cxFaults + 1
TailCalls(h) == h # <<>> /\ Last(h).calls

----------------------------------------------------------------------------
(* The request                                                             *)

ThisEpoch == [frozen |-> cxFrozen, base |-> cxBase, socket |-> cxSocket, pending |-> cxPending]

\* Bug: the frozen outputs outlive the epoch.
EpochKeepsFrozen(epoch) ==
  [epoch EXCEPT !.base = NoBase, !.socket = "none", !.pending = {}]

\* _reset_ws_epoch
NewEpoch(epoch) ==
  [frozen |-> NothingFrozen, base |-> NoBase, socket |-> "none", pending |-> {}]

\* _maybe_reset_ws_epoch; the turn limit is off by default.
EpochAtSend ==
  IF cxPending # {} /\ cxFull THEN NewEpoch(ThisEpoch) ELSE ThisEpoch

\* Bug: what the server has added is sent to it again.
BaselineOfRequest(base) == base.input
\* _codex_incremental_diagnose: the baseline the input must extend.
Baseline(base) == base.input \o base.added

Everything(full) == [prev |-> 0, delta |-> full]

\* _codex_plan_continuation: the id and what is sent after it, or everything.
Planned(base, full) ==
  IF base.id # 0 /\ IsPrefix(Baseline(base), full)
  THEN [prev |-> base.id, delta |-> SubSeq(full, Len(Baseline(base)) + 1, Len(full))]
  ELSE Everything(full)

Fly(mode, full, plan) ==
  cxFlight' = [mode |-> mode, full |-> full, prev |-> plan.prev, delta |-> plan.delta]

\* _codex_ws_open: over the session's socket, opened when there is none.
CxOverSocket(epoch, full) ==
  /\ cxTransport = "websocket" /\ Fly("socket", full, Planned(epoch.base, full))
  /\ cxSocket' = (IF epoch.socket = "none" THEN "live" ELSE epoch.socket)
  /\ UNCHANGED cxFaults

\* Over HTTP everything is sent whatever is planned: by a rest session, and for
\* this request by one whose websocket cannot be opened.
CxOverHttp(epoch, full) ==
  \/ /\ cxTransport = "rest" /\ Fly("rest", full, Everything(full))
     /\ cxSocket' = epoch.socket /\ UNCHANGED cxFaults
  \/ /\ cxTransport = "websocket" /\ epoch.socket = "none" /\ CxFault
     /\ Fly("http", full, Everything(full)) /\ cxSocket' = "none"

\* The request for history h.
CxRequest(h, epoch) ==
  LET full == Frozen(epoch.frozen, Converted(h))
  IN /\ cxHist' = h
     /\ cxFrozen' = FreezeNow(epoch.frozen, full)
     /\ cxBase' = epoch.base /\ cxPending' = epoch.pending
     /\ CxOverSocket(epoch, full) \/ CxOverHttp(epoch, full)
     /\ cxServer' = [cxServer EXCEPT !.here = @ /\ epoch.socket # "none"]

\* A user message; session.send closes the calls of the tail first.
Closed(h) == IF TailCalls(h) THEN Append(h, Result(Last(h).id, "aborted")) ELSE h
CxSendText ==
  /\ CxIdle /\ cxNext <= CxMaxIds
  /\ cxNext' = cxNext + 1
  /\ CxRequest(Append(Closed(cxHist), User(cxNext)), EpochAtSend)
  /\ UNCHANGED <<cxTransport, cxFull>>

\* The result of the tail's call takes the live meta over from older ones.
MetaMoved(h) ==
  [i \in DOMAIN h |-> [h[i] EXCEPT !.body = IF @ = "live" THEN "bare" ELSE @]]
CxSendResult ==
  /\ CxIdle /\ TailCalls(cxHist)
  /\ CxRequest(Append(MetaMoved(cxHist), Result(Last(cxHist).id, "live")), EpochAtSend)
  /\ UNCHANGED <<cxTransport, cxNext, cxFull>>

----------------------------------------------------------------------------
(* Its outcome                                                             *)

\* _ws_record_baseline_from_interface: what was sent and, after it, the turn,
\* both as the next conversion gives them.
BaselineAfter(turn, id) == [input |-> Real(cxFlight.full), added |-> ItemsOf(turn), id |-> id]

\* A response is completed: the server's context of it, the turn and the
\* baseline for the next request.
CxComplete(calls, secret, full) ==
  /\ ~CxIdle /\ cxNext <= CxMaxIds
  /\ cxFlight.mode = "socket" => cxSocket = "live" /\ (cxFlight.prev # 0 => cxServer.here)
  /\ LET turn == Turn(cxNext, calls, secret)
         context == (IF cxFlight.prev = 0 THEN <<>> ELSE cxServer.saw) \o cxFlight.delta
         added == ItemsOf(turn)
     IN /\ cxHist' = Append(cxHist, turn)
        /\ cxServer' = [id |-> cxNext, saw |-> context \o added,
                        meant |-> cxFlight.full \o added,
                        here |-> cxFlight.mode = "socket",
                        fresh |-> {cxHist[i].id : i \in {j \in DOMAIN cxHist :
                                     cxHist[j].body = "short"}} \ cxPending]
        /\ cxBase' = IF cxFlight.mode = "http" THEN cxBase ELSE BaselineAfter(turn, cxNext)
  /\ cxNext' = cxNext + 1 /\ cxFlight' = NoFlight
  /\ cxFull' = full
  /\ UNCHANGED <<cxTransport, cxFrozen, cxSocket, cxPending, cxFaults>>

\* The peer closes in the middle: the stream ends without an error and without
\* a completed response.  The turn is recorded, and the baseline with it, under
\* the id of the response before.
CxCutShort ==
  /\ cxFlight.mode = "socket" /\ cxSocket = "live" /\ cxNext <= CxMaxIds /\ CxFault
  /\ LET turn == Turn(cxNext, FALSE, FALSE)
     IN /\ cxHist' = Append(cxHist, turn)
        /\ cxBase' = IF cxBase.id = 0 THEN cxBase ELSE BaselineAfter(turn, cxBase.id)
  /\ cxSocket' = "dead" /\ cxFull' = FALSE
  /\ cxNext' = cxNext + 1 /\ cxFlight' = NoFlight
  /\ UNCHANGED <<cxTransport, cxFrozen, cxPending, cxServer>>

\* drop_trailing(role == "user"); session.send commits results again whose
\* calls this leaves pending.
Undone(h) ==
  LET kept == {i \in DOMAIN h : \E j \in i..Len(h) : h[j].role = "turn"}
      rest == SubSeq(h, 1, Cardinality(kept))
  IN IF Last(h).role = "result" THEN h ELSE rest

\* The request fails.  A frame that names a response its socket has not given,
\* and one sent on a socket the peer closed, can only fail.
CxFail ==
  /\ ~CxIdle
  /\ LET doomed == cxFlight.mode = "socket"
                   /\ (cxSocket = "dead" \/ (cxFlight.prev # 0 /\ ~cxServer.here))
     IN IF doomed THEN UNCHANGED cxFaults ELSE CxFault
  /\ cxHist' = Undone(cxHist)
  /\ cxFlight' = NoFlight
  /\ cxSocket' = IF cxFlight.mode = "socket" THEN "none" ELSE cxSocket
  /\ cxServer' = [cxServer EXCEPT !.here = @ /\ cxFlight.mode # "socket"]
  /\ UNCHANGED <<cxTransport, cxNext, cxFrozen, cxBase, cxPending, cxFull>>

\* The backend cannot verify the encrypted reasoning: it is stripped from the
\* history, the epoch starts anew and everything is sent again over HTTP.
CxHeal ==
  /\ cxFlight.mode \in {"rest", "http"} /\ CxFault
  /\ \E i \in DOMAIN cxHist : cxHist[i].secret
  /\ LET h == [i \in DOMAIN cxHist |-> [cxHist[i] EXCEPT !.secret = FALSE]]
         epoch == NewEpoch(ThisEpoch)
         full == Frozen(epoch.frozen, Converted(h))
     IN /\ cxHist' = h
        /\ cxFrozen' = FreezeNow(epoch.frozen, full)
        /\ cxBase' = epoch.base /\ cxPending' = epoch.pending /\ cxSocket' = epoch.socket
        /\ cxFlight' = [cxFlight EXCEPT !.full = full, !.delta = full]
        /\ cxServer' = [cxServer EXCEPT !.here = FALSE]
  /\ UNCHANGED <<cxTransport, cxNext, cxFull>>

----------------------------------------------------------------------------
(* Between requests                                                        *)

CxEpoch(epoch) ==
  /\ cxFrozen' = epoch.frozen /\ cxBase' = epoch.base
  /\ cxSocket' = epoch.socket
  /\ cxServer' = [cxServer EXCEPT !.here = @ /\ epoch.socket # "none"]

\* The agent summarizes an old result (system summarize, on_history_summarized):
\* the effect waits for the threshold.
CxSummarize(n) ==
  /\ CxIdle /\ TailCalls(cxHist)
  /\ \E i \in DOMAIN cxHist : cxHist[i].id = n /\ cxHist[i].body \in {"live", "bare"}
  /\ cxHist' = [i \in DOMAIN cxHist |->
       IF cxHist[i].id = n /\ cxHist[i].body # "none"
       THEN [cxHist[i] EXCEPT !.body = "short"] ELSE cxHist[i]]
  /\ IF cxFull THEN CxEpoch(NewEpoch(ThisEpoch)) /\ cxPending' = {}
     ELSE UNCHANGED <<cxFrozen, cxBase, cxSocket, cxServer>> /\ cxPending' = cxPending \cup {n}
  /\ UNCHANGED <<cxTransport, cxNext, cxFull, cxFlight, cxFaults>>

\* request_history_rebuild
CxRebuild ==
  /\ CxIdle /\ TailCalls(cxHist)
  /\ CxEpoch(NewEpoch(ThisEpoch)) /\ cxPending' = {}
  /\ UNCHANGED <<cxTransport, cxHist, cxNext, cxFull, cxFlight, cxFaults>>

CxNext ==
  \/ CxSendText \/ CxSendResult
  \/ \E calls, secret, full \in BOOLEAN : CxComplete(calls, secret, full)
  \/ CxCutShort \/ CxFail \/ CxHeal
  \/ \E n \in CxIds : CxSummarize(n)
  \/ CxRebuild
CxSpec == CxInit /\ [][CxNext]_cxVars

----------------------------------------------------------------------------
CxItems == Seq([kind : {"user", "reasoning", "text", "call", "output"}, id : CxIds,
                body : Bodies \cup {"none", "orphan"}])
CxTypeOK ==
  /\ cxTransport \in CxTransports
  /\ cxHist \in Seq(CxEntry) /\ cxNext \in 1..CxMaxIds + 1
  /\ cxFrozen \in [CxIds -> Bodies \cup {"none"}]
  /\ cxBase \in [input : CxItems, added : CxItems, id : 0..CxMaxIds]
  /\ cxSocket \in {"none", "live", "dead"}
  /\ cxPending \subseteq CxIds /\ cxFull \in BOOLEAN
  /\ cxFlight \in [mode : {"none", "socket", "http", "rest"}, full : CxItems,
                   delta : CxItems, prev : 0..CxMaxIds]
  /\ cxServer \in [id : 0..CxMaxIds, saw : CxItems, meant : CxItems,
                   here : BOOLEAN, fresh : SUBSET CxIds]
  /\ cxFaults \in 0..CxMaxFaults

\* What the model answers to is the whole history, each item once, also when
\* only a delta was sent after failures, reconnections and rewrites of the
\* history (_codex_plan_continuation, _ws_record_baseline_from_interface); and
\* a result the agent has summarized is shown summarized once its effect no
\* longer waits (_reset_ws_epoch).
ModelSeesHistory ==
  /\ Real(cxServer.saw) = Real(cxServer.meant)
  /\ \A k \in DOMAIN cxServer.saw :
       cxServer.saw[k].kind = "output" /\ cxServer.saw[k].id \in cxServer.fresh
         => cxServer.saw[k].body = "short"
=============================================================================
