----------------------------- MODULE ProviderTurn -----------------------------
(***************************************************************************)
(* One request to a provider, in the five kinds of chat session            *)
(* lingtai/llm has: "openai" and "anthropic" record a message, send the    *)
(* canonical history and take trailing user entries back on an error;      *)
(* "claude-code" restores a snapshot; "gemini" (interactions) and          *)
(* "responses" send the message alone and name the previous answer, whose  *)
(* context the provider keeps.  The caller is the run loop: the results of *)
(* the calls of an answer, else a text, after an error the same again or   *)
(* another.                                                                *)
(***************************************************************************)
EXTENDS Integers, Sequences, FiniteSets, SequencesExt

CONSTANTS
  PtKinds,
  PtSends,   \* bound: requests
  PtTrims,   \* _OVERFLOW_MAX_ROUNDS
  PtRebuilds \* bound: new sessions over the same history

ASSUME ProviderAssumption ==
  /\ PtKinds \subseteq {"openai", "anthropic", "claude-code", "gemini", "responses"}
  /\ PtSends \in Nat /\ PtTrims \in Nat /\ PtRebuilds \in Nat

VARIABLES
  ptKind,
  ptHist,    \* the canonical history, after its system prompt
  ptMirror,  \* _client_history, of gemini
  ptSeed,    \* _pending_seed_turns
  ptChain,   \* _interaction_id, _response_id; 0 is None
  ptServer,  \* what the provider keeps, per answer
  ptFly,     \* the request in flight
  ptLast,    \* how the last one ended, its message, the call its answer made
  ptRan,     \* calls whose results were sent, answered or not
  ptTrimmed, \* entries an overflow took from the history
  ptSends, ptRebuilds

ptVars == <<ptKind, ptHist, ptMirror, ptSeed, ptChain, ptServer, ptFly, ptLast,
            ptRan, ptTrimmed, ptSends, ptRebuilds>>

Turned(who, id) == [who |-> who, id |-> id]
OverflowNotice == Turned("notice", 0)
NoRequest == [msg |-> OverflowNotice, before |-> <<>>, shown |-> <<>>, rounds |-> 0]
Flying == ptFly # NoRequest
CanonicalKind == ptKind \in {"openai", "anthropic", "claude-code"}
ServerKind == ptKind \in {"gemini", "responses"}

PtInit ==
  /\ ptKind \in PtKinds
  /\ ptHist = <<>> /\ ptMirror = <<>> /\ ptSeed = <<>> /\ ptChain = 0 /\ ptServer = <<>>
  /\ ptFly = NoRequest /\ ptLast = [how |-> "answered", msg |-> OverflowNotice, call |-> 0]
  /\ ptRan = {} /\ ptTrimmed = {} /\ ptSends = 0 /\ ptRebuilds = 0

----------------------------------------------------------------------------
(* Histories *)

PendingCall(h) == h # <<>> /\ h[Len(h)].who = "calls"

\* Bug: the text goes after the calls.
NotChecked(h) == h

\* _health_check: calls at the tail are closed before a text; the event log has
\* their results.
HealthChecked(h) == IF PendingCall(h) THEN Append(h, Turned("results", h[Len(h)].id)) ELSE h

\* _pair_orphan_tool_calls: a placeholder in the request for a call with no results
\* right after it.
WireGuarded(h) ==
  FlattenSeq([i \in DOMAIN h |->
    IF h[i].who = "calls" /\ (i = Len(h) \/ h[i + 1] # Turned("results", h[i].id))
    THEN <<h[i], Turned("placeholder", h[i].id)>> ELSE <<h[i]>>])

\* drop_trailing of user entries, which results and notices are too
WithoutTail(h) ==
  SubSeq(h, 1, Cardinality({i \in DOMAIN h : \E j \in i..Len(h) : h[j].who \in {"model", "calls"}}))

\* Where an overflow may cut: no results are parted from their calls.
SafeCuts(h) == {c \in 1..(Len(h) - 1) : h[c].who # "calls"}

\* What the provider keeps under an id.
Kept(id) == IF id = 0 THEN <<>> ELSE ptServer[id]

----------------------------------------------------------------------------
(* The request *)

\* The message is recorded before it is sent.
CanonicalRecord(msg) == Append(IF msg.who = "text" THEN HealthChecked(ptHist) ELSE ptHist, msg)

\* Gemini records results in the canonical history, and nothing else.
RecordedBy(msg) ==
  CASE CanonicalKind -> CanonicalRecord(msg)
    [] ptKind = "gemini" /\ msg.who = "results" -> Append(ptHist, msg)
    [] OTHER -> ptHist

InteractionInput(msg) == Kept(ptChain) \o Append(ptSeed, msg)
ResponsesInput(msg) == Append(Kept(ptChain), msg)

ShownBy(msg, h) ==
  CASE ptKind = "openai" -> WireGuarded(h)
    [] ptKind = "gemini" -> InteractionInput(msg)
    [] ptKind = "responses" -> ResponsesInput(msg)
    [] OTHER -> h

NextMessages ==
  IF ptLast.call # 0 THEN {Turned("results", ptLast.call)}
  ELSE {Turned("text", ptSends + 1)}
         \cup {m \in {ptLast.msg} : ptLast.how = "failed" /\ m.who = "text"}

\* Seed turns go out with the first request only, answered or not; the mirror then
\* gets them and not the message.
PtSend(msg) ==
  /\ ~Flying /\ ptSends < PtSends /\ msg \in NextMessages
  /\ ptHist' = RecordedBy(msg)
  /\ ptFly' = [msg |-> msg, before |-> ptHist, shown |-> ShownBy(msg, RecordedBy(msg)), rounds |-> 0]
  /\ ptSeed' = <<>>
  /\ ptMirror' = (CASE ptKind # "gemini" -> ptMirror
                    [] ptSeed # <<>> -> ptMirror \o ptSeed
                    [] OTHER -> Append(ptMirror, msg))
  /\ ptRan' = (IF msg.who = "results" THEN ptRan \cup {msg.id} ELSE ptRan)
  /\ ptSends' = ptSends + 1
  /\ UNCHANGED <<ptKind, ptChain, ptServer, ptLast, ptTrimmed, ptRebuilds>>

\* The errors that are told apart as an overflow, by the kinds that can cut.
MayOverflow == Flying /\ CanonicalKind

\* _run_with_overflow_recovery: the oldest entries go and the request is made again.
PtOverflow ==
  /\ MayOverflow /\ ptFly.rounds < PtTrims /\ SafeCuts(ptHist) # {}
  /\ LET cut == Min(SafeCuts(ptHist))
         rest == SubSeq(ptHist, cut + 1, Len(ptHist))
     IN /\ ptHist' = rest
        /\ ptTrimmed' = ptTrimmed \cup ToSet(SubSeq(ptHist, 1, cut))
        /\ ptFly' = [ptFly EXCEPT !.rounds = @ + 1, !.shown = ShownBy(ptFly.msg, rest)]
  /\ UNCHANGED <<ptKind, ptMirror, ptSeed, ptChain, ptServer, ptLast, ptRan, ptSends, ptRebuilds>>

----------------------------------------------------------------------------
(* Its answer *)

\* An answer calls a tool or is a text; with no block at all it leaves no entry
\* with anthropic and gemini, and an empty text with the others.
Answers == {<<Turned("calls", ptSends)>>, <<Turned("model", ptSends)>>, <<>>}
OpenAIAnswer(a) == IF a = <<>> THEN <<Turned("model", ptSends)>> ELSE a
ClaudeCodeAnswer(a) == OpenAIAnswer(a)
AnthropicAnswer(a) == a
GeminiAnswer(a) == a

AnswerEntries(a) ==
  CASE ptKind = "openai" -> OpenAIAnswer(a)
    [] ptKind = "claude-code" -> ClaudeCodeAnswer(a)
    [] ptKind = "anthropic" -> AnthropicAnswer(a)
    [] OTHER -> <<>>

Ended(how, call) ==
  /\ ptFly' = NoRequest
  /\ ptLast' = [how |-> how, msg |-> ptFly.msg, call |-> call]
  /\ UNCHANGED <<ptKind, ptSeed, ptRan, ptTrimmed, ptSends, ptRebuilds>>

PtAnswer(a) ==
  /\ Flying /\ a \in Answers
  /\ ptHist' = ptHist \o (IF ptFly.rounds > 0 THEN <<OverflowNotice>> ELSE <<>>) \o AnswerEntries(a)
  /\ ptMirror' = (IF ptKind = "gemini" THEN ptMirror \o GeminiAnswer(a) ELSE ptMirror)
  /\ ptServer' = (IF ServerKind THEN Append(ptServer, ptFly.shown \o a) ELSE ptServer)
  /\ ptChain' = (IF ServerKind THEN Len(ptServer) + 1 ELSE ptChain)
  /\ Ended("answered", IF a # <<>> /\ a[1].who = "calls" THEN a[1].id ELSE 0)

\* A stream of responses that ends with another event than response.completed.
PtIncomplete ==
  /\ Flying /\ ptKind = "responses"
  /\ ptChain' = 0
  /\ UNCHANGED <<ptHist, ptMirror, ptServer>>
  /\ Ended("answered", 0)

----------------------------------------------------------------------------
(* Its failure *)

\* Bug: an error leaves what was recorded.
StaysOnError(h) == h

RolledBack(h) == WithoutTail(h)
StreamRolledBack(h) == WithoutTail(h)
Snapshot == ptFly.before

AfterError ==
  CASE ptKind = "openai" -> RolledBack(ptHist)
    [] ptKind = "anthropic" -> StreamRolledBack(ptHist)
    [] ptKind = "claude-code" -> Snapshot
    [] OTHER -> ptHist

\* The run loop puts results back when their calls are pending at the tail.
ResultsRestored(h) ==
  IF ptFly.msg.who = "results" /\ PendingCall(h) THEN Append(h, ptFly.msg) ELSE h

\* The provider refused, or answered and the answer was lost: the same to the caller,
\* for a lost answer's context has no name here.
PtFail ==
  /\ Flying
  /\ ptHist' = ResultsRestored(AfterError)
  /\ UNCHANGED <<ptMirror, ptChain, ptServer>>
  /\ Ended("failed", 0)

\* create_session, with no previous answer to name; gemini gets the history as seed.
Unchained == ptChain' = 0
SeedTurns == IF ptKind = "gemini" THEN ptHist ELSE <<>>
NewSession == Unchained /\ ptMirror' = <<>> /\ ptSeed' = SeedTurns

\* _rebuild_session: a new session over the canonical history.
PtRebuild ==
  /\ ~Flying /\ ptRebuilds < PtRebuilds /\ ptRebuilds' = ptRebuilds + 1
  /\ NewSession
  /\ UNCHANGED <<ptKind, ptHist, ptServer, ptFly, ptLast, ptRan, ptTrimmed, ptSends>>

PtNext ==
  \/ \E msg \in NextMessages : PtSend(msg)
  \/ \E a \in Answers : PtAnswer(a)
  \/ PtOverflow \/ PtIncomplete \/ PtFail \/ PtRebuild

PtSpec == PtInit /\ [][PtNext]_ptVars

----------------------------------------------------------------------------
(* Properties *)

\* Every value is of its type.
PtTypeOK ==
  /\ ptKind \in PtKinds /\ ptChain \in 0..Len(ptServer) /\ ptLast.how \in {"answered", "failed"}
  /\ \A e \in ToSet(ptHist) : e.who \in {"text", "results", "notice", "model", "calls"}
  /\ ptFly.rounds \in 0..PtTrims /\ ptSends \in 0..PtSends /\ ptRebuilds \in 0..PtRebuilds

\* However often a request fails and is made again, the model is shown a message once.
OnceShown ==
  \A i, j \in DOMAIN ptFly.shown :
    (i # j /\ ptFly.shown[i] = ptFly.shown[j]) => ptFly.shown[i] = OverflowNotice

\* With a canonical history, what tools returned is in every later request, unless an
\* overflow took it, or it is not kept at all, and never a placeholder in its place.
ResultsShown ==
  (CanonicalKind /\ Flying) =>
    /\ \A c \in ptRan : Turned("results", c) \in ToSet(ptFly.shown) \cup ptTrimmed
    /\ \A e \in ToSet(ptFly.shown) : e.who # "placeholder"

\* The same, with the histories the provider keeps ("Restore the real results before AED").
ResultsReach ==
  Flying => \A c \in ptRan : Turned("results", c) \in ToSet(ptFly.shown) \cup ptTrimmed
=============================================================================
