------------------------------ MODULE ToolBatch ------------------------------
(***************************************************************************)
(* One batch of tool calls in ToolExecutor (lingtai_kernel/tool_executor): *)
(* one after the other, or all in a pool of threads with a deadline when   *)
(* every tool is safe for it; the durable log of each result, the reduced  *)
(* form the model sees, and the heal that answers the calls left without   *)
(* a result out of the log.                                                *)
(***************************************************************************)
EXTENDS Integers, FiniteSets

CONSTANT
  TbSize   \* bound: calls of the batch

ASSUME BatchSizeAssumption == TbSize \in Nat \ {0}

TbCalls == 1..TbSize

VARIABLES
  tbCalls,     \* what each call is, and what its result will be made of
  tbParallel,  \* every tool is parallel-safe
  tbPhase,     \* where the caller's thread is
  tbWork,      \* each call's tool
  tbLog,       \* the newest tool_result event of each call
  tbMap,       \* results_map and errors_map
  tbShown,     \* the results execute returns
  tbOut,       \* how it returns
  tbCancel,    \* the turn's cancel event
  tbHistory    \* the answers the history has once the heal is over

tbVars == <<tbCalls, tbParallel, tbPhase, tbWork, tbLog, tbMap, tbShown, tbOut,
            tbCancel, tbHistory>>

\* An unknown tool, one the guard denies, and tools whose result is small, too
\* large for the wire, or asked for as a summary.
CallKinds == {"unknown", "denied", "small", "large", "summary"}
\* What the log or the model has of a call: the result as it was, an error, a
\* timeout, or the reduced forms of a result.
Events  == {"none", "raw", "error", "timeout"}
Answers == Events \cup {"spilled", "short", "aborted"}

TbInit ==
  /\ tbCalls \in [TbCalls -> CallKinds] /\ tbParallel \in BOOLEAN
  /\ tbPhase = "start" /\ tbOut = "none" /\ tbCancel = FALSE
  /\ tbWork = [c \in TbCalls |-> "none"]
  /\ tbLog = [c \in TbCalls |-> "none"] /\ tbMap = [c \in TbCalls |-> "none"]
  /\ tbShown = [c \in TbCalls |-> "none"] /\ tbHistory = [c \in TbCalls |-> "none"]

Refused(c) == tbCalls[c] \in {"unknown", "denied"}

\* spill_oversized_result, on the way to the model.
Spilled(c, answer) == IF answer = "raw" /\ tbCalls[c] = "large" THEN "spilled" ELSE answer

\* maybe_summarize_result: a summary, a refusal or an error in place of the raw
\* result when one was asked for; an error of the tool is shown as it is.
Summarized(c, answer) == IF answer = "raw" /\ tbCalls[c] = "summary" THEN "short" ELSE answer

\* _build_result_message
Visible(c, answer) == Spilled(c, Summarized(c, answer))

TbReturn(out) == tbPhase' = "returned" /\ tbOut' = out

----------------------------------------------------------------------------
(* _execute_sequential, _execute_single                                    *)

Turns == {c \in TbCalls : tbWork[c] = "none"}
NextCall(c) == c \in Turns /\ \A d \in Turns : c <= d

\* Before each call the cancel event is looked at: what has run is dropped.
TbCancelled ==
  /\ tbPhase \in {"start", "between"} /\ ~tbParallel /\ tbCancel /\ Turns # {}
  /\ tbShown' = [c \in TbCalls |-> "none"] /\ TbReturn("cancelled")
  /\ UNCHANGED <<tbCalls, tbParallel, tbWork, tbLog, tbMap, tbCancel, tbHistory>>

\* A call that is refused has its error logged and shown.
TbRefuse(c) ==
  /\ tbPhase \in {"start", "between"} /\ ~tbParallel /\ ~tbCancel
  /\ NextCall(c) /\ Refused(c)
  /\ tbWork' = [tbWork EXCEPT ![c] = "over"]
  /\ tbLog' = [tbLog EXCEPT ![c] = "error"] /\ tbShown' = [tbShown EXCEPT ![c] = "error"]
  /\ tbPhase' = "between"
  /\ UNCHANGED <<tbCalls, tbParallel, tbMap, tbOut, tbCancel, tbHistory>>

TbDispatch(c) ==
  /\ tbPhase \in {"start", "between"} /\ ~tbParallel /\ ~tbCancel
  /\ NextCall(c) /\ ~Refused(c)
  /\ tbWork' = [tbWork EXCEPT ![c] = "running"]
  /\ tbPhase' = "tool"
  /\ UNCHANGED <<tbCalls, tbParallel, tbLog, tbMap, tbShown, tbOut, tbCancel, tbHistory>>

\* _log_tool_result
Logged(c, event) == tbLog' = [tbLog EXCEPT ![c] = event]

\* Bug: the result is reduced before it is logged.
ToolEndsReduced(c, outcome) ==
  /\ tbWork[c] = "running"
  /\ tbWork' = [tbWork EXCEPT ![c] = "over"]
  /\ tbLog' = [tbLog EXCEPT ![c] = IF Visible(c, outcome) = "short" THEN "none" ELSE outcome]

\* Bug: the form the model will see is what is logged.
ToolEndsShown(c, outcome) ==
  /\ tbWork[c] = "running"
  /\ tbWork' = [tbWork EXCEPT ![c] = "over"]
  /\ tbLog' = [tbLog EXCEPT ![c] = Visible(c, outcome)]

\* A tool returns a result, or an error, or raises: logged as it is.
ToolEnds(c, outcome) ==
  /\ tbWork[c] = "running"
  /\ tbWork' = [tbWork EXCEPT ![c] = "over"]
  /\ Logged(c, outcome)

\* Then it is shown; an intercept, of the result itself or of the result hook,
\* returns at once, and a result that intercepts is not summarised. A hook that
\* raises has an error logged and shown after the result.
TbEnds(c) ==
  /\ tbPhase = "tool"
  /\ \E outcome \in {"raw", "error"}, intercept \in {"none", "result", "hook"} :
       /\ ToolEnds(c, outcome)
       /\ tbShown' = [tbShown EXCEPT ![c] = IF intercept = "result" THEN Spilled(c, outcome)
                                           ELSE Visible(c, outcome)]
       /\ IF intercept # "none" THEN TbReturn("intercepted")
          ELSE tbPhase' = "between" /\ UNCHANGED tbOut
  /\ UNCHANGED <<tbCalls, tbParallel, tbMap, tbCancel, tbHistory>>

TbSequenceOver ==
  /\ tbPhase = "between" /\ ~tbParallel /\ Turns = {}
  /\ TbReturn("results")
  /\ UNCHANGED <<tbCalls, tbParallel, tbWork, tbLog, tbMap, tbShown, tbCancel, tbHistory>>

----------------------------------------------------------------------------
(* _execute_parallel                                                       *)

\* Phase 1: the refused calls are answered, the others are submitted, each to
\* a thread of its own.
TbSubmit ==
  /\ tbPhase = "start" /\ tbParallel
  /\ tbWork' = [c \in TbCalls |-> IF Refused(c) THEN "over" ELSE "running"]
  /\ tbLog' = [c \in TbCalls |-> IF Refused(c) THEN "error" ELSE "none"]
  /\ tbShown' = tbLog'
  /\ IF \A c \in TbCalls : Refused(c) THEN TbReturn("results")
     ELSE tbPhase' = "collect" /\ UNCHANGED tbOut
  /\ UNCHANGED <<tbCalls, tbParallel, tbMap, tbCancel, tbHistory>>

\* _run_one on a thread, which no return of the caller stops.
TbThreadEnds(c) ==
  /\ tbParallel
  /\ \E outcome \in {"raw", "error"} : ToolEnds(c, outcome)
  /\ UNCHANGED <<tbCalls, tbParallel, tbPhase, tbMap, tbShown, tbOut, tbCancel, tbHistory>>

Uncollected == {c \in TbCalls : ~Refused(c) /\ tbMap[c] = "none"}

\* Phase 2: a future that is done is taken, in any order; only then is the
\* cancel event looked at.
TbCollect(c) ==
  /\ tbPhase = "collect" /\ c \in Uncollected /\ tbWork[c] = "over"
  /\ IF tbCancel
     THEN /\ tbShown' = [d \in TbCalls |-> "none"] /\ TbReturn("cancelled")
          /\ UNCHANGED tbMap
     ELSE /\ tbMap' = [tbMap EXCEPT ![c] = tbLog[c]]
          /\ tbPhase' = IF Uncollected = {c} THEN "show" ELSE "collect"
          /\ UNCHANGED <<tbShown, tbOut>>
  /\ UNCHANGED <<tbCalls, tbParallel, tbWork, tbLog, tbCancel, tbHistory>>

\* Bug: the pool is left by waiting for its threads.
TbDeadlineWaits ==
  /\ tbPhase = "collect" /\ Uncollected # {}
  /\ \A c \in TbCalls : tbWork[c] # "running"
  /\ tbMap' = [c \in TbCalls |-> IF c \in Uncollected THEN "timeout" ELSE tbMap[c]]
  /\ tbLog' = [c \in TbCalls |-> IF c \in Uncollected THEN "timeout" ELSE tbLog[c]]
  /\ tbPhase' = "show"
  /\ UNCHANGED <<tbCalls, tbParallel, tbWork, tbShown, tbOut, tbCancel, tbHistory>>

\* The deadline: what was not collected has timed out, also a tool whose end
\* is logged already.
TbDeadline ==
  /\ tbPhase = "collect" /\ Uncollected # {}
  /\ tbMap' = [c \in TbCalls |-> IF c \in Uncollected THEN "timeout" ELSE tbMap[c]]
  /\ tbLog' = [c \in TbCalls |-> IF c \in Uncollected THEN "timeout" ELSE tbLog[c]]
  /\ tbPhase' = "show"
  /\ UNCHANGED <<tbCalls, tbParallel, tbWork, tbShown, tbOut, tbCancel, tbHistory>>

\* Phase 3: the results in the order of the calls, up to one that intercepts.
TbShow ==
  /\ tbPhase = "show"
  /\ \E stop \in {c \in TbCalls : tbMap[c] \notin {"none", "timeout"}} \cup {0},
        raw \in BOOLEAN :
       /\ tbShown' = [c \in TbCalls |->
            IF Refused(c) \/ (stop # 0 /\ c > stop) THEN tbShown[c]
            ELSE IF c = stop /\ raw THEN Spilled(c, tbMap[c])
            ELSE Visible(c, tbMap[c])]
       /\ TbReturn(IF stop = 0 THEN "results" ELSE "intercepted")
  /\ UNCHANGED <<tbCalls, tbParallel, tbWork, tbLog, tbMap, tbCancel, tbHistory>>

----------------------------------------------------------------------------
TbCancelSet ==
  /\ ~tbCancel /\ tbCancel' = TRUE
  /\ UNCHANGED <<tbCalls, tbParallel, tbPhase, tbWork, tbLog, tbMap, tbShown, tbOut,
                 tbHistory>>

\* recover_tool_result_block_from_events: the newest event of a call, spilled
\* when it is too large, or nothing.
Recovered(c) == IF tbLog[c] = "none" THEN "aborted" ELSE Spilled(c, tbLog[c])

\* The results go into the history; the calls without one are closed.
TbHeal ==
  /\ tbPhase = "returned"
  /\ tbHistory' = [c \in TbCalls |-> IF tbShown[c] # "none" THEN tbShown[c] ELSE Recovered(c)]
  /\ tbPhase' = "healed"
  /\ UNCHANGED <<tbCalls, tbParallel, tbWork, tbLog, tbMap, tbShown, tbOut, tbCancel>>

TbCaller == TbCancelled \/ TbSequenceOver \/ TbSubmit \/ TbDeadline \/ TbShow
            \/ \E c \in TbCalls : TbRefuse(c) \/ TbDispatch(c) \/ TbCollect(c)
TbTools == \E c \in TbCalls : TbEnds(c) \/ TbThreadEnds(c)
TbNext == TbCaller \/ TbTools \/ TbCancelSet \/ TbHeal
TbSpec == TbInit /\ [][TbNext]_tbVars

\* The caller's thread runs and the deadline passes; a tool may hang for ever.
TbFairness == WF_tbVars(TbCaller)

----------------------------------------------------------------------------
TbTypeOK ==
  /\ tbCalls \in [TbCalls -> CallKinds] /\ tbParallel \in BOOLEAN /\ tbCancel \in BOOLEAN
  /\ tbPhase \in {"start", "between", "tool", "collect", "show", "returned", "healed"}
  /\ tbWork \in [TbCalls -> {"none", "running", "over"}]
  /\ tbLog \in [TbCalls -> Events] /\ tbMap \in [TbCalls -> Events]
  /\ tbShown \in [TbCalls -> Answers] /\ tbHistory \in [TbCalls -> Answers]
  /\ tbOut \in {"none", "results", "intercepted", "cancelled"}

\* Whatever a parallel batch's tools do, it returns, and unless it was cancelled
\* or intercepted every call has its result (_execute_parallel).
BatchReturns ==
  tbPhase = "collect" ~>
    /\ tbPhase \in {"returned", "healed"}
    /\ tbOut = "results" => \A c \in TbCalls : tbShown[c] # "none"

\* The model sees a reduced form of a result, at once or through the heal, only
\* when the result itself was logged ("AFTER the raw result has been durably
\* logged", maybe_summarize_result), whatever the deadline and the threads do.
RawPreserved ==
  \A c \in TbCalls : {tbShown[c], tbHistory[c]} \cap {"short", "spilled"} # {} => tbLog[c] = "raw"

\* "summary=true is a request to keep the raw out of context"
\* (tool_result_summary.py:361): the history never has the raw result of a call
\* that asked for a summary.
RawStaysOut == \A c \in TbCalls : tbCalls[c] = "summary" => tbHistory[c] # "raw"
=============================================================================
