------------------------------ MODULE LiveMeta ------------------------------
(***************************************************************************)
(* The two blocks a tool result may carry for the whole context            *)
(* (meta_block.py): the payload of the notification channels and the       *)
(* snapshot of the agent's own state. Both are sparse: a result gets one   *)
(* only when it differs from the one stamped last, and its former holder   *)
(* is stripped. Molts, restarts and summaries change the context under     *)
(* them. The channels may hold again, to the byte, what they held before.  *)
(* One result stands for a batch; the race of a batch with a notification  *)
(* that is just being written is AgentLoop's.                              *)
(***************************************************************************)
EXTENDS Integers, Sequences, FiniteSets, Subsequence

CONSTANTS
  LmMax,       \* bound: results
  LmPayloads,  \* bound: what the channels may say, all together
  LmTurnovers  \* bound: molts and restarts

ASSUME LiveMetaAssumption ==
  LmMax \in Nat /\ LmPayloads \in Nat /\ LmTurnovers \in Nat

VARIABLES
  lmChannel,    \* .notification/, one of Contents
  lmContext,    \* the results in the chat, oldest first
  lmHolder,     \* _notification_live_holder, the result it is the content of, or 0
  lmSignature,  \* _notification_payload_signature, or 0
  lmFp,         \* _notification_fp: the content last delivered
  lmRuntime,    \* _runtime_live_holder
  lmSnapshot,   \* _agent_meta_signature, or Unset
  lmCount,      \* results so far
  lmSince,      \* results there were at the last molt or restart
  lmTurnovers   \* molts and restarts

lmVars == <<lmChannel, lmContext, lmHolder, lmSignature, lmFp, lmRuntime,
            lmSnapshot, lmCount, lmSince, lmTurnovers>>
lmNotice == <<lmHolder, lmSignature, lmFp>>
lmLife == <<lmSince, lmTurnovers>>

Unset == {0}
Shapes == {"dict", "text", "check"}

\* A payload may be written in two forms, of one signature and two fingerprints.
NoContent == [payload |-> 0, form |-> 0]
Contents == {NoContent} \cup [payload : 1..LmPayloads, form : 1..2]

LmInit ==
  /\ lmChannel = NoContent
  /\ lmContext = <<>> /\ lmHolder = 0 /\ lmSignature = 0 /\ lmFp = NoContent
  /\ lmRuntime = 0 /\ lmSnapshot = Unset /\ lmCount = 0 /\ lmSince = 0 /\ lmTurnovers = 0

----------------------------------------------------------------------------
(* Results *)

\* A result as the executor made it. "lost" is the payload it carried when its
\* content was replaced by a summary; "pair" says that an idle pass made it.
FreshPayload(large) ==
  [id |-> lmCount + 1, large |-> large, note |-> 0, snap |-> Unset, done |-> FALSE, lost |-> 0,
   pair |-> FALSE]

WithOf(context, id, Change(_)) ==
  [i \in DOMAIN context |-> IF context[i].id = id THEN Change(context[i]) ELSE context[i]]

\* current_tool_result_chars: the large results, and how many there are in all.
ResultChars(context) ==
  [top |-> {context[i].id : i \in {j \in DOMAIN context : context[j].large}},
   total |-> Len(context)]

\* agent_meta_signature: what changes with every batch is not material.
Material(context) == ResultChars(context).top

\* skeletonize_notification_holder. A holder whose result is no longer in the
\* context, or got another content, is stripped where nobody sees it.
Skeleton(context, id) == WithOf(context, id, LAMBDA r : [r EXCEPT !.note = 0])

\* _strip_agent_meta_and_guidance
Bare(context, id) == WithOf(context, id, LAMBDA r : [r EXCEPT !.snap = Unset])

\* system(summarize) puts a new content in place of the old, with all it carried.
Summary(context, id) ==
  WithOf(context, id, LAMBDA r : [r EXCEPT !.large = FALSE, !.note = 0, !.snap = Unset,
                                           !.done = TRUE, !.lost = r.note])

----------------------------------------------------------------------------
(* Stamping a batch *)

Newest(context) == context[Len(context)].id

\* What the channels hold now, and its signature: all of it is material.
Collected == lmChannel.payload
Signed == Collected

\* Bug: the gate compares the signature and does not ask for the holder.
UnchangedOf(shape) == lmSignature = Signed /\ shape # "check"

\* The payload is the one its holder has: nothing moves. A deliberate check is
\* always answered.
Unchanged(shape) ==
  lmSignature = Signed /\ shape # "check" /\ lmHolder # 0

\* The former holder is stripped, the newest result becomes the holder.
Moved(context) ==
  WithOf(Skeleton(context, lmHolder), Newest(context),
         LAMBDA r : [r EXCEPT !.note = Collected])

\* attach_active_notifications on a context that ends in the batch's result.
Notified(context, shape) ==
  CASE Collected = 0 ->
         [context |-> Skeleton(context, lmHolder), holder |-> 0, sig |-> 0, fp |-> lmFp]
    [] Collected # 0 /\ shape = "text" ->
         [context |-> context, holder |-> lmHolder, sig |-> lmSignature, fp |-> lmFp]
    [] Collected # 0 /\ shape # "text" /\ Unchanged(shape) ->
         [context |-> context, holder |-> lmHolder, sig |-> lmSignature,
          fp |-> lmChannel]
    [] OTHER ->
         [context |-> Moved(context), holder |-> Newest(context),
          sig |-> Signed, fp |-> lmChannel]

\* attach_active_runtime
Snapped(context, shape) ==
  /\ lmContext' = IF shape = "text" \/ Material(context) = lmSnapshot THEN context
                  ELSE WithOf(Bare(context, lmRuntime), Newest(context),
                              LAMBDA r : [r EXCEPT !.snap = Material(context)])
  /\ IF shape = "text" \/ Material(context) = lmSnapshot THEN UNCHANGED <<lmRuntime, lmSnapshot>>
     ELSE lmRuntime' = Newest(context) /\ lmSnapshot' = Material(context)

Stamped(context, shape) ==
  LET notice == Notified(context, shape)
  IN /\ lmHolder' = notice.holder /\ lmSignature' = notice.sig /\ lmFp' = notice.fp
     /\ Snapped(notice.context, shape)

----------------------------------------------------------------------------
(* The turn *)

\* A batch of some tool.
LmBatch(shape, large) ==
  /\ lmCount < LmMax /\ lmCount' = lmCount + 1
  /\ Stamped(Append(lmContext, FreshPayload(large)), shape)
  /\ UNCHANGED <<lmChannel, lmLife>>

\* A batch of summarize: an earlier result that is not a summary yet.
LmSummarize(i) ==
  /\ lmCount < LmMax /\ lmCount' = lmCount + 1
  /\ ~lmContext[i].done
  /\ Stamped(Append(Summary(lmContext, lmContext[i].id), FreshPayload(FALSE)), "dict")
  /\ UNCHANGED <<lmChannel, lmLife>>

\* _sync_notifications between two turns: the pair it injects becomes the holder.
\* The signature stays that of the result a batch gave the payload to last.
LmInject ==
  /\ lmFp # lmChannel /\ lmChannel.payload # 0
  /\ lmCount < LmMax /\ lmCount' = lmCount + 1
  /\ LET pair == [FreshPayload(FALSE) EXCEPT !.note = Collected, !.pair = TRUE]
     IN lmContext' = Append(Skeleton(lmContext, lmHolder), pair) /\ lmHolder' = pair.id
  /\ lmFp' = lmChannel
  /\ UNCHANGED <<lmChannel, lmSignature, lmRuntime, lmSnapshot, lmLife>>

\* The same pass when the channels are gone, in a turn as well.
LmCleared ==
  /\ lmFp # lmChannel /\ lmChannel.payload = 0
  /\ lmContext' = Skeleton(lmContext, lmHolder) /\ lmHolder' = 0 /\ lmFp' = NoContent
  /\ UNCHANGED <<lmChannel, lmSignature, lmRuntime, lmSnapshot, lmCount, lmLife>>

----------------------------------------------------------------------------
(* Molts and restarts *)

LmIds == {lmContext[i].id : i \in DOMAIN lmContext}
KeptOn(ids) == AtPlaces(lmContext, {i \in DOMAIN lmContext : lmContext[i].id \in ids})

Turnover ==
  /\ lmTurnovers < LmTurnovers /\ lmTurnovers' = lmTurnovers + 1 /\ lmSince' = lmCount
  /\ lmHolder' = 0 /\ lmFp' = NoContent

\* The molt tool keeps the results the agent names; its own result ends the batch,
\* which skips the notifications and finds no holder to strip.
LmMolt(ids) ==
  /\ Turnover
  /\ lmCount < LmMax /\ lmCount' = lmCount + 1
  /\ Snapped(Append(KeptOn(ids), FreshPayload(FALSE)), "dict")
  /\ UNCHANGED <<lmChannel, lmSignature>>

\* A forced molt keeps the last entries; no batch stamps its result.
LmForcedMolt(ids) ==
  /\ Turnover
  /\ \A a \in ids, b \in LmIds : b > a => b \in ids
  /\ lmCount < LmMax /\ lmCount' = lmCount + 1
  /\ lmContext' = Append(KeptOn(ids), FreshPayload(FALSE))
  /\ UNCHANGED <<lmChannel, lmSignature, lmRuntime, lmSnapshot>>

\* A new process has the saved history and none of the rest.
LmRestart ==
  /\ Turnover
  /\ lmSignature' = 0 /\ lmRuntime' = 0 /\ lmSnapshot' = Unset
  /\ UNCHANGED <<lmChannel, lmContext, lmCount>>

----------------------------------------------------------------------------
(* The channels: a producer publishes, writes the same in another form or   *)
(* clears, so that together they hold anything else, also what they held.  *)

LmWrite(content) ==
  /\ content # lmChannel /\ lmChannel' = content
  /\ UNCHANGED <<lmContext, lmNotice, lmRuntime, lmSnapshot, lmCount, lmLife>>

LmNext ==
  \/ \E shape \in Shapes, large \in BOOLEAN : LmBatch(shape, large)
  \/ \E i \in DOMAIN lmContext : LmSummarize(i)
  \/ LmInject \/ LmCleared \/ LmRestart
  \/ \E ids \in SUBSET LmIds : LmMolt(ids) \/ LmForcedMolt(ids)
  \/ \E content \in Contents : LmWrite(content)

LmSpec == LmInit /\ [][LmNext]_lmVars

----------------------------------------------------------------------------
(* Properties *)

\* Every value is of its type, and the results are in the order they came.
LmTypeOK ==
  /\ lmChannel \in Contents /\ lmFp \in Contents /\ lmSignature \in 0..LmPayloads
  /\ \A i \in DOMAIN lmContext :
       /\ lmContext[i].id \in 1..lmCount /\ lmContext[i].snap \subseteq 0..lmCount
       /\ \A j \in DOMAIN lmContext : i < j => lmContext[i].id < lmContext[j].id
  /\ lmHolder \in 0..lmCount /\ lmRuntime \in 0..lmCount
  /\ lmSnapshot \subseteq 0..lmCount /\ lmSince \in 0..lmCount
  /\ lmTurnovers \in 0..LmTurnovers

Carriers == {i \in DOMAIN lmContext : lmContext[i].note # 0}

CanBeRead(payload) == \E i \in DOMAIN lmContext : payload \in {lmContext[i].note, lmContext[i].lost}

\* The holder is a pair, which took the payload over and left the signature behind.
PairHolds == \E i \in DOMAIN lmContext : lmContext[i].id = lmHolder /\ lmContext[i].pair

\* A channel state that counts as delivered, so that no pass will deliver it, can be
\* read in the context; or there is no holder, and the next batch attaches it; or the
\* signature a pair left behind is that of this very state. Of the results made since
\* the last molt or restart one at most shows a payload. Only a summary takes the
\* payload with it.
PayloadKept ==
  /\ lmFp = lmChannel /\ lmChannel # NoContent =>
       \/ CanBeRead(lmChannel.payload)
       \/ lmHolder = 0 /\ lmSignature = 0
       \/ PairHolds /\ lmSignature = lmChannel.payload
  /\ \A i, j \in Carriers :
       lmContext[i].id > lmSince /\ lmContext[j].id > lmSince => i = j

\* A channel state that counts as delivered while a result is the holder can be read
\* (meta_block.py: "so the payload stays visible instead of committing an invisible
\* state").
PayloadReadable ==
  lmFp = lmChannel /\ lmChannel # NoContent /\ lmHolder # 0 => CanBeRead(lmChannel.payload)

\* "At most one result block in history carries live notification payload at any
\* time" (_sync_notifications).
OnePayload == Cardinality(Carriers) <= 1
=============================================================================
