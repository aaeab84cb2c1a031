------------------------------ MODULE ChatDesk -------------------------------
(***************************************************************************)
(* What an agent does with a chat channel (the managers of                 *)
(* lingtai/mcp_servers): it reads a conversation, which marks messages     *)
(* read, sends and replies, and with telegram a read takes the             *)
(* notification file away once all it names is read.  A server handles one *)
(* call at a time; its poll thread stores new messages meanwhile, and the  *)
(* agent's own poller writes the notification file (McpInbox).             *)
(***************************************************************************)
EXTENDS Integers, Sequences, FiniteSets, Subsequence

CONSTANTS
  DkKinds,   \* servers this instance runs
  DkMessages,\* bound: messages that come in, and messages sent
  DkLimit,   \* messages a read returns
  DkFaults   \* bound: failures of the platform or the disk, and crashes

ASSUME DeskAssumption ==
  /\ DkKinds \subseteq {"telegram", "feishu", "wechat", "imap"}
  /\ DkMessages \in Nat /\ DkLimit \in Nat \ {0} /\ DkFaults \in Nat

VARIABLES
  dkKind,
  dkLog,     \* inbox/ and sent/ by date
  dkIds,     \* messages so far, in and out
  dkRead,    \* ids in read.json
  dkFiles,   \* events the agent's poller has not swept
  dkMirror,  \* events the notification file names
  dkCall,    \* the call at hand
  dkCount,   \* _last_sent of the one text that is sent
  dkAcked,   \* sends of it the platform acknowledged to this process
  dkTyping,  \* a typing indicator is up
  dkHidden,  \* events that went with the notification file unread
  dkUnsure,  \* ids marked by a call whose answer was lost
  dkFaults

dkVars == <<dkKind, dkLog, dkIds, dkRead, dkFiles, dkMirror, dkCall, dkCount, dkAcked,
            dkTyping, dkHidden, dkUnsure, dkFaults>>
dkStore == <<dkLog, dkIds, dkRead>>
dkNote == <<dkFiles, dkMirror, dkHidden>>
dkOut == <<dkCount, dkAcked, dkTyping>>

FreePasses == 2
Chats == {1, 2}
NoCall == [op |-> "none", at |-> "idle", chat |-> 0, ids |-> {}]
DeskIdle == dkCall = NoCall

DkInit ==
  /\ dkKind \in DkKinds
  /\ dkLog = <<>> /\ dkIds = 0 /\ dkRead = {} /\ dkFiles = {} /\ dkMirror = {}
  /\ dkCall = NoCall /\ dkCount = 0 /\ dkAcked = 0 /\ dkTyping = FALSE
  /\ dkHidden = {} /\ dkUnsure = {} /\ dkFaults = 0

Fault == dkFaults < DkFaults /\ dkFaults' = dkFaults + 1
Ref(id, type) == [id |-> id, type |-> type]
Entry(chat, mine) == [id |-> dkIds + 1, chat |-> chat, mine |-> mine, told |-> mine, renewed |-> FALSE]
Given(ids) == [i \in DOMAIN dkLog |->
                IF dkLog[i].id \in ids THEN [dkLog[i] EXCEPT !.told = TRUE] ELSE dkLog[i]]
LogIds == {dkLog[i].id : i \in DOMAIN dkLog}
TakenOut(id) == AtPlaces(dkLog, {i \in DOMAIN dkLog : dkLog[i].id # id})
\* The typing indicator of the chat goes on, where the platform has one.
StartsTyping == dkTyping' = (dkTyping \/ dkKind \in {"telegram", "feishu"})
EntryOf(id) == CHOOSE e \in {dkLog[i] : i \in DOMAIN dkLog} : e.id = id

----------------------------------------------------------------------------
(* on_incoming, and the agent's poller *)

Arrived(ref) ==
  /\ dkFiles' = dkFiles \cup {ref}
  /\ UNCHANGED <<dkKind, dkRead, dkMirror, dkCall, dkCount, dkAcked, dkHidden, dkUnsure, dkFaults>>

DkMessage(chat) ==
  /\ dkIds < DkMessages /\ dkIds' = dkIds + 1
  /\ dkLog' = Append(dkLog, Entry(chat, FALSE))
  /\ StartsTyping
  /\ Arrived(Ref(dkIds + 1, "message"))

\* An edit takes the record's place, with a new date and the old id.
DkEdited(id) ==
  /\ dkKind = "telegram" /\ ~EntryOf(id).mine
  /\ Fault
  /\ dkLog' = Append(TakenOut(id), [EntryOf(id) EXCEPT !.told = FALSE, !.renewed = TRUE])
  /\ dkFiles' = dkFiles \cup {Ref(id, "edit")}
  /\ UNCHANGED <<dkKind, dkIds, dkRead, dkMirror, dkCall, dkOut, dkHidden, dkUnsure>>

\* A button is pressed under a message: another record with that message's id.
DkCallback(id) ==
  /\ dkKind = "telegram" /\ EntryOf(id).mine /\ Ref(id, "callback") \notin dkFiles \cup dkMirror
  /\ dkLog' = Append(dkLog, [EntryOf(id) EXCEPT !.mine = FALSE, !.told = FALSE, !.renewed = TRUE])
  /\ Cardinality({i \in DOMAIN dkLog : dkLog[i].id = id}) = 1
  /\ StartsTyping /\ UNCHANGED dkIds
  /\ Arrived(Ref(id, "callback"))

\* A sweep: the notification file names what came since the last one.
DkSweep ==
  /\ dkFiles # {}
  /\ dkMirror' = dkFiles /\ dkFiles' = {}
  /\ UNCHANGED <<dkKind, dkStore, dkCall, dkOut, dkHidden, dkUnsure, dkFaults>>

----------------------------------------------------------------------------
(* read *)

\* The newest of a conversation
Recent(chat) ==
  LET talk == {i \in DOMAIN dkLog : dkLog[i].chat = chat}
  IN {dkLog[i].id : i \in {j \in talk : Cardinality({k \in talk : k > j}) < DkLimit}}

\* The conversation is listed. wechat marks in memory; imap has no read.json.
DkReadCall(chat) ==
  /\ DeskIdle /\ dkKind # "imap" /\ Recent(chat) # {}
  /\ dkCall' = [NoCall EXCEPT !.op = "read", !.at = "mark", !.chat = chat, !.ids = Recent(chat)]
  /\ UNCHANGED <<dkKind, dkStore, dkNote, dkOut, dkUnsure, dkFaults>>

\* Bug: what the conversation has is marked, and not what the read returns.
MarkedAll == {e.id : e \in {dkLog[i] : i \in {j \in DOMAIN dkLog : dkLog[j].chat = dkCall.chat}}}

\* _mark_read, of what the call returns.
Marked == dkCall.ids

DkMark ==
  /\ dkCall.at = "mark"
  /\ dkRead' = dkRead \cup Marked
  /\ dkCall' = [dkCall EXCEPT !.at = IF dkKind = "telegram" THEN "inspect" ELSE "answer"]
  /\ UNCHANGED <<dkKind, dkLog, dkIds, dkNote, dkOut, dkUnsure, dkFaults>>

\* _notification_message_ids: a callback's id is not one event's, and gives nothing.
Unknown == {0}
MirrorIds == IF dkMirror = {} \/ \E e \in dkMirror : e.type = "callback" THEN Unknown
             ELSE {e.id : e \in dkMirror}

\* _clear_notification_if_handled: the file is loaded and compared with read.json.
Handled == MirrorIds \subseteq dkRead

DkInspect ==
  /\ dkCall.at = "inspect"
  /\ dkCall' = [dkCall EXCEPT !.at = IF Handled THEN "clear" ELSE "answer"]
  /\ UNCHANGED <<dkKind, dkStore, dkNote, dkOut, dkUnsure, dkFaults>>

\* The channel is cleared, with what was written to it since.
Unread(ref) == \E i \in DOMAIN dkLog : dkLog[i].id = ref.id /\ ~dkLog[i].told
                                         /\ ref.id \notin dkCall.ids
DkClear ==
  /\ dkCall.at = "clear"
  /\ dkMirror' = {} /\ dkHidden' = dkHidden \cup {e \in dkMirror : Unread(e)}
  /\ dkCall' = [dkCall EXCEPT !.at = "answer"]
  /\ UNCHANGED <<dkKind, dkStore, dkFiles, dkOut, dkUnsure, dkFaults>>

DkAnswer ==
  /\ dkCall.at = "answer"
  /\ dkLog' = Given(dkCall.ids) /\ dkCall' = NoCall
  /\ UNCHANGED <<dkKind, dkIds, dkRead, dkNote, dkOut, dkUnsure, dkFaults>>

----------------------------------------------------------------------------
(* send and reply: always the same text, to one recipient *)

\* Bug: only a plain send looks at the count.
SendBlocked(op) == dkKind # "wechat" /\ op = "send" /\ dkCount >= FreePasses

\* Duplicate send protection: telegram's reply is a send, the others' replies are not,
\* and wechat has none.
GuardsTelegram == dkKind = "telegram"
GuardsFeishu(op) == dkKind = "feishu" /\ op = "send"
GuardsImap(op) == dkKind = "imap" /\ op = "send"
Counts(op) == GuardsTelegram \/ GuardsFeishu(op) \/ GuardsImap(op)
Blocked(op) == Counts(op) /\ dkCount >= FreePasses

DkSendCall(op, ids) ==
  /\ DeskIdle /\ ~Blocked(op) /\ dkIds < DkMessages
  /\ dkCall' = [NoCall EXCEPT !.op = op, !.at = "api", !.chat = 1, !.ids = ids]
  /\ UNCHANGED <<dkKind, dkStore, dkNote, dkOut, dkUnsure, dkFaults>>

\* The platform takes the text; imap keeps no record of its own.
DkDelivered ==
  /\ dkCall.at = "api"
  /\ dkCount' = (IF Counts(dkCall.op) THEN dkCount + 1 ELSE dkCount)
  /\ dkAcked' = (IF Counts(dkCall.op) THEN dkAcked + 1 ELSE dkAcked)
  /\ dkCall' = IF dkKind = "imap" THEN NoCall ELSE [dkCall EXCEPT !.at = "record"]
  /\ UNCHANGED <<dkKind, dkStore, dkNote, dkTyping, dkUnsure, dkFaults>>

\* Or the call fails: imap counts it all the same. Feishu takes its typing message
\* away whatever happens; telegram's goes on.
DkRefused ==
  /\ dkCall.at = "api" /\ Fault
  /\ dkCount' = (IF dkKind = "imap" /\ Counts(dkCall.op) THEN dkCount + 1 ELSE dkCount)
  /\ dkTyping' = (dkTyping /\ dkKind # "feishu")
  /\ dkCall' = NoCall
  /\ UNCHANGED <<dkKind, dkStore, dkNote, dkAcked, dkUnsure>>

\* message.json in sent/; a reply with telegram then marks what it answers.
DkRecord ==
  /\ dkCall.at = "record"
  /\ dkLog' = Append(dkLog, Entry(dkCall.chat, TRUE)) /\ dkIds' = dkIds + 1
  /\ dkTyping' = FALSE
  /\ dkCall' = IF dkKind = "telegram" /\ dkCall.op = "reply" THEN [dkCall EXCEPT !.at = "mark"]
               ELSE NoCall
  /\ UNCHANGED <<dkKind, dkRead, dkNote, dkCount, dkAcked, dkUnsure, dkFaults>>

DkRecordFails ==
  /\ dkCall.at = "record" /\ Fault
  /\ dkTyping' = (dkTyping /\ dkKind # "feishu") /\ dkCall' = NoCall
  /\ UNCHANGED <<dkKind, dkStore, dkNote, dkCount, dkAcked, dkUnsure>>

\* The server goes and comes back; the answer to its call is lost.
DkCrash ==
  /\ Fault
  /\ dkCall' = NoCall /\ dkCount' = 0 /\ dkAcked' = 0 /\ dkTyping' = FALSE
  /\ dkUnsure' = dkUnsure \cup dkCall.ids
  /\ UNCHANGED <<dkKind, dkStore, dkNote>>

\* handle: one call at a time.
DkHandle ==
  \/ \E chat \in Chats : DkReadCall(chat)
  \/ \E id \in LogIds : DkSendCall("reply", {id})
  \/ DkSendCall("send", {})

DkNext ==
  \/ DkHandle
  \/ \E chat \in Chats : DkMessage(chat)
  \/ \E id \in LogIds : DkEdited(id) \/ DkCallback(id)
  \/ DkSweep \/ DkMark \/ DkInspect \/ DkClear \/ DkAnswer
  \/ DkDelivered \/ DkRefused \/ DkRecord \/ DkRecordFails \/ DkCrash

DkSpec == DkInit /\ [][DkNext]_dkVars

----------------------------------------------------------------------------
(* Properties *)

\* Every value is of its type.
DkTypeOK ==
  /\ dkKind \in DkKinds /\ LogIds \subseteq 1..dkIds /\ dkRead \subseteq 1..dkIds
  /\ \A e \in dkFiles \cup dkMirror : e.id \in LogIds /\ e.type \in {"message", "edit", "callback"}
  /\ dkCall.at \in {"idle", "mark", "inspect", "clear", "answer", "api", "record"}
  /\ dkCount \in Nat /\ dkAcked \in Nat /\ dkTyping \in BOOLEAN /\ dkFaults \in 0..DkFaults

\* On the paths that guard against repeats, a process gets the same text through to
\* the same recipient twice and no more, whatever fails before or after it.
RepeatsBounded == dkAcked <= FreePasses

\* An original message is in read.json only when the agent was given it, replied to it,
\* or made a call for it whose answer a crash took.
MarkedWasTold ==
  \A e \in {dkLog[i] : i \in DOMAIN dkLog} :
    (e.id \in dkRead /\ ~e.told) => (e.renewed \/ e.id \in dkCall.ids \cup dkUnsure)

\* A read never takes the notification of an event the agent was not given ("clearing the
\* coalesced notification could hide another unread event, so the mirror is left").
ClearKeepsUnread == dkHidden = {}
=============================================================================
