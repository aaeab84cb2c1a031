----------------------------- MODULE ChatBridge -----------------------------
(***************************************************************************)
(* How the MCP servers of chat and mail channels take a message in         *)
(* (lingtai/mcp_servers): fetch or receive it from the platform, keep it   *)
(* in the server's own store, remember that it was taken, hand one event   *)
(* to the agent's file inbox.  They differ in the order of these steps,    *)
(* which decides what a crash between two of them loses or repeats.        *)
(* A server has one poll thread per account: one account of one kind.      *)
(***************************************************************************)
EXTENDS McpInbox

CONSTANTS
  Kinds,    \* servers this instance runs
  PageSizes \* rows of one cloud_mail list call: the values tried

AllKinds == {"telegram", "wechat", "imap", "cloud_mail", "feishu", "whatsapp"}
ASSUME BridgeAssumption == /\ Kinds \subseteq AllKinds
                           /\ PageSizes \subseteq Nat \ {0}
                           /\ IsFiniteSet(Msgs) /\ Msgs = 1..Cardinality(Msgs)

VARIABLES
  brKind,
  brPosted,   \* messages 1..brPosted have arrived on the platform
  brCursor,   \* cursor, offset or watermark on disk
  brMem,      \* the same in memory
  brSeeded,   \* cloud_mail: the watermark was seeded
  brUpto,     \* last message of the fetch at hand
  brBatch,    \* messages of it that are left
  brAt,       \* step the first of them is at, "idle" between fetches
  brStored,   \* per message: copies in the server's store
  brSeen,     \* replay keys in memory
  brSeenDisk, \* replay keys in inbox_seen.json
  brAcked,    \* feishu, whatsapp: messages the platform will not send again
  brPushes,   \* per message: calls of push_inbox_event
  brPage,     \* rows of a page, as configured
  brOld,      \* cloud_mail: messages that were there when it was seeded
  brMissed    \* messages a full page has hidden

brVars == <<brKind, brPosted, brCursor, brMem, brSeeded, brUpto, brBatch, brAt,
            brStored, brSeen, brSeenDisk, brAcked, brPushes, brPage, brOld, brMissed>>
cursorVars == <<brCursor, brMem, brSeeded, brUpto>>
keepVars   == <<brStored, brSeen, brSeenDisk, brAcked, brPage, brOld, brMissed>>

BrInit ==
  /\ brKind \in Kinds
  /\ brPosted = 0 /\ brCursor = 0 /\ brMem = 0 /\ brSeeded = FALSE /\ brUpto = 0
  /\ brBatch = <<>> /\ brAt = "idle"
  /\ brStored = [m \in Msgs |-> 0]
  /\ brSeen = {} /\ brSeenDisk = {} /\ brAcked = {}
  /\ brPushes = [m \in Msgs |-> 0]
  /\ brPage \in IF brKind = "cloud_mail" THEN PageSizes ELSE {1}
  /\ brOld = {} /\ brMissed = {}

Head0      == brBatch[1]
BrFrom(lo) == [i \in 1..(brPosted - lo) |-> lo + i]
BrFault    == ibFaults < MaxFaults /\ ibFaults' = ibFaults + 1
OnlyFaults == UNCHANGED <<ibBad, ibFiles, ibDead, ibVisited, ibPreviews, ibMirror,
                          ibShown, ibAnnounced, ibTold, ibExcused, ibCrashes>>
BrStore == brStored' = [brStored EXCEPT ![Head0] = @ + 1]

\* The next message of the fetch, or what follows the last one.
BrNextMsg(first, last) ==
  /\ brBatch' = Tail(brBatch)
  /\ brAt' = IF Len(brBatch) > 1 THEN first ELSE last

\* Handed to the host: a call of push_inbox_event, which writes the event file
\* or returns False; no server looks at what it returns.
BrPush(first, last) ==
  /\ brPushes' = [brPushes EXCEPT ![Head0] = @ + 1]
  /\ \/ IbPush([msg |-> Head0, copy |-> brPushes[Head0] + 1])
     \/ BrFault /\ OnlyFaults
  /\ BrNextMsg(first, last)
  /\ UNCHANGED <<brKind, brPosted>>

\* A message arrives on the platform.
BrPost ==
  /\ brPosted + 1 \in Msgs
  /\ brPosted' = brPosted + 1
  /\ UNCHANGED <<brKind, cursorVars, brBatch, brAt, keepVars, brPushes, ibVars>>

BrFetched(batch, at) ==
  /\ brAt = "idle" /\ batch # <<>>
  /\ brBatch' = batch /\ brAt' = at
  /\ UNCHANGED <<brKind, brPosted, keepVars, brPushes, ibVars>>

----------------------------------------------------------------------------
(* telegram/account.py _poll_loop, _process_update; manager.py on_incoming *)

TelegramFetch ==
  /\ brKind = "telegram"
  /\ BrFetched(BrFrom(brCursor), "mark")
  /\ UNCHANGED cursorVars

\* last_update_id is saved before anything is done with the update.
TelegramMark ==
  /\ brKind = "telegram" /\ brAt = "mark"
  /\ brCursor' = Head0 /\ brMem' = Head0
  /\ brAt' = "store"
  /\ UNCHANGED <<brKind, brPosted, brSeeded, brUpto, brBatch, keepVars,
                 brPushes, ibVars>>

\* message.json; what raises here ends the batch in the poll loop's handler.
TelegramStore ==
  /\ brKind = "telegram" /\ brAt = "store"
  /\ \/ BrStore /\ brAt' = "push" /\ UNCHANGED <<brBatch, ibVars>>
     \/ /\ BrFault /\ OnlyFaults
        /\ brBatch' = <<>> /\ brAt' = "idle" /\ UNCHANGED brStored
  /\ UNCHANGED <<brKind, brPosted, cursorVars, brSeen, brSeenDisk, brAcked,
                 brPushes, brPage, brOld, brMissed>>

TelegramPush ==
  /\ brKind = "telegram" /\ brAt = "push"
  /\ BrPush("mark", "idle")
  /\ UNCHANGED <<cursorVars, keepVars>>

----------------------------------------------------------------------------
(* wechat/manager.py _poll_loop, _on_incoming                              *)

\* A bug: the cursor is saved with the fetch.
WechatFetchSaved ==
  /\ brKind = "wechat"
  /\ BrFetched(BrFrom(brMem), "store")
  /\ brUpto' = brPosted /\ brCursor' = brPosted /\ brMem' = brPosted
  /\ UNCHANGED brSeeded

WechatFetch ==
  /\ brKind = "wechat"
  /\ BrFetched(BrFrom(brMem), "store")
  /\ brUpto' = brPosted
  /\ UNCHANGED <<brCursor, brMem, brSeeded>>

\* The key of a message is the same however often the platform sends it.
IsReplay(m) == m \in brSeen

\* A replay is skipped; else message.json.  An exception ends the batch, and
\* the cursor stays before it.
WechatLand ==
  /\ brKind = "wechat" /\ brAt = "store"
  /\ \/ /\ IsReplay(Head0)
        /\ BrNextMsg("store", "checkpoint") /\ UNCHANGED <<brStored, ibVars>>
     \/ /\ ~IsReplay(Head0)
        /\ BrStore /\ brAt' = "seen" /\ UNCHANGED <<brBatch, ibVars>>
     \/ /\ BrFault /\ OnlyFaults
        /\ brBatch' = <<>> /\ brAt' = "idle" /\ UNCHANGED brStored
  /\ UNCHANGED <<brKind, brPosted, cursorVars, brSeen, brSeenDisk, brAcked,
                 brPushes, brPage, brOld, brMissed>>

\* A bug: the key is kept in memory alone.
WechatRecordMemory ==
  /\ brKind = "wechat" /\ brAt = "seen"
  /\ brSeen' = brSeen \cup {Head0} /\ brAt' = "push"
  /\ UNCHANGED <<brKind, brPosted, cursorVars, brBatch, brStored, brSeenDisk,
                 brAcked, brPushes, brPage, brOld, brMissed, ibVars>>

\* _record_seen: the key in memory, then the file.
WechatRecord ==
  /\ brKind = "wechat" /\ brAt = "seen"
  /\ brSeen' = brSeen \cup {Head0}
  /\ \/ brSeenDisk' = brSeen' /\ brAt' = "push" /\ UNCHANGED <<brBatch, ibVars>>
     \/ /\ BrFault /\ OnlyFaults
        /\ brBatch' = <<>> /\ brAt' = "idle" /\ UNCHANGED brSeenDisk
  /\ UNCHANGED <<brKind, brPosted, cursorVars, brStored, brAcked, brPushes,
                 brPage, brOld, brMissed>>

WechatPush ==
  /\ brKind = "wechat" /\ brAt = "push"
  /\ BrPush("store", "checkpoint")
  /\ UNCHANGED <<cursorVars, keepVars>>

\* The cursor moves after the batch; saving it is best effort.
WechatCheckpoint ==
  /\ brKind = "wechat" /\ brAt = "checkpoint"
  /\ brMem' = brUpto
  /\ \/ brCursor' = brUpto /\ UNCHANGED ibVars
     \/ BrFault /\ OnlyFaults /\ UNCHANGED brCursor
  /\ brAt' = "idle"
  /\ UNCHANGED <<brKind, brPosted, brSeeded, brUpto, brBatch, keepVars,
                 brPushes>>

----------------------------------------------------------------------------
(* imap/account.py reconcile, _run_listener_loop                           *)

\* The watermark is saved before the envelopes are returned to the listener.
ImapReconcile ==
  /\ brKind = "imap"
  /\ BrFetched(BrFrom(brCursor), "push")
  /\ brCursor' = brPosted /\ brMem' = brPosted
  /\ UNCHANGED <<brSeeded, brUpto>>

ImapPush ==
  /\ brKind = "imap" /\ brAt = "push"
  /\ BrPush("push", "idle")
  /\ UNCHANGED <<cursorVars, keepVars>>

----------------------------------------------------------------------------
(* cloud_mail/manager.py poll_once                                         *)

\* The first poll only seeds the watermark.
CloudSeed ==
  /\ brKind = "cloud_mail" /\ brAt = "idle" /\ ~brSeeded /\ brPosted > 0
  /\ brCursor' = brPosted /\ brMem' = brPosted /\ brSeeded' = TRUE
  /\ brOld' = 1..brPosted
  /\ UNCHANGED <<brKind, brPosted, brUpto, brBatch, brAt, brStored, brSeen,
                 brSeenDisk, brAcked, brPushes, brPage, brMissed, ibVars>>

\* The newest rows, oldest first, above the watermark.
CloudPoll ==
  /\ brKind = "cloud_mail" /\ brSeeded
  /\ LET oldest == IF brPosted - brCursor > brPage THEN brPosted - brPage
                   ELSE brCursor
     IN /\ brAt = "idle" /\ oldest < brPosted
        /\ brBatch' = BrFrom(oldest) /\ brAt' = "push"
        /\ brMissed' = brMissed \cup (brCursor + 1)..oldest
  /\ brUpto' = brPosted
  /\ UNCHANGED <<brKind, brPosted, brCursor, brMem, brSeeded, brStored, brSeen,
                 brSeenDisk, brAcked, brPushes, brPage, brOld, ibVars>>

CloudPush ==
  /\ brKind = "cloud_mail" /\ brAt = "push"
  /\ BrPush("push", "checkpoint")
  /\ UNCHANGED <<cursorVars, keepVars>>

\* An exception in saving the watermark ends the poll.
CloudCheckpoint ==
  /\ brKind = "cloud_mail" /\ brAt = "checkpoint"
  /\ \/ brCursor' = brUpto /\ brMem' = brUpto /\ UNCHANGED ibVars
     \/ BrFault /\ OnlyFaults /\ UNCHANGED <<brCursor, brMem>>
  /\ brAt' = "idle"
  /\ UNCHANGED <<brKind, brPosted, brSeeded, brUpto, brBatch, keepVars, brPushes>>

----------------------------------------------------------------------------
(* feishu/manager.py on_incoming, called by the websocket client           *)

\* The platform sends what it has no answer for; a replay is dropped.
FeishuReceive ==
  /\ brKind = "feishu" /\ brAt = "idle"
  /\ \E m \in (1..brPosted) \ brAcked :
       IF IsReplay(m)
       THEN brAcked' = brAcked \cup {m} /\ UNCHANGED <<brSeen, brBatch, brAt>>
       ELSE /\ brSeen' = brSeen \cup {m}
            /\ brBatch' = <<m>> /\ brAt' = "store" /\ UNCHANGED brAcked
  /\ UNCHANGED <<brKind, brPosted, cursorVars, brStored, brSeenDisk, brPushes,
                 brPage, brOld, brMissed, ibVars>>

\* Every exception is swallowed, and the event is answered all the same.
FeishuStore ==
  /\ brKind = "feishu" /\ brAt = "store"
  /\ \/ BrStore /\ brAt' = "push" /\ UNCHANGED <<brBatch, ibVars>>
     \/ /\ BrFault /\ OnlyFaults
        /\ brAt' = "ack" /\ UNCHANGED <<brBatch, brStored>>
  /\ UNCHANGED <<brKind, brPosted, cursorVars, brSeen, brSeenDisk, brAcked,
                 brPushes, brPage, brOld, brMissed>>

----------------------------------------------------------------------------
(* whatsapp/webhook_server.py do_POST, manager.py ingest_webhook           *)

WhatsappReceive ==
  /\ brKind = "whatsapp" /\ brAt = "idle"
  /\ \E m \in (1..brPosted) \ brAcked : brBatch' = <<m>>
  /\ brAt' = "store"
  /\ UNCHANGED <<brKind, brPosted, cursorVars, keepVars, brPushes, ibVars>>

\* What raises here is answered with an error: the platform sends it again.
WhatsappStore ==
  /\ brKind = "whatsapp" /\ brAt = "store"
  /\ \/ BrStore /\ brAt' = "push" /\ UNCHANGED <<brBatch, ibVars>>
     \/ /\ BrFault /\ OnlyFaults
        /\ brBatch' = <<>> /\ brAt' = "idle" /\ UNCHANGED brStored
  /\ UNCHANGED <<brKind, brPosted, cursorVars, brSeen, brSeenDisk, brAcked,
                 brPushes, brPage, brOld, brMissed>>

\* feishu and whatsapp hand on what they have stored.
HookPush ==
  /\ brKind \in {"feishu", "whatsapp"} /\ brAt = "push"
  /\ brPushes' = [brPushes EXCEPT ![Head0] = @ + 1]
  /\ \/ IbPush([msg |-> Head0, copy |-> brPushes[Head0] + 1])
     \/ BrFault /\ OnlyFaults
  /\ brAt' = "ack"
  /\ UNCHANGED <<brKind, brPosted, cursorVars, brBatch, keepVars>>

\* The answer reaches the platform, or is lost on the way.
HookAck ==
  /\ brKind \in {"feishu", "whatsapp"} /\ brAt = "ack"
  /\ \/ brAcked' = brAcked \cup {Head0} /\ UNCHANGED ibVars
     \/ BrFault /\ OnlyFaults /\ UNCHANGED brAcked
  /\ brBatch' = <<>> /\ brAt' = "idle"
  /\ UNCHANGED <<brKind, brPosted, cursorVars, brStored, brSeen, brSeenDisk,
                 brPushes, brPage, brOld, brMissed>>

----------------------------------------------------------------------------
\* The server process goes: what is in memory is read again from disk.
BrCrash ==
  /\ ibCrashes < MaxCrashes /\ brAt # "idle"
  /\ ibCrashes' = ibCrashes + 1
  /\ brBatch' = <<>> /\ brAt' = "idle"
  /\ brMem' = brCursor /\ brSeen' = brSeenDisk
  /\ UNCHANGED <<brKind, brPosted, brCursor, brSeeded, brUpto, brStored,
                 brSeenDisk, brAcked, brPushes, brPage, brOld, brMissed, ibBad, ibFiles, ibDead,
                 ibVisited, ibPreviews, ibMirror, ibShown, ibAnnounced, ibTold,
                 ibExcused, ibFaults>>

BrServer ==
  \/ TelegramFetch \/ TelegramMark \/ TelegramStore \/ TelegramPush
  \/ WechatFetch \/ WechatLand \/ WechatRecord \/ WechatPush \/ WechatCheckpoint
  \/ ImapReconcile \/ ImapPush
  \/ CloudSeed \/ CloudPoll \/ CloudPush \/ CloudCheckpoint
  \/ FeishuReceive \/ FeishuStore
  \/ WhatsappReceive \/ WhatsappStore \/ HookPush \/ HookAck

ChInit == IbInit /\ BrInit
ChNext == \/ BrPost \/ BrServer \/ BrCrash
          \/ IbAgent /\ UNCHANGED brVars
chVars == <<brVars, ibVars>>
ChSpec == ChInit /\ [][ChNext]_chVars
\* Both processes run on; a platform sends again what was not answered.
ChFairness == /\ WF_chVars(BrServer)
              /\ WF_chVars(IbSweep /\ UNCHANGED brVars)

----------------------------------------------------------------------------
ChTypeOK ==
  /\ IbTypeOK
  /\ brKind \in AllKinds /\ brPosted \in Nat
  /\ brCursor \in 0..brPosted /\ brMem \in 0..brPosted /\ brCursor <= brMem
  /\ brSeeded \in BOOLEAN /\ brUpto \in 0..brPosted
  /\ brBatch \in Seq(1..brPosted)
  /\ brAt \in {"idle", "mark", "store", "seen", "push", "checkpoint", "ack"}
  /\ brStored \in [Msgs -> Nat] /\ brPushes \in [Msgs -> Nat]
  /\ brSeenDisk \subseteq brSeen /\ brSeen \subseteq 1..brPosted
  /\ brAcked \subseteq 1..brPosted /\ brOld \cup brMissed \subseteq 1..brPosted
  /\ brPage \in PageSizes \cup {1}

----------------------------------------------------------------------------
(* The promise each server keeps, and the abstract channel it implements.  *)

\* cloud_mail keeps all as long as no more arrives between polls than a page.
Promise ==
  CASE brKind \in {"telegram", "imap"}   -> "at_most_once"
    [] brKind \in {"wechat", "whatsapp"} -> "at_least_once"
    [] brKind = "cloud_mail" /\ brPage >= Cardinality(Msgs) -> "at_least_once"
    [] OTHER                             -> "best_effort"

\* Handed on: landed in the store that the server's tool reads, else handed to
\* the host.
Copies == [m \in Msgs |-> IF brKind \in {"wechat", "feishu", "whatsapp"}
                          THEN brStored[m] ELSE brPushes[m]]

\* Nothing will bring the message back: the cursor is past it, or the platform
\* has its answer, and it is in no batch.
Gone(m) ==
  /\ m \notin {brBatch[i] : i \in DOMAIN brBatch}
  /\ IF brKind \in {"feishu", "whatsapp"} THEN m \in brAcked
     ELSE m <= brCursor \/ m \in brMissed

\* The channel is open: what was there before the first poll is not its business.
Sent(m) == m <= brPosted /\ m \notin brOld /\ (brKind = "cloud_mail" => brSeeded)

Fate == [m \in Msgs |-> CASE ~Sent(m)                    -> "unsent"
                          [] Sent(m) /\ Copies[m] > 0    -> "handed"
                          [] Sent(m) /\ Copies[m] = 0 /\ Gone(m) -> "lost"
                          [] OTHER                       -> "waiting"]

Contract == INSTANCE Delivery WITH promise <- Promise, fate <- Fate,
                                   copies <- Copies

\* Each server keeps its promise through crashes, failed writes and lost
\* answers: telegram and imap never hand a message on twice, wechat,
\* cloud_mail and whatsapp lose none (the order of mark, store and push).
KeepsPromise == Contract!Spec

\* The wechat server may land a message twice, but announces it once
\* (_is_replay, _record_seen).
AnnouncedOnce == brKind \in {"telegram", "imap", "wechat"} =>
                   \A m \in Msgs : brPushes[m] <= 1

\* A valid event's file is announced, or the sweep that deleted it died or failed
\* with it, or it is with the dead letters since its dispatch failed
\* (inbox.py:_scan_once).
FileAnnounced ==
  \A m \in Msgs : m \notin ibBad /\ (\E e \in ibFiles : e.msg = m) ~>
                   m \in ibAnnounced \cup ibExcused \cup ibDead

\* More announcements than events only when a deletion failed
\* (inbox.py:463-470).
ToldPerEvent == \A m \in Msgs : ibTold[m] <= brPushes[m] + ibFaults
=============================================================================
