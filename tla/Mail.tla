-------------------------------- MODULE Mail --------------------------------
(***************************************************************************)
(* Mail between agents (lingtai_kernel/services/mail.py, intrinsics/email, *)
(* base_agent/messaging.py): folders of files.  A mailman thread per       *)
(* recipient moves a mail from the outbox into the recipient's inbox; a    *)
(* poller thread per agent finds what is new in its own inbox and claims   *)
(* what a pseudo agent's outbox (a person's) has for it; each change of    *)
(* the unread set renders it into `.notification/email.json`.              *)
(***************************************************************************)
EXTENDS Integers, FiniteSets

CONSTANTS
  Agents,         \* agents with a mailbox and a poller
  Senders,        \* the ones whose run loop sends, reads and files mail
  Nobody,         \* an address that is no agent's
  Texts,          \* message texts
  PseudoMails,    \* mails a person writes to all Agents at once
  DupFreePasses,  \* _dup_free_passes
  Targets,        \* sets of addresses a mail is sent to
  MaxSends,       \* bound: calls of send
  MaxMailTrouble  \* bound: file operations that fail, and crashes

MailAddrs == Agents \cup {Nobody}
ASSUME MailAssumption == /\ Senders \subseteq Agents /\ Nobody \notin Agents
                         /\ DupFreePasses \in Nat \ {0}
                         /\ Targets \subseteq SUBSET MailAddrs
                         /\ MaxSends \in Nat /\ MaxMailTrouble \in Nat

Letters == [n : 1..MaxSends, to : MailAddrs]  \* one per send and recipient
ASSUME PseudoAssumption == Letters \cap PseudoMails = {}
Mails   == Letters \cup PseudoMails
Folders == {"none", "partial", "inbox", "archive", "gone"}

VARIABLES
  mlUp,       \* agents that run
  mlSent,     \* calls of send so far
  mlFrom,     \* who made each
  mlPosted,   \* letters sent (history)
  mlOutbox,   \* letters in their sender's outbox
  mlMailman,  \* letters whose mailman thread is alive
  mlStep,     \* per letter: step its mailman is at, or died at
  mlLast,     \* per sender and address: last text and how often in a row
  mlPseudo,   \* per pseudo mail: "unwritten", "outbox", "claim" or "sent"
  mlBox,      \* per agent and mail: folder it is in
  mlRead,     \* per agent: read.json
  mlSeen,     \* per agent: _seen of the poller
  mlDigest,   \* per agent: mails email.json shows
  mlThread,   \* per agent and thread: step it is at, mail and digest in hand
  mlTold,     \* per agent and mail: calls of on_message (history)
  mlBounced,  \* letters whose sender was told of a bounce
  mlKept,     \* per agent: mails of which a roll-back left it a copy (history)
  mlFaults, mlCrashes

mlVars == <<mlUp, mlSent, mlFrom, mlPosted, mlOutbox, mlMailman, mlStep, mlLast, mlPseudo,
            mlBox, mlRead, mlSeen, mlDigest, mlThread, mlTold, mlBounced, mlKept, mlFaults,
            mlCrashes>>
sendVars == <<mlSent, mlFrom, mlPosted, mlLast>>
postVars == <<mlOutbox, mlMailman, mlStep, mlBounced>>
claimVars == <<mlPseudo, mlKept>>

MailmanSteps == {"dispatch", "delivered", "refused", "bounce", "over"}
MailThreads == {"poller", "tool"}
AtRest == [at |-> "idle", mail |-> {}, digest |-> {}]

MlInit ==
  /\ mlUp = Agents /\ mlSent = 0 /\ mlFrom = [n \in 1..MaxSends |-> Nobody]
  /\ mlPosted = {}
  /\ mlOutbox = {} /\ mlMailman = {} /\ mlStep = [m \in Letters |-> "dispatch"]
  /\ mlLast = [a \in Senders |-> [d \in MailAddrs |-> [text |-> "", times |-> 0]]]
  /\ mlPseudo = [p \in PseudoMails |-> "unwritten"]
  /\ mlBox = [a \in Agents |-> [m \in Mails |-> "none"]]
  /\ mlRead = [a \in Agents |-> {}] /\ mlSeen = [a \in Agents |-> {}]
  /\ mlDigest = [a \in Agents |-> {}]
  /\ mlThread = [a \in Agents |-> [t \in MailThreads |-> AtRest]]
  /\ mlTold = [a \in Agents |-> [m \in Mails |-> 0]]
  /\ mlBounced = {} /\ mlKept = [a \in Agents |-> {}] /\ mlFaults = 0 /\ mlCrashes = 0

MlTrouble == mlFaults + mlCrashes < MaxMailTrouble
MlFaulty(n) == mlFaults + n + mlCrashes <= MaxMailTrouble /\ mlFaults' = mlFaults + n
MlFault     == MlFaulty(1)
Idle(a, t) == a \in mlUp /\ mlThread[a][t].at = "idle"
MlGo(a, t, state) == mlThread' = [mlThread EXCEPT ![a][t] = state]
MlFile(a, m, folder) == mlBox' = [mlBox EXCEPT ![a][m] = folder]
Rendering(set) == [at |-> "compute", mail |-> set, digest |-> {}]
InFolder(a, folder) == {m \in Mails : mlBox[a][m] = folder}
Unread(a) == InFolder(a, "inbox") \ mlRead[a]

----------------------------------------------------------------------------
(* Sending (EmailManager._send, primitives._mailman, service.send)         *)

\* _persist_to_outbox, and a thread of its own for each letter.
Posted(letters) == mlOutbox' = mlOutbox \cup letters /\ mlMailman' = mlMailman \cup letters

\* A text that went to any of the targets too often in a row blocks them all.
MlSend(a, targets, text) ==
  LET letters == [n : {mlSent + 1}, to : targets]
      times(d) == IF mlLast[a][d].text = text THEN mlLast[a][d].times + 1 ELSE 1
  IN /\ Idle(a, "tool") /\ mlSent < MaxSends
     /\ \A d \in targets : ~(mlLast[a][d].text = text
                               /\ mlLast[a][d].times >= DupFreePasses)
     /\ mlSent' = mlSent + 1
     /\ mlFrom' = [mlFrom EXCEPT ![mlSent + 1] = a]
     /\ mlLast' = [mlLast EXCEPT ![a] = [d \in MailAddrs |->
                     IF d \in targets THEN [text |-> text, times |-> times(d)]
                     ELSE @[d]]]
     /\ mlPosted' = mlPosted \cup letters
     /\ Posted(letters)
     /\ UNCHANGED <<mlUp, mlStep, claimVars, mlBox, mlRead, mlSeen, mlDigest, mlThread,
                    mlTold, mlBounced, mlFaults, mlCrashes>>

Mailing(m, step) == m \in mlMailman /\ mlStep[m] = step
MlGoesOn(m, step) == mlStep' = [mlStep EXCEPT ![m] = step] /\ UNCHANGED mlMailman
MlEnds(m) == mlStep' = [mlStep EXCEPT ![m] = "over"] /\ mlMailman' = mlMailman \ {m}
\* An exception that nothing catches: the thread dies where it is.
MlDies(m) == MlFault /\ mlMailman' = mlMailman \ {m} /\ UNCHANGED mlStep

\* A file operation of the dispatch fails: the error is the reason of a refusal.
MlRefused(m) == MlGoesOn(m, "refused") /\ UNCHANGED mlBox

\* A bug: mail to an agent that is down waits for it.
MlDeliverWaiting(m) ==
  /\ Mailing(m, "dispatch") /\ m.to \in mlUp \ {mlFrom[m.n]}
  /\ MlFile(m.to, m, "inbox") /\ MlGoesOn(m, "delivered")
  /\ UNCHANGED <<mlUp, sendVars, mlOutbox, mlBounced, claimVars, mlRead, mlSeen, mlDigest,
                 mlThread, mlTold, mlFaults, mlCrashes>>

\* Another agent: the handshake, then the file by tmp and rename.  The
\* heartbeat of one that has just died may still be fresh.
MlDeliver(m) ==
  /\ Mailing(m, "dispatch") /\ m.to # mlFrom[m.n]
  /\ \/ /\ m.to \in Agents
        /\ MlFile(m.to, m, "inbox") /\ MlGoesOn(m, "delivered") /\ UNCHANGED mlFaults
     \/ m.to \notin mlUp /\ MlRefused(m) /\ UNCHANGED mlFaults
     \/ MlFault /\ MlRefused(m)
  /\ UNCHANGED <<mlUp, sendVars, mlOutbox, mlBounced, claimVars, mlRead, mlSeen, mlDigest,
                 mlThread, mlTold, mlCrashes>>

\* Itself: message.json is opened and written in place.
MlSelfOpen(m) ==
  /\ Mailing(m, "dispatch") /\ m.to = mlFrom[m.n] /\ mlBox[m.to][m] = "none"
  /\ \/ MlFile(m.to, m, "partial") /\ UNCHANGED <<mlStep, mlMailman, mlFaults>>
     \/ MlFault /\ MlRefused(m)
  /\ UNCHANGED <<mlUp, sendVars, mlOutbox, mlBounced, claimVars, mlRead, mlSeen, mlDigest,
                 mlThread, mlTold, mlCrashes>>

\* A file that is not written to its end stays as it is.
MlSelfWrite(m) ==
  /\ Mailing(m, "dispatch") /\ m.to = mlFrom[m.n] /\ mlBox[m.to][m] = "partial"
  /\ \/ MlFile(m.to, m, "inbox") /\ MlGoesOn(m, "delivered") /\ UNCHANGED mlFaults
     \/ MlFault /\ MlRefused(m)
  /\ UNCHANGED <<mlUp, sendVars, mlOutbox, mlBounced, claimVars, mlRead, mlSeen, mlDigest,
                 mlThread, mlTold, mlCrashes>>

\* Bugs: the sender of a refused mail gets no word; the thread does not end.
MlCleanUpSilent(m) ==
  /\ m \in mlMailman /\ mlStep[m] \in {"delivered", "refused"}
  /\ \/ mlOutbox' = mlOutbox \ {m} /\ MlEnds(m) /\ UNCHANGED mlFaults
     \/ MlDies(m) /\ UNCHANGED mlOutbox
  /\ UNCHANGED <<mlUp, sendVars, mlBounced, claimVars, mlBox, mlRead, mlSeen, mlDigest,
                 mlThread, mlTold, mlCrashes>>
MlCleanUpRunning(m) ==
  /\ m \in mlMailman /\ mlStep[m] \in {"delivered", "refused"}
  /\ mlOutbox' = mlOutbox \ {m}
  /\ MlGoesOn(m, IF mlStep[m] = "refused" THEN "bounce" ELSE "over")
  /\ UNCHANGED <<mlUp, sendVars, mlBounced, claimVars, mlBox, mlRead, mlSeen, mlDigest,
                 mlThread, mlTold, mlFaults, mlCrashes>>

\* The outbox entry goes, whatever became of the letter; a removal that fails kills
\* the thread (one that fails half-way has the effect of a death at the next step).
MlCleanUp(m) ==
  /\ m \in mlMailman /\ mlStep[m] \in {"delivered", "refused"}
  /\ \/ /\ mlOutbox' = mlOutbox \ {m} /\ UNCHANGED mlFaults
        /\ IF mlStep[m] = "refused" THEN MlGoesOn(m, "bounce") ELSE MlEnds(m)
     \/ MlDies(m) /\ UNCHANGED mlOutbox
  /\ UNCHANGED <<mlUp, sendVars, mlBounced, claimVars, mlBox, mlRead, mlSeen, mlDigest,
                 mlThread, mlTold, mlCrashes>>

\* Only then is the sender told of a refusal.
MlBounce(m) ==
  /\ Mailing(m, "bounce")
  /\ \/ mlBounced' = mlBounced \cup {m} /\ MlEnds(m) /\ UNCHANGED mlFaults
     \/ MlDies(m) /\ UNCHANGED mlBounced
  /\ UNCHANGED <<mlUp, sendVars, mlOutbox, claimVars, mlBox, mlRead, mlSeen, mlDigest,
                 mlThread, mlTold, mlCrashes>>

----------------------------------------------------------------------------
(* The unread digest (messaging._rerender_unread_digest), on any thread    *)

MlCompute(a, t) ==
  /\ a \in mlUp /\ mlThread[a][t].at = "compute"
  /\ MlGo(a, t, [mlThread[a][t] EXCEPT !.at = "publish", !.digest = Unread(a)])
  /\ UNCHANGED <<mlUp, sendVars, postVars, claimVars, mlBox, mlRead, mlSeen,
                 mlDigest, mlTold, mlFaults, mlCrashes>>

\* Published, or cleared when nothing is unread.
MlPublish(a, t) ==
  /\ a \in mlUp /\ mlThread[a][t].at = "publish"
  /\ \/ mlDigest' = [mlDigest EXCEPT ![a] = mlThread[a][t].digest] /\ UNCHANGED mlFaults
     \/ MlFault /\ UNCHANGED mlDigest
  /\ MlGo(a, t, AtRest)
  /\ UNCHANGED <<mlUp, sendVars, postVars, claimVars, mlBox, mlRead, mlSeen,
                 mlTold, mlCrashes>>

----------------------------------------------------------------------------
(* The poller (FilesystemMailService.listen, _poll_pseudo_outbox)          *)

MlTell(a, m) == /\ mlTold' = [mlTold EXCEPT ![a][m] = @ + 1]
                /\ MlGo(a, "poller", Rendering({m}))

\* A message.json that cannot be read is marked seen as well.
MlPollInbox(a, m) ==
  /\ Idle(a, "poller") /\ m \notin mlSeen[a]
  /\ \/ mlBox[a][m] = "partial" /\ UNCHANGED <<mlTold, mlThread>>
     \/ mlBox[a][m] = "inbox" /\ MlTell(a, m)
  /\ mlSeen' = [mlSeen EXCEPT ![a] = @ \cup {m}]
  /\ UNCHANGED <<mlUp, sendVars, postVars, claimVars, mlBox, mlRead, mlDigest,
                 mlFaults, mlCrashes>>

MlPersonWrites(p) ==
  /\ mlPseudo[p] = "unwritten"
  /\ mlPseudo' = [mlPseudo EXCEPT ![p] = "outbox"]
  /\ UNCHANGED <<mlUp, sendVars, postVars, mlKept, mlBox, mlRead, mlSeen, mlDigest,
                 mlThread, mlTold, mlFaults, mlCrashes>>

\* A bug: the claimed id is not marked seen.
MlClaimUnseen(a, p) ==
  /\ Idle(a, "poller") /\ mlPseudo[p] = "outbox"
  /\ mlPseudo' = [mlPseudo EXCEPT ![p] = "claim"]
  /\ MlGo(a, "poller", [at |-> "claimed", mail |-> {p}, digest |-> {}])
  /\ UNCHANGED <<mlUp, sendVars, postVars, mlKept, mlBox, mlRead, mlSeen, mlDigest,
                 mlTold, mlFaults, mlCrashes>>

\* The rename that one poller wins; the id is seen before the file is there.
MlClaim(a, p) ==
  /\ Idle(a, "poller") /\ mlPseudo[p] = "outbox"
  /\ mlPseudo' = [mlPseudo EXCEPT ![p] = "claim"]
  /\ mlSeen' = [mlSeen EXCEPT ![a] = @ \cup {p}]
  /\ MlGo(a, "poller", [at |-> "claimed", mail |-> {p}, digest |-> {}])
  /\ UNCHANGED <<mlUp, sendVars, postVars, mlKept, mlBox, mlRead, mlDigest, mlTold,
                 mlFaults, mlCrashes>>

\* Bugs: the inbox copy stays; the claim stays.
MlRollbackCopied(a, p) ==
  /\ MlFault
  /\ mlPseudo' = [mlPseudo EXCEPT ![p] = "outbox"]
  /\ mlSeen' = [mlSeen EXCEPT ![a] = @ \ {p}]
  /\ MlGo(a, "poller", AtRest) /\ UNCHANGED <<mlBox, mlKept>>
MlRollbackClaimed(a, p) ==
  /\ MlFault
  /\ MlFile(a, p, "none") /\ UNCHANGED claimVars
  /\ mlSeen' = [mlSeen EXCEPT ![a] = @ \ {p}]
  /\ MlGo(a, "poller", AtRest)

\* The id is forgotten, the inbox copy removed and the claim put back: each as far
\* as it can be.  What the agent has filed away by then is not in the inbox.
MlRollback(a, p) ==
  \E copy \in {"none", mlBox[a][p]}, place \in {"outbox", "claim"} :
    /\ mlBox[a][p] \in {"archive", "gone"} => copy = mlBox[a][p]
    /\ MlFaulty(1 + Cardinality({copy} \cap {"inbox"}) + Cardinality({place} \cap {"claim"}))
    /\ MlFile(a, p, copy)
    /\ mlKept' = [mlKept EXCEPT ![a] = IF copy = "none" THEN @ ELSE @ \cup {p}]
    /\ mlPseudo' = [mlPseudo EXCEPT ![p] = place]
    /\ mlSeen' = [mlSeen EXCEPT ![a] = @ \ {p}]
    /\ MlGo(a, "poller", AtRest)

MlClaimWrite(a, p) ==
  /\ a \in mlUp /\ mlThread[a]["poller"].at = "claimed"
  /\ p \in mlThread[a]["poller"].mail
  /\ \/ /\ MlFile(a, p, "inbox")
        /\ MlGo(a, "poller", [mlThread[a]["poller"] EXCEPT !.at = "written"])
        /\ UNCHANGED <<claimVars, mlSeen, mlFaults>>
     \/ MlRollback(a, p)
  /\ UNCHANGED <<mlUp, sendVars, postVars, mlRead, mlDigest, mlTold, mlCrashes>>

MlClaimCommit(a, p) ==
  /\ a \in mlUp /\ mlThread[a]["poller"].at = "written"
  /\ p \in mlThread[a]["poller"].mail
  /\ \/ /\ mlPseudo' = [mlPseudo EXCEPT ![p] = "sent"]
        /\ MlTell(a, p)
        /\ UNCHANGED <<mlKept, mlBox, mlSeen, mlFaults>>
     \/ MlRollback(a, p) /\ UNCHANGED mlTold
  /\ UNCHANGED <<mlUp, sendVars, postVars, mlRead, mlDigest, mlCrashes>>

----------------------------------------------------------------------------
(* The email tool on the run loop (_read, _dismiss, _archive, _delete)     *)

MlToolStep(a, read, m, folder) ==
  /\ Idle(a, "tool") /\ a \in Senders /\ mlBox[a][m] = "inbox"
  /\ mlRead' = [mlRead EXCEPT ![a] = read]
  /\ MlFile(a, m, folder)
  /\ MlGo(a, "tool", Rendering({m}))
  /\ UNCHANGED <<mlUp, sendVars, postVars, claimVars, mlSeen, mlDigest, mlTold,
                 mlFaults, mlCrashes>>

MlReadMail(a, m) == MlToolStep(a, mlRead[a] \cup {m}, m, "inbox")
MlArchive(a, m)  == MlToolStep(a, mlRead[a] \ {m}, m, "archive")
MlDelete(a, m)   == MlToolStep(a, mlRead[a] \ {m}, m, "gone")

----------------------------------------------------------------------------
(* Crash and boot                                                          *)

MlCrash(a) ==
  /\ a \in mlUp /\ MlTrouble
  /\ mlUp' = mlUp \ {a} /\ mlCrashes' = mlCrashes + 1
  /\ mlMailman' = {m \in mlMailman : mlFrom[m.n] # a}
  /\ mlThread' = [mlThread EXCEPT ![a] = [t \in MailThreads |-> AtRest]]
  /\ mlSeen' = [mlSeen EXCEPT ![a] = {}]
  /\ mlLast' = IF a \in Senders
               THEN [mlLast EXCEPT ![a] = [d \in MailAddrs |-> [text |-> "", times |-> 0]]]
               ELSE mlLast
  /\ UNCHANGED <<mlSent, mlFrom, mlPosted, mlOutbox, mlStep, claimVars, mlBox, mlRead,
                 mlDigest, mlTold, mlBounced, mlFaults>>

\* listen: what is in the inbox is seen, and nothing is rendered.
MlBoot(a) ==
  /\ a \in Agents \ mlUp
  /\ mlUp' = mlUp \cup {a}
  /\ mlSeen' = [mlSeen EXCEPT ![a] = InFolder(a, "inbox") \cup InFolder(a, "partial")]
  /\ UNCHANGED <<sendVars, postVars, claimVars, mlBox, mlRead, mlDigest, mlThread,
                 mlTold, mlFaults, mlCrashes>>

MlMailman(m) == MlDeliver(m) \/ MlSelfOpen(m) \/ MlSelfWrite(m) \/ MlCleanUp(m) \/ MlBounce(m)
MlPoller(a) == \/ \E m \in Mails : MlPollInbox(a, m)
               \/ \E p \in PseudoMails : MlClaim(a, p) \/ MlClaimWrite(a, p)
                                           \/ MlClaimCommit(a, p)
               \/ MlCompute(a, "poller") \/ MlPublish(a, "poller")
MlTool(a) == MlCompute(a, "tool") \/ MlPublish(a, "tool")
MlActor == \/ \E a \in Senders, text \in Texts, targets \in Targets :
                MlSend(a, targets, text)
           \/ \E a \in Agents, m \in Mails :
                MlReadMail(a, m) \/ MlArchive(a, m) \/ MlDelete(a, m)
           \/ \E p \in PseudoMails : MlPersonWrites(p)

MlNext == \/ MlActor \/ \E m \in Letters : MlMailman(m)
          \/ \E a \in Agents : MlPoller(a) \/ MlTool(a) \/ MlCrash(a) \/ MlBoot(a)
MlSpec == MlInit /\ [][MlNext]_mlVars
\* Threads run on while their agent does; a crashed agent is started again.
MlFairness == /\ \A m \in Letters : WF_mlVars(MlMailman(m))
              /\ \A a \in Agents : /\ WF_mlVars(MlPoller(a)) /\ WF_mlVars(MlTool(a))
                                   /\ WF_mlVars(MlBoot(a))

----------------------------------------------------------------------------
MlTypeOK ==
  /\ mlUp \subseteq Agents /\ mlSent \in 0..MaxSends
  /\ mlOutbox \subseteq Letters /\ mlMailman \subseteq mlPosted /\ mlStep \in [Letters -> MailmanSteps]
  /\ \A m \in mlMailman : mlStep[m] # "over"
  /\ mlPseudo \in [PseudoMails -> {"unwritten", "outbox", "claim", "sent"}]
  /\ mlBox \in [Agents -> [Mails -> Folders]]
  /\ \A a \in Agents : mlRead[a] \cup mlSeen[a] \cup mlDigest[a] \subseteq Mails
  /\ \A a \in Agents, t \in MailThreads :
       /\ mlThread[a][t].at \in {"idle", "compute", "publish", "claimed", "written"}
       /\ mlThread[a][t].mail \cup mlThread[a][t].digest \subseteq Mails
  /\ mlBounced \subseteq Letters /\ \A a \in Agents : mlKept[a] \subseteq PseudoMails
  /\ mlFaults \in Nat /\ mlCrashes \in Nat /\ mlFaults + mlCrashes <= MaxMailTrouble

Arrived(m) == m.to \in Agents /\ mlBox[m.to][m] \in {"inbox", "archive", "gone"}

\* A letter is in its sender's outbox, or reached the recipient, or its sender was
\* told of the bounce; it is in none of these places only when its mailman stands,
\* or died, between the removal of the entry and the bounce (_mailman). What the
\* recipient got is not refused.
Accounted ==
  \A m \in mlPosted :
    /\ m \in mlOutbox \cup mlBounced \/ Arrived(m) \/ mlStep[m] = "bounce"
    /\ Arrived(m) => m \notin mlBounced /\ mlStep[m] \notin {"refused", "bounce"}

\* A person's mail to several agents reaches exactly the one whose claim is
\* recorded as sent, and none while it is in the outbox (_poll_pseudo_outbox),
\* but for the copy that a roll-back could not take back.
ClaimedOnce ==
  \A p \in PseudoMails :
    LET holders == {a \in Agents : mlBox[a][p] # "none" /\ p \notin mlKept[a]}
    IN /\ Cardinality(holders) <= 1
       /\ mlPseudo[p] = "sent" => \E a \in Agents : mlBox[a][p] # "none"
       /\ mlPseudo[p] = "outbox" => holders = {}

\* A mail is announced to an agent once, though the poller meets a claimed one
\* again in the inbox, and meets what it rolled back in the outbox (_seen).
AnnouncedToOne == \A a \in Agents : \A m \in Mails \ mlKept[a] : mlTold[a][m] <= 1

\* Every letter comes to an end: out of the outbox and with its recipient or
\* bounced; or its thread died on the way, with its process or of a file operation
\* that failed, and nothing looks at an outbox again (_mailman).
LetterSettles ==
  \A m \in Letters :
    m \in mlPosted ~>
      \/ m \notin mlOutbox /\ (Arrived(m) \/ m \in mlBounced)
      \/ m \notin mlMailman /\ mlStep[m] # "over" /\ mlFaults + mlCrashes > 0

\* A person's mail is claimed for good, unless the claimer died with the claim or
\* failed to put it back.
PersonHeard ==
  \A p \in PseudoMails :
    mlPseudo[p] = "outbox" ~>
      mlPseudo[p] = "sent" \/ (mlPseudo[p] = "claim" /\ (mlCrashes > 0 \/ mlFaults > 1))

\* email.json "remains a mirror of current unread mail" (messaging.py:40-43)
\* when both threads of a running agent have come to rest.
DigestMirrors ==
  \A a \in mlUp :
    (\A t \in MailThreads : Idle(a, t)) /\ InFolder(a, "inbox") \subseteq mlSeen[a]
      => mlDigest[a] = Unread(a)
=============================================================================
