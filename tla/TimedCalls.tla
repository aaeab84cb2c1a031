----------------------------- MODULE TimedCalls -----------------------------
(***************************************************************************)
(* The timed-call inbox (tc_inbox.py): threads queue pairs of a call and   *)
(* its result, the run loop splices them into the chat where no call is    *)
(* unanswered: at the start of a request, before each request to the       *)
(* provider, or on a wake that then sends each result by itself            *)
(* (base_agent/turn.py).  A source may keep one pair, the latest.          *)
(***************************************************************************)
EXTENDS Naturals, Sequences, FiniteSets, Subsequence

CONSTANTS
  TcSources,  \* who queues
  TcKeepsOne, \* the sources that coalesce in the queue and replace in the chat
  TcItems,    \* bound: pairs queued, numbered from 1
  TcFaults    \* bound: sends that fail, molts, restarts

ASSUME TimedCallAssumption ==
  TcKeepsOne \subseteq TcSources /\ "agent" \notin TcSources /\ TcItems \in Nat /\ TcFaults \in Nat

VARIABLES
  tcQueue,   \* _items
  tcWire,    \* the chat: pairs and the agent's own turns
  tcPending, \* the last entry of the chat is a call without its result
  tcTracked, \* _appendix_ids_by_source: the pair a source has in the chat, 0 for none
  tcAt,      \* the run loop: idle, or on a wake
  tcTaken,   \* what the wake took from the queue
  tcItems, tcFaults

tcVars == <<tcQueue, tcWire, tcPending, tcTracked, tcAt, tcTaken, tcItems, tcFaults>>
tcLoop == <<tcAt, tcTaken>>
tcChat == <<tcWire, tcPending, tcTracked>>

OwnTurn == [n |-> 0, source |-> "agent"]

TcInit ==
  /\ tcQueue = <<>> /\ tcWire = <<>> /\ tcPending = FALSE
  /\ tcTracked = [s \in TcKeepsOne |-> 0]
  /\ tcAt = "idle" /\ tcTaken = <<>> /\ tcItems = 0 /\ tcFaults = 0

TcFault == tcFaults < TcFaults /\ tcFaults' = tcFaults + 1

-----------------------------------------------------------------------------
(* The queue *)

\* The places of a source, and the first of them
PlacesOf(seq, s) == {i \in DOMAIN seq : seq[i].source = s}
FirstOf(seq, s) == CHOOSE i \in PlacesOf(seq, s) : \A j \in PlacesOf(seq, s) : i <= j

\* A coalescing item takes the place of the one its source has queued
Queued(queue, item) ==
  IF item.source \in TcKeepsOne /\ PlacesOf(queue, item.source) # {}
    THEN [queue EXCEPT ![FirstOf(queue, item.source)] = item]
    ELSE Append(queue, item)

AllQueued(queue, items) ==
  LET after[i \in 0..Len(items)] == IF i = 0 THEN queue ELSE Queued(after[i - 1], items[i])
  IN after[Len(items)]

TcEnqueue(source) ==
  /\ tcItems < TcItems /\ tcItems' = tcItems + 1
  /\ tcQueue' = Queued(tcQueue, [n |-> tcItems + 1, source |-> source])
  /\ UNCHANGED <<tcChat, tcLoop, tcFaults>>

-----------------------------------------------------------------------------
(* The chat *)

\* remove_pair_by_call_id; no pair has number 0
Removed(wire, n) == AtPlaces(wire, {i \in DOMAIN wire : wire[i].n = 0 \/ wire[i].n # n})

\* Mutation of Spliced: the pair of before stays
SplicedBeside(chat, item) ==
  [wire |-> Append(chat.wire, item),
   tracked |-> [s \in TcKeepsOne |-> IF s = item.source THEN item.n ELSE chat.tracked[s]]]

\* The pair tracked for the source goes, the new one comes last
Spliced(chat, item) ==
  [wire |-> Append(IF item.source \in TcKeepsOne THEN Removed(chat.wire, chat.tracked[item.source])
                   ELSE chat.wire, item),
   tracked |-> [s \in TcKeepsOne |-> IF s = item.source THEN item.n ELSE chat.tracked[s]]]

AllSpliced(chat, items) ==
  LET after[i \in 0..Len(items)] == IF i = 0 THEN chat ELSE Spliced(after[i - 1], items[i])
  IN after[Len(items)]

Chat == [wire |-> tcWire, tracked |-> tcTracked]
Becomes(chat) == tcWire' = chat.wire /\ tcTracked' = chat.tracked

\* At the start of a request, and from the hook inside each send
TcDrain ==
  /\ tcAt = "idle" /\ ~tcPending /\ tcQueue # <<>>
  /\ Becomes(AllSpliced(Chat, tcQueue))
  /\ tcQueue' = <<>>
  /\ UNCHANGED <<tcPending, tcLoop, tcItems, tcFaults>>

\* The agent's own turn makes a call, and answers it (bound: one such turn in
\* the chat)
TcTurn ==
  /\ tcAt = "idle" /\ tcPending' = ~tcPending
  /\ tcWire' = IF tcPending THEN tcWire ELSE Append(tcWire, OwnTurn)
  /\ Cardinality({i \in DOMAIN tcWire' : tcWire'[i] = OwnTurn}) <= 1
  /\ UNCHANGED <<tcQueue, tcTracked, tcLoop, tcItems, tcFaults>>

-----------------------------------------------------------------------------
(* A wake *)

TcWake ==
  /\ tcAt = "idle" /\ tcQueue # <<>> /\ tcAt' = "woken"
  /\ tcTaken' = tcQueue /\ tcQueue' = <<>>
  /\ UNCHANGED <<tcChat, tcItems, tcFaults>>

\* Not here: what was taken is queued again, one by one
TcDefers ==
  /\ tcAt = "woken" /\ tcPending
  /\ tcQueue' = AllQueued(tcQueue, tcTaken)
  /\ tcAt' = "idle" /\ tcTaken' = <<>>
  /\ UNCHANGED <<tcChat, tcItems, tcFaults>>

\* The call of the first is appended, its result sent
TcSplices ==
  /\ tcAt = "woken" /\ ~tcPending /\ tcTaken # <<>>
  /\ Becomes(Spliced(Chat, Head(tcTaken)))
  /\ tcPending' = TRUE /\ tcAt' = "sending" /\ tcTaken' = Tail(tcTaken)
  /\ UNCHANGED <<tcQueue, tcItems, tcFaults>>

TcSends ==
  /\ tcAt = "sending" /\ tcPending' = FALSE
  /\ tcAt' = IF tcTaken = <<>> THEN "idle" ELSE "woken"
  /\ UNCHANGED <<tcQueue, tcWire, tcTracked, tcTaken, tcItems, tcFaults>>

\* The result is restored behind its call, the rest is queued again
TcSendFails ==
  /\ tcAt = "sending" /\ TcFault /\ tcPending' = FALSE
  /\ tcQueue' = AllQueued(tcQueue, tcTaken)
  /\ tcAt' = "idle" /\ tcTaken' = <<>>
  /\ UNCHANGED <<tcWire, tcTracked, tcItems>>

\* A molt starts the chat over: the queue and the tracking go with it
TcMolts ==
  /\ tcAt = "idle" /\ TcFault
  /\ tcWire' = <<>> /\ tcPending' = FALSE /\ tcTracked' = [s \in TcKeepsOne |-> 0]
  /\ tcQueue' = <<>>
  /\ UNCHANGED <<tcLoop, tcItems>>

\* Mutation of Rehydrated: the pair in the chat is not looked for
ForgetsPair(wire, s) == 0

\* The first pair of the source in the chat that was saved
Rehydrated(wire, s) == IF PlacesOf(wire, s) = {} THEN 0 ELSE wire[FirstOf(wire, s)].n

\* The chat is on disk, the queue is not
TcRestarts ==
  /\ TcFault /\ tcQueue' = <<>> /\ tcAt' = "idle" /\ tcTaken' = <<>> /\ tcPending' = FALSE
  /\ tcTracked' = [s \in TcKeepsOne |-> Rehydrated(tcWire, s)]
  /\ UNCHANGED <<tcWire, tcItems>>

TcNext ==
  \/ \E s \in TcSources : TcEnqueue(s)
  \/ TcDrain \/ TcTurn \/ TcWake \/ TcDefers \/ TcSplices \/ TcSends \/ TcSendFails
  \/ TcMolts \/ TcRestarts

TcSpec == TcInit /\ [][TcNext]_tcVars

-----------------------------------------------------------------------------
(* Properties *)

Numbers(seq) == {seq[i].n : i \in DOMAIN seq} \ {0}

\* Values the inbox's state takes
TcTypeOK ==
  /\ \A seq \in {tcQueue, tcTaken} : seq \in Seq([n : 1..TcItems, source : TcSources])
  /\ tcWire \in Seq([n : 0..TcItems, source : TcSources \cup {"agent"}])
  /\ tcPending \in BOOLEAN /\ tcTracked \in [TcKeepsOne -> 0..TcItems]
  /\ tcAt \in {"idle", "woken", "sending"}
  /\ tcItems \in 0..TcItems /\ tcFaults \in 0..TcFaults

\* A source that keeps one pair has one in the chat, one in the queue at
\* most, whatever mix of drains, wakes, failed sends, molts and restarts
\* put them there; and no pair is both in the chat and still to come.
OnePairEach ==
  /\ \A s \in TcKeepsOne, seq \in {tcWire, tcQueue} :
       \A i, j \in PlacesOf(seq, s) : i = j
  /\ Numbers(tcWire) \cap (Numbers(tcQueue) \cup Numbers(tcTaken)) = {}

\* Violated: "the latest voice wins" (tc_inbox.py).  A wake that finds a call
\* unanswered queues what it took again, in place of what came since.
LatestWins ==
  [][\A s \in TcKeepsOne, i \in DOMAIN tcQueue, j \in DOMAIN tcQueue' :
       tcQueue[i].source = s /\ tcQueue'[j].source = s => tcQueue[i].n <= tcQueue'[j].n]_tcVars
=============================================================================
