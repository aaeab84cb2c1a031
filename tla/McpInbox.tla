------------------------------ MODULE McpInbox ------------------------------
(***************************************************************************)
(* The file inbox of the MCP servers (lingtai/core/mcp/licc.py, inbox.py): *)
(* a server drops one file per event, the agent's poller sweeps them,      *)
(* deletes each and publishes one notification for the sweep in            *)
(* `.notification/mcp.<name>.json`, over the one of the sweep before.      *)
(* One MCP server; several have a directory each and nothing in common.    *)
(***************************************************************************)
EXTENDS Integers, Sequences, FiniteSets

CONSTANTS
  Msgs,         \* messages the servers have events for: 1, 2, ...
  BadMsgs,      \* messages whose event may be one validate_event rejects
  MaxPerSweep,  \* MAX_EVENTS_PER_CYCLE
  MaxFaults,    \* bound: reads, dispatches, deletions and summaries that fail
  MaxCrashes    \* bound: crashes of the agent, and of the server

ASSUME InboxAssumption == /\ Msgs \subseteq Nat \ {0} /\ BadMsgs \subseteq Msgs
                          /\ MaxPerSweep \in Nat \ {0}
                          /\ MaxFaults \in Nat /\ MaxCrashes \in Nat

VARIABLES
  ibBad,       \* messages whose event validate_event rejects
  ibFiles,     \* event files: which copy of which message
  ibDead,      \* messages with an event moved to .dead
  ibVisited,   \* event files this sweep is past
  ibPreviews,  \* messages of the events this sweep has consumed
  ibMirror,    \* messages the notification file previews, {} when absent
  ibShown,     \* messages some notification pass showed the agent
  ibAnnounced, \* messages that were in the notification file (history)
  ibTold,      \* per message: sweeps that announced it (history)
  ibExcused,   \* messages a crash or a failed summary took (history)
  ibFaults, ibCrashes

ibVars == <<ibBad, ibFiles, ibDead, ibVisited, ibPreviews, ibMirror, ibShown,
            ibAnnounced, ibTold, ibExcused, ibFaults, ibCrashes>>

\* A file for the first push of a message, and for each that a fault or crash repeats.
IbEvent == [msg : Msgs, copy : 1..(1 + MaxFaults + MaxCrashes)]

IbInit ==
  /\ ibBad \in SUBSET BadMsgs
  /\ ibFiles = {} /\ ibDead = {} /\ ibVisited = {} /\ ibPreviews = {}
  /\ ibMirror = {} /\ ibShown = {} /\ ibAnnounced = {}
  /\ ibTold = [m \in Msgs |-> 0]
  /\ ibExcused = {} /\ ibFaults = 0 /\ ibCrashes = 0

\* push_inbox_event: a file of its own name, visible when complete.
IbPush(e) ==
  /\ ibFiles' = ibFiles \cup {e}
  /\ UNCHANGED <<ibBad, ibDead, ibVisited, ibPreviews, ibMirror, ibShown, ibAnnounced,
                 ibTold, ibExcused, ibFaults, ibCrashes>>

\* _scan_once is past MAX_EVENTS_PER_CYCLE events, or has seen every file.
IbMore == Cardinality(ibVisited) < MaxPerSweep
IbPending == {e \in ibFiles : e \notin ibVisited}

\* validate_event
IbValid(e) == e.msg \notin ibBad

\* An event that is not valid, or whose read or dispatch fails.  A move that fails
\* as well leaves the file to the next sweep.
IbDeadLetter(e) ==
  /\ IbMore /\ e \in IbPending
  /\ \/ ~IbValid(e) /\ UNCHANGED ibFaults
     \/ ibFaults < MaxFaults /\ ibFaults' = ibFaults + 1
  /\ ibFiles' = ibFiles \ {e}
  /\ ibDead' = ibDead \cup {e.msg}
  /\ UNCHANGED <<ibBad, ibVisited, ibPreviews, ibMirror, ibShown, ibAnnounced, ibTold,
                 ibExcused, ibCrashes>>

\* _consume_event: the event is logged, and its preview is one of the sweep's.
IbPreviewed(e) == ibPreviews' = ibPreviews \cup {e.msg}

\* Bugs: it is not looked whether the file went; the file goes first.
IbConsumeKeeping(e) ==
  /\ IbMore /\ e \in IbPending /\ IbValid(e)
  /\ IbPreviewed(e) /\ ibVisited' = ibVisited \cup {e}
  /\ UNCHANGED <<ibBad, ibFiles, ibDead, ibMirror, ibShown, ibAnnounced, ibTold,
                 ibExcused, ibFaults, ibCrashes>>
IbConsumeUnlinked(e) ==
  /\ IbMore /\ e \in IbPending /\ IbValid(e)
  /\ ibFiles' = ibFiles \ {e} /\ ibVisited' = ibVisited \cup {e}
  /\ \/ IbPreviewed(e) /\ UNCHANGED ibFaults
     \/ /\ ibFaults < MaxFaults /\ ibFaults' = ibFaults + 1
        /\ UNCHANGED ibPreviews
  /\ UNCHANGED <<ibBad, ibDead, ibMirror, ibShown, ibAnnounced, ibTold, ibExcused,
                 ibCrashes>>

\* _consume_event, then unlink; one that fails leaves the file.
IbConsume(e) ==
  /\ IbMore /\ e \in IbPending /\ IbValid(e)
  /\ IbPreviewed(e)
  /\ ibVisited' = ibVisited \cup {e}
  /\ \/ ibFiles' = ibFiles \ {e} /\ UNCHANGED ibFaults
     \/ /\ ibFaults < MaxFaults
        /\ ibFaults' = ibFaults + 1
        /\ UNCHANGED ibFiles
  /\ UNCHANGED <<ibBad, ibDead, ibMirror, ibShown, ibAnnounced, ibTold, ibExcused,
                 ibCrashes>>

\* _dispatch_summary: one notification for the sweep's previews, over the last one.
IbAnnounces ==
  /\ ibMirror' = ibPreviews
  /\ ibAnnounced' = ibAnnounced \cup ibPreviews
  /\ ibTold' = [m \in Msgs |-> ibTold[m] + (IF m \in ibPreviews THEN 1 ELSE 0)]

\* The end of the sweep; a summary that fails is logged.
IbDispatch ==
  /\ ibPreviews # {} /\ (~IbMore \/ IbPending = {})
  /\ \/ /\ IbAnnounces
        /\ UNCHANGED <<ibExcused, ibFaults>>
     \/ /\ ibFaults < MaxFaults
        /\ ibFaults' = ibFaults + 1
        /\ ibExcused' = ibExcused \cup ibPreviews
        /\ UNCHANGED <<ibMirror, ibAnnounced, ibTold>>
  /\ ibPreviews' = {} /\ ibVisited' = {}
  /\ UNCHANGED <<ibBad, ibFiles, ibDead, ibShown, ibCrashes>>

\* A notification pass reads the file; a dismissal removes what was shown.
IbPass ==
  /\ ibMirror # {} /\ ~(ibMirror \subseteq ibShown)
  /\ ibShown' = ibShown \cup ibMirror
  /\ UNCHANGED <<ibBad, ibFiles, ibDead, ibVisited, ibPreviews, ibMirror, ibAnnounced,
                 ibTold, ibExcused, ibFaults, ibCrashes>>

IbDismiss ==
  /\ ibMirror # {} /\ ibMirror \subseteq ibShown
  /\ ibMirror' = {}
  /\ UNCHANGED <<ibBad, ibFiles, ibDead, ibVisited, ibPreviews, ibShown, ibAnnounced,
                 ibTold, ibExcused, ibFaults, ibCrashes>>

\* The agent process goes: what the sweep has deleted is in no file.
IbCrash ==
  /\ ibCrashes < MaxCrashes /\ ibPreviews # {}
  /\ ibCrashes' = ibCrashes + 1
  /\ ibExcused' = ibExcused \cup ibPreviews
  /\ ibPreviews' = {} /\ ibVisited' = {}
  /\ UNCHANGED <<ibBad, ibFiles, ibDead, ibMirror, ibShown, ibAnnounced, ibTold,
                 ibFaults>>

IbSweep == IbDispatch \/ \E e \in IbEvent : IbDeadLetter(e) \/ IbConsume(e)
IbAgent == IbSweep \/ IbPass \/ IbDismiss \/ IbCrash
IbFairness == WF_ibVars(IbSweep) /\ WF_ibVars(IbPass)

IbTypeOK ==
  /\ ibFiles \subseteq IbEvent /\ ibVisited \subseteq IbEvent
  /\ ibBad \subseteq BadMsgs /\ ibDead \subseteq Msgs
  /\ ibPreviews \subseteq Msgs \ ibBad /\ ibMirror \subseteq Msgs \ ibBad
  /\ ibAnnounced \subseteq Msgs \ ibBad /\ ibShown \subseteq ibAnnounced
  /\ ibTold \in [Msgs -> Nat]
  /\ ibExcused \subseteq Msgs
  /\ ibFaults \in 0..MaxFaults /\ ibCrashes \in 0..MaxCrashes
=============================================================================
