------------------------------ MODULE Mailbox ------------------------------
(***************************************************************************)
(* The tool calls of an IMAP account (lingtai/mcp_servers/imap): each is a *)
(* list of commands on one cached connection, run again from the first     *)
(* when the connection fails, once, whatever the server had already done.  *)
(***************************************************************************)
EXTENDS Naturals, Sequences, FiniteSets

CONSTANTS
  MbMessages, \* messages in the inbox at the start, numbered from 1
  MbCalls,    \* bound: calls
  MbFaults    \* bound: commands that fail, connections that are not made

ASSUME MailboxAssumption == MbMessages \in Nat /\ MbCalls \in Nat /\ MbFaults \in Nat

VARIABLES
  mbCaps,   \* what the server can: [move, uidplus, trash]
  mbBox,    \* copies: [msg, uid, folder, gone], gone for the \Deleted flag
  mbUid,    \* the next uid
  mbConn,   \* the cached connection: it works, it is dead, there is none
  mbCall,   \* the call being made
  mbTold,   \* what the last call was told
  mbDoomed, \* messages a call or another client marked to go
  mbCalls, mbFaults

mbVars == <<mbCaps, mbBox, mbUid, mbConn, mbCall, mbTold, mbDoomed, mbCalls, mbFaults>>
mbServer == <<mbBox, mbUid>>

Folders == {"inbox", "archive", "trash"}
NoMailCall == [op |-> "none", msg |-> 0, uid |-> 0, from |-> "inbox", to |-> "inbox",
               todo |-> <<>>, tries |-> 0]
NotTold == [op |-> "none", msg |-> 0, uid |-> 0, to |-> "inbox", ok |-> FALSE]

\* Mutation of Commands: the source goes before the copy is made
ExpungedFirst(op) ==
  CASE op = "move" /\ mbCaps.move -> <<"move">>
    [] op = "move" /\ ~mbCaps.move -> <<"flag", "expunge", "copy">>
    [] op = "delete" -> <<"flag", "expunge">>

\* The commands of move_message and delete_message, behind their SELECT
Commands(op) ==
  CASE op = "move" /\ mbCaps.move -> <<"move">>
    [] op = "move" /\ ~mbCaps.move -> <<"copy", "flag", "expunge">>
    [] op = "delete" -> <<"flag", "expunge">>

\* What a server may announce that it can, and have
Capabilities == [move : BOOLEAN, uidplus : BOOLEAN, trash : BOOLEAN]

MbInit ==
  /\ mbCaps \in Capabilities
  /\ mbBox = {[msg |-> m, uid |-> m, folder |-> "inbox", gone |-> FALSE] : m \in 1..MbMessages}
  /\ mbUid = MbMessages + 1 /\ mbConn = "none" /\ mbCall = NoMailCall /\ mbTold = NotTold
  /\ mbDoomed = {} /\ mbCalls = 0 /\ mbFaults = 0

-----------------------------------------------------------------------------
(* The server: a uid that is not there is passed over, not refused *)

Named(call) == {c \in mbBox : c.uid = call.uid /\ c.folder = call.from}
Purged(call) == {c \in mbBox : /\ c.folder = call.from /\ c.gone
                               /\ mbCaps.uidplus => c.uid = call.uid}
Copied(call) == {[c EXCEPT !.uid = mbUid, !.folder = call.to, !.gone = FALSE] : c \in Named(call)}

\* Without UIDPLUS an expunge takes whatever is marked in the folder
Does(command, call) ==
  /\ mbBox' = CASE command = "move" -> (mbBox \ Named(call)) \cup Copied(call)
                [] command = "copy" -> mbBox \cup Copied(call)
                [] command = "flag" -> (mbBox \ Named(call))
                                       \cup {[c EXCEPT !.gone = TRUE] : c \in Named(call)}
                [] command = "expunge" -> mbBox \ Purged(call)
  /\ mbUid' = IF command \in {"move", "copy"} THEN mbUid + 1 ELSE mbUid

-----------------------------------------------------------------------------
(* A call *)

\* A message is moved; deleting one moves it to the trash, if there is one
\* and it is not there already
MbStarts(op, c, dest) ==
  /\ mbCall.op = "none" /\ mbCalls < MbCalls /\ mbCalls' = mbCalls + 1
  /\ c \in mbBox /\ (op = "delete" => dest = "trash")
  /\ LET moves == op = "move" \/ (mbCaps.trash /\ c.folder # "trash")
     IN /\ mbCall' = [op |-> IF moves THEN "move" ELSE "delete", msg |-> c.msg, uid |-> c.uid,
                      from |-> c.folder, to |-> dest,
                      todo |-> Commands(IF moves THEN "move" ELSE "delete"), tries |-> 1]
        /\ mbDoomed' = IF moves THEN mbDoomed ELSE mbDoomed \cup {c.msg}
  /\ UNCHANGED <<mbCaps, mbServer, mbConn, mbTold, mbFaults>>

Tells(ok) ==
  /\ mbTold' = [op |-> mbCall.op, msg |-> mbCall.msg, uid |-> mbCall.uid, to |-> mbCall.to,
                ok |-> ok]
  /\ mbCall' = NoMailCall

MailFault == mbFaults < MbFaults /\ mbFaults' = mbFaults + 1

\* The cached connection answers a NOOP, or another is made
MbConnects ==
  /\ mbCall.op # "none" /\ mbConn # "live" /\ mbConn' = "live"
  /\ UNCHANGED <<mbCaps, mbServer, mbCall, mbTold, mbDoomed, mbCalls, mbFaults>>

\* A connection that cannot be made ends the call
MbNoConnection ==
  /\ mbCall.op # "none" /\ mbConn # "live" /\ MailFault /\ Tells(FALSE) /\ mbConn' = "none"
  /\ UNCHANGED <<mbCaps, mbServer, mbDoomed, mbCalls>>

MbCommand ==
  /\ mbCall.op # "none" /\ mbConn = "live"
  /\ Does(Head(mbCall.todo), mbCall)
  /\ IF Len(mbCall.todo) = 1 THEN Tells(TRUE)
     ELSE mbCall' = [mbCall EXCEPT !.todo = Tail(@)] /\ UNCHANGED mbTold
  /\ UNCHANGED <<mbCaps, mbConn, mbDoomed, mbCalls, mbFaults>>

\* The command is refused, or lost before or after the server did it: the
\* whole call is made again, the second time it is over
MbFails ==
  /\ mbCall.op # "none" /\ mbConn = "live" /\ MailFault /\ mbConn' = "none"
  /\ \/ UNCHANGED mbServer
     \/ Does(Head(mbCall.todo), mbCall)
  /\ IF mbCall.tries = 1
       THEN /\ mbCall' = [mbCall EXCEPT !.todo = Commands(mbCall.op), !.tries = 2]
            /\ UNCHANGED mbTold
       ELSE Tells(FALSE)
  /\ UNCHANGED <<mbCaps, mbDoomed, mbCalls>>

\* The server closes a connection nobody uses
MbCloses ==
  /\ mbConn = "live" /\ mbCall.op = "none" /\ mbConn' = "dead"
  /\ UNCHANGED <<mbCaps, mbServer, mbCall, mbTold, mbDoomed, mbCalls, mbFaults>>

\* Another client marks a message
MbOtherMarks(c) ==
  /\ c \in mbBox /\ ~c.gone /\ mbDoomed = {}
  /\ mbBox' = (mbBox \ {c}) \cup {[c EXCEPT !.gone = TRUE]} /\ mbDoomed' = {c.msg}
  /\ UNCHANGED <<mbCaps, mbUid, mbConn, mbCall, mbTold, mbCalls, mbFaults>>

\* The tool's move and delete, one message after the other
MbAsks == \E op \in {"move", "delete"}, c \in mbBox, dest \in Folders : MbStarts(op, c, dest)

MbNext ==
  \/ MbAsks \/ MbConnects \/ MbNoConnection \/ MbCommand \/ MbFails \/ MbCloses
  \/ \E c \in mbBox : MbOtherMarks(c)

MbSpec == MbInit /\ [][MbNext]_mbVars

-----------------------------------------------------------------------------
(* Properties *)

\* Values the account's state takes
MbTypeOK ==
  /\ mbCaps \in Capabilities
  /\ \A c \in mbBox : /\ c.msg \in 1..MbMessages /\ c.uid < mbUid
                      /\ c.folder \in Folders /\ c.gone \in BOOLEAN
  /\ mbConn \in {"none", "live", "dead"} /\ mbCall.op \in {"none", "move", "delete"}
  /\ mbCall.tries \in 0..2 /\ mbDoomed \subseteq 1..MbMessages
  /\ mbCalls \in 0..MbCalls /\ mbFaults \in 0..MbFaults

\* However often the connection fails in the middle of a call, before or
\* after the server did what it was told, a message nobody marked to go is in
\* some folder.  And what was reported moved is where it was to go, and the
\* copy that was named is not where it came from.
MailKept ==
  /\ \A m \in (1..MbMessages) \ mbDoomed : \E c \in mbBox : c.msg = m
  /\ mbTold.ok /\ mbCall.op = "none" /\ mbTold.op = "move" /\ mbTold.msg \notin mbDoomed =>
       /\ \E c \in mbBox : c.msg = mbTold.msg /\ c.folder = mbTold.to
       /\ \A c \in mbBox : c.uid # mbTold.uid

\* Violated: what was reported moved is there once.  A copy made before the
\* connection failed is made again when the call is.
MovedOnce ==
  mbTold.ok /\ mbCall.op = "none" /\ mbTold.op = "move" =>
    Cardinality({c \in mbBox : c.msg = mbTold.msg /\ ~c.gone}) <= 1
=============================================================================
