----------------------------- MODULE McpClient -----------------------------
(***************************************************************************)
(* The agent's side of one MCP server: the client that bridges the         *)
(* synchronous tool calls to an event loop on a thread of its own          *)
(* (services/mcp.py), and the agent that connects it at boot, connects it  *)
(* again at a refresh and closes it when it stops (agent.py). The turn     *)
(* thread connects and calls; the main thread stops.                       *)
(***************************************************************************)
EXTENDS Integers, FiniteSets

CONSTANTS
  McClients,   \* bound: client objects
  McLoops,     \* bound: background threads, each with its event loop and server
  McDeaths     \* bound: servers that die

ASSUME McpClientAssumption == {McClients, McLoops} \subseteq Nat \ {0} /\ McDeaths \in Nat

Clients == 1..McClients
Loops == 1..McLoops

VARIABLES
  mcClient,    \* the fields of each client
  mcLoop,      \* where each background thread is
  mcOwner,     \* the client it belongs to, or 0
  mcAsked,     \* loops asked to stop
  mcUp,        \* loops whose server process is up
  mcList,      \* agent._mcp_clients
  mcSpec,      \* the client of _mcp_init_specs, or 0
  mcTool,      \* the client the registered handlers call, or 0
  mcTold,      \* what the last _retry_failed_mcps reported
  mcTurn,      \* the turn thread: what it does, where, to which client, which try
  mcStop,      \* Agent.stop: no, or closed
  mcDeaths     \* servers that died

mcVars == <<mcClient, mcLoop, mcOwner, mcAsked, mcUp, mcList, mcSpec, mcTool, mcTold,
            mcTurn, mcStop, mcDeaths>>
mcAgent == <<mcList, mcSpec, mcTool, mcTold>>
mcServers == <<mcLoop, mcOwner, mcAsked, mcUp, mcDeaths>>

\* _session and _loop hold a loop or 0.
Blank == [session |-> 0, loop |-> 0, ready |-> FALSE, error |-> FALSE, closed |-> FALSE]
McIdle == [op |-> "none", at |-> "idle", c |-> 0, try |-> 0]

McInit ==
  /\ mcClient = [c \in Clients |-> Blank]
  /\ mcLoop = [l \in Loops |-> "none"] /\ mcOwner = [l \in Loops |-> 0]
  /\ mcAsked = {} /\ mcUp = {} /\ mcList = {} /\ mcSpec = 0 /\ mcTool = 0
  /\ mcTold = "nothing" /\ mcTurn = McIdle /\ mcStop = "no" /\ mcDeaths = 0

Running(l) == l # 0 /\ mcLoop[l] \in {"connecting", "initializing", "forever"}

\* is_connected: nothing here asks whether the server still runs.
Linked(fields) == fields.session # 0 /\ Running(fields.loop) /\ ~fields.closed
Connected(c) == Linked(mcClient[c])

FreeClients == {c \in Clients : \A l \in Loops : mcOwner[l] # c}
FreeLoops == {l \in Loops : mcLoop[l] = "none"}
\* A bound: an operation starts a thread at most twice.
RoomForTwo == Cardinality(FreeLoops) >= 2
Lowest(s) == CHOOSE x \in s : \A y \in s : x <= y

----------------------------------------------------------------------------
(* The background thread (_run_loop, _async_connect, _async_cleanup)       *)

\* The server is up and the session of the client is this thread's: _session is set before the
\* handshake, so is_connected already holds.
McOpens(l) ==
  /\ mcLoop[l] = "connecting" /\ l \notin mcAsked
  /\ mcLoop' = [mcLoop EXCEPT ![l] = "initializing"] /\ mcUp' = mcUp \cup {l}
  /\ mcClient' = [mcClient EXCEPT ![mcOwner[l]].session = l]
  /\ UNCHANGED <<mcOwner, mcAsked, mcAgent, mcTurn, mcStop, mcDeaths>>

\* The handshake is done.
McConnects(l) ==
  /\ mcLoop[l] = "initializing" /\ l \notin mcAsked /\ l \in mcUp
  /\ mcLoop' = [mcLoop EXCEPT ![l] = "forever"]
  /\ mcClient' = [mcClient EXCEPT ![mcOwner[l]].ready = TRUE]
  /\ UNCHANGED <<mcUp, mcOwner, mcAsked, mcAgent, mcTurn, mcStop, mcDeaths>>

\* The connection fails, before the session is there or after: it is not taken back.
McFails(l) ==
  /\ mcLoop[l] \in {"connecting", "initializing"} /\ l \notin mcAsked
  /\ mcLoop' = [mcLoop EXCEPT ![l] = "over"] /\ mcUp' = mcUp \ {l}
  /\ mcClient' = [mcClient EXCEPT ![mcOwner[l]].error = TRUE, ![mcOwner[l]].ready = TRUE]
  /\ UNCHANGED <<mcOwner, mcAsked, mcAgent, mcTurn, mcStop, mcDeaths>>

\* loop.stop ends run_forever; under run_until_complete it is an error of the
\* connection. The clean-up takes the server down.
McLoopStops(l) ==
  /\ Running(l) /\ l \in mcAsked
  /\ mcLoop' = [mcLoop EXCEPT ![l] = "over"] /\ mcUp' = mcUp \ {l}
  /\ mcClient' = IF mcLoop[l] = "forever" THEN mcClient
                 ELSE [mcClient EXCEPT ![mcOwner[l]].error = TRUE, ![mcOwner[l]].ready = TRUE]
  /\ UNCHANGED <<mcOwner, mcAsked, mcAgent, mcTurn, mcStop, mcDeaths>>

\* The server process dies: the streams close, the loop runs on.
McServerDies(l) ==
  /\ l \in mcUp /\ mcDeaths < McDeaths
  /\ mcUp' = mcUp \ {l} /\ mcDeaths' = mcDeaths + 1
  /\ UNCHANGED <<mcClient, mcLoop, mcOwner, mcAsked, mcAgent, mcTurn, mcStop>>

----------------------------------------------------------------------------
(* Starting and closing                                                    *)

\* start: nothing when it believes itself connected; otherwise a new thread, and
\* a wait for _ready that a _ready left from before ends at once.
Starting(c, turn, fields) ==
  IF Linked(fields)
  THEN /\ mcTurn' = [turn EXCEPT !.at = "started"]
       /\ mcClient' = [mcClient EXCEPT ![c] = fields] /\ UNCHANGED <<mcLoop, mcOwner>>
  ELSE LET l == Lowest(FreeLoops)
       IN /\ mcLoop' = [mcLoop EXCEPT ![l] = "connecting"]
          /\ mcOwner' = [mcOwner EXCEPT ![l] = c]
          /\ mcClient' = [mcClient EXCEPT ![c] = [fields EXCEPT !.loop = l]]
          /\ mcTurn' = [turn EXCEPT !.at = "waiting"]

\* close: the loop is asked to stop, and the thread waited for, but not for long.
Asks(c) == IF mcClient[c].closed \/ ~Running(mcClient[c].loop) THEN {} ELSE {mcClient[c].loop}

\* The wait ends: ready, or thirty seconds. An error, of this start or of an
\* earlier one, is raised.
McStarted ==
  /\ mcTurn.at = "waiting"
  /\ mcTurn' = IF ~mcClient[mcTurn.c].error THEN [mcTurn EXCEPT !.at = "started"]
               ELSE IF mcTurn.op = "call" THEN McIdle ELSE [mcTurn EXCEPT !.at = "failed"]
  /\ UNCHANGED <<mcClient, mcServers, mcAgent, mcStop>>

----------------------------------------------------------------------------
(* Connecting (connect_mcp, _load_mcp_from_workdir, _retry_failed_mcps)    *)

Connects(c) == Starting(c, [op |-> "connect", at |-> "", c |-> c, try |-> 1], Blank)

McLoad ==
  /\ mcTurn = McIdle /\ mcStop = "no" /\ mcTold = "nothing" /\ mcTool = 0 /\ mcList = {}
  /\ FreeClients = Clients /\ RoomForTwo
  /\ Connects(Lowest(FreeClients))
  /\ UNCHANGED <<mcAsked, mcUp, mcAgent, mcStop, mcDeaths>>

\* A client that says it is connected is healthy. Another is closed and
\* forgotten, and a new one connected.
McRetry ==
  /\ mcTurn = McIdle /\ mcStop = "no" /\ FreeClients # Clients /\ RoomForTwo
  /\ IF mcSpec # 0 /\ Connected(mcSpec)
     THEN /\ mcTold' = "healthy" /\ UNCHANGED <<mcClient, mcLoop, mcOwner, mcAsked, mcList, mcTurn>>
     ELSE /\ FreeClients # {} /\ Connects(Lowest(FreeClients))
          /\ mcAsked' = mcAsked \cup (IF mcSpec = 0 THEN {} ELSE Asks(mcSpec))
          /\ mcList' = mcList \ {mcSpec} /\ UNCHANGED mcTold
  /\ UNCHANGED <<mcUp, mcSpec, mcTool, mcStop, mcDeaths>>

\* The start is over: the client is on the list before it is asked for its tools.
McAppend ==
  /\ mcTurn.op = "connect" /\ mcTurn.at = "started"
  /\ mcList' = mcList \cup {mcTurn.c} /\ mcTurn' = [mcTurn EXCEPT !.at = "listing"]
  /\ UNCHANGED <<mcClient, mcServers, mcSpec, mcTool, mcTold, mcStop>>

\* list_tools: not connected after all, it starts once more; then it is answered,
\* or it is not (no session, a dead server, ten seconds).
McListStarts ==
  /\ mcTurn.op = "connect" /\ mcTurn.at = "listing" /\ ~Connected(mcTurn.c) /\ mcTurn.try = 1
  /\ Starting(mcTurn.c, [mcTurn EXCEPT !.try = 2], mcClient[mcTurn.c])
  /\ UNCHANGED <<mcAsked, mcUp, mcAgent, mcStop, mcDeaths>>

McListed ==
  /\ mcTurn.op = "connect" /\ mcTurn.at = "listing"
  /\ mcTurn.try = 2 \/ Connected(mcTurn.c)
  /\ \/ /\ mcClient[mcTurn.c].loop \in mcUp
        /\ mcTool' = mcTurn.c /\ mcSpec' = mcTurn.c /\ mcTurn' = McIdle
        /\ mcTold' = IF Connected(mcTurn.c) THEN "recovered" ELSE "still_failed"
     \/ /\ mcTurn' = [mcTurn EXCEPT !.at = "failed"] /\ UNCHANGED <<mcTool, mcSpec, mcTold>>
  /\ UNCHANGED <<mcClient, mcServers, mcList, mcStop>>

McConnectFails ==
  /\ mcTurn.op = "connect" /\ mcTurn.at = "failed"
  /\ mcSpec' = 0 /\ mcTold' = "still_failed" /\ mcTurn' = McIdle
  /\ UNCHANGED <<mcClient, mcServers, mcList, mcTool, mcStop>>

----------------------------------------------------------------------------
(* Calling (call_tool)                                                     *)

McCall ==
  /\ mcTurn = McIdle /\ mcTool # 0 /\ ~mcClient[mcTool].closed /\ RoomForTwo
  /\ Starting(mcTool, [op |-> "call", at |-> "", c |-> mcTool, try |-> 1], mcClient[mcTool])
  /\ UNCHANGED <<mcAsked, mcUp, mcAgent, mcStop, mcDeaths>>

\* No session or no loop: an error at once. Otherwise the coroutine is handed to
\* the loop.
McSends ==
  /\ mcTurn.op = "call" /\ mcTurn.at = "started"
  /\ mcTurn' = IF mcClient[mcTurn.c].session = 0 /\ mcTurn.try = 1 THEN McIdle
               ELSE [mcTurn EXCEPT !.at = "attempt"]
  /\ UNCHANGED <<mcClient, mcServers, mcAgent, mcStop>>

\* Bug: the future is waited for without a timeout.
AnsweredOnly ==
  /\ mcTurn.at = "attempt" /\ mcClient[mcTurn.c].loop \in mcUp
  /\ mcTurn' = McIdle
  /\ UNCHANGED <<mcClient, mcServers, mcAgent, mcStop>>

\* The server answers, or the timeout of the future ends the wait.
McAnswered ==
  /\ mcTurn.at = "attempt"
  /\ mcTurn' = McIdle
  /\ UNCHANGED <<mcClient, mcServers, mcAgent, mcStop>>

\* A closed stream, or a closed loop: restart, and one more try. The fields are
\* blank again, _closed with them, whoever set it.
McRestart ==
  /\ mcTurn.op = "call" /\ mcTurn.at = "attempt" /\ mcTurn.try = 1
  /\ mcClient[mcTurn.c].loop \notin mcUp
  /\ mcAsked' = mcAsked \cup Asks(mcTurn.c)
  /\ Starting(mcTurn.c, [mcTurn EXCEPT !.try = 2], Blank)
  /\ UNCHANGED <<mcUp, mcAgent, mcStop, mcDeaths>>

----------------------------------------------------------------------------
\* Agent.stop, on the main thread, while a turn may be in a call.
McStopAgent ==
  /\ mcStop = "no" /\ mcStop' = "closed"
  /\ mcAsked' = mcAsked \cup UNION {Asks(c) : c \in mcList}
  /\ mcClient' = [c \in Clients |-> IF c \in mcList THEN [mcClient[c] EXCEPT !.closed = TRUE]
                                    ELSE mcClient[c]]
  /\ UNCHANGED <<mcLoop, mcOwner, mcUp, mcAgent, mcTurn, mcDeaths>>

McTurnStep ==
  \/ McStarted \/ McAppend \/ McListStarts \/ McListed \/ McConnectFails
  \/ McSends \/ McAnswered \/ McRestart
McNext ==
  \/ McTurnStep \/ McLoad \/ McRetry \/ McCall \/ McStopAgent
  \/ \E l \in Loops : McOpens(l) \/ McConnects(l) \/ McFails(l) \/ McLoopStops(l) \/ McServerDies(l)
McSpec == McInit /\ [][McNext]_mcVars

\* The turn thread goes on: every wait of it has a timeout.
McFairness == WF_mcVars(McTurnStep)

----------------------------------------------------------------------------
McTypeOK ==
  /\ mcClient \in [Clients -> [session : 0..McLoops, loop : 0..McLoops, ready : BOOLEAN,
                               error : BOOLEAN, closed : BOOLEAN]]
  /\ mcLoop \in [Loops -> {"none", "connecting", "initializing", "forever", "over"}]
  /\ mcOwner \in [Loops -> 0..McClients] /\ {mcAsked, mcUp} \subseteq SUBSET Loops
  /\ mcList \subseteq Clients /\ {mcSpec, mcTool} \subseteq 0..McClients
  /\ mcTold \in {"nothing", "healthy", "recovered", "still_failed"}
  /\ mcTurn.op \in {"none", "connect", "call"} /\ mcTurn.try \in 0..2
  /\ mcTurn.at \in {"idle", "waiting", "started", "listing", "failed", "attempt"}
  /\ mcStop \in {"no", "closed"} /\ mcDeaths \in 0..McDeaths

\* A call of a tool ends whatever becomes of the server, the loop and the agent
\* (call_tool, start).
CallReturns == mcTurn.at # "idle" ~> mcTurn.at = "idle"

\* "it returns False when the background loop has exited (which happens when the
\* stdio transport closes due to subprocess death)" (agent.py:623): a server that
\* the refresh calls healthy is there.
HealthyIsUp ==
  [][mcTold # "healthy" /\ mcTold' = "healthy" => mcClient[mcSpec].session \in mcUp]_mcVars
=============================================================================
