----------------------------- MODULE MCProcesses -----------------------------
(***************************************************************************)
(* What runs beside the run loop: the daemon runs, the process that        *)
(* follows this one in the directory, the servers of MCP tools and the     *)
(* threads of a batch of tools.  They share no variable, so `part` picks   *)
(* the one that moves and the others stay in an initial state: TLC         *)
(* explores their sum, not their product.                                  *)
(***************************************************************************)
EXTENDS DaemonManager, Relaunch, McpClient, ToolBatch

CONSTANT Parts

VARIABLE part

vars == <<part, dmVars, rlVars, mcVars, tbVars>>

\* The batches a daemon part emanates in turn, with the tasks of each; whether
\* the agent follows up; how often the process restarts.
B(backend, n) == [backend |-> backend, tasks |-> n]
Plan ==
  [pair       |-> [batches |-> <<B("claude-p", 2)>>, asks |-> FALSE, restarts |-> 0],
   threads    |-> [batches |-> <<B("lingtai", 2)>>, asks |-> FALSE, restarts |-> 0],
   tracked    |-> [batches |-> <<B("claude-p", 1), B("claude-p", 1)>>, asks |-> FALSE,
                   restarts |-> 0],
   legacy     |-> [batches |-> <<B("claude", 2)>>, asks |-> FALSE,
                   restarts |-> 0],
   followed   |-> [batches |-> <<B("claude-p", 1)>>, asks |-> TRUE, restarts |-> 1],
   buffered   |-> [batches |-> <<B("lingtai", 1)>>, asks |-> TRUE, restarts |-> 1],
   cursor     |-> [batches |-> <<B("cursor", 1)>>, asks |-> TRUE, restarts |-> 1]]
Plans    == DOMAIN Plan
Launches == {"refresh", "rebuild"}

Init ==
  /\ part \in Parts /\ DmInit /\ McInit
  /\ RlInit /\ rlAt[1] = "running"
  /\ TbInit /\ (part # "tools" => tbParallel /\ \A c \in TbCalls : tbCalls[c] = "small")

Planned ==
  /\ Len(dmBatch') > Len(dmBatch) =>
       /\ Len(dmBatch') <= Len(Plan[part].batches)
       /\ LET b == dmBatch'[Len(dmBatch')]
          IN B(b.backend, b.left) = Plan[part].batches[Len(dmBatch')]
  /\ dmRestarts' <= Plan[part].restarts
  /\ (~Plan[part].asks => ~\E h \in Handles : DmAskCall(h))

\* A launch that does not see the duplicate and a rebuild of the index each
\* come alone: both at once only multiply the states.
Rebuilds == \E p \in RlRebuilds : rlAt[p] = "none" /\ rlAt'[p] # "none"

Daemons(A) == part \in Plans /\ A /\ UNCHANGED <<part, rlVars, mcVars, tbVars>>
Launch(A)  == part \in Launches /\ A /\ UNCHANGED <<part, dmVars, mcVars, tbVars>>
Mcp(A)     == part = "mcp" /\ A /\ UNCHANGED <<part, dmVars, rlVars, tbVars>>
Tools(A)   == part = "tools" /\ A /\ UNCHANGED <<part, dmVars, rlVars, mcVars>>

Next ==
  \/ Daemons(DmNext /\ Planned)
  \/ Launch(RlNext /\ (part = "refresh" => ~Rebuilds) /\ (part = "rebuild" => ~RlBlind))
  \/ Mcp(McNext)
  \/ Tools(TbNext)

\* The fairness of the modules.  As one part moves, WF of a disjunction over
\* the parts is the conjunction of the WF of each.
Fairness ==
  /\ WF_vars(Daemons(DmCallSteps) \/ Launch(RlWatches) \/ Mcp(McTurnStep) \/ Tools(TbCaller))
  /\ WF_vars(Daemons(1 \in Runs /\ DmWork(1)) \/ Launch(RlProceeds(1)))
  /\ WF_vars(Daemons(2 \in Runs /\ DmWork(2)) \/ Launch(RlProceeds(2)))
  /\ WF_vars(Daemons(1 \in Batches /\ DmWatch(1)) \/ Launch(RlProceeds(3)))
  /\ WF_vars(Daemons(2 \in Batches /\ DmWatch(2)) \/ Launch(RlProceeds(4)))
  /\ WF_vars(Launch(RlAge /\ UNCHANGED rlFaults))

Spec == Init /\ [][Next]_vars /\ Fairness

-----------------------------------------------------------------------------
(* Properties *)

\* Every value is of the type its module gives it.
TypeOK == DmTypeOK /\ RlTypeOK /\ McTypeOK /\ TbTypeOK

\* What was begun ends: a daemon run, a call of a server's tool, a parallel
\* batch of tools (_watchdog, call_tool, _execute_parallel).
AllEnd == RunEnds /\ CallReturns /\ BatchReturns
=============================================================================
