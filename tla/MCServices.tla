------------------------------ MODULE MCServices ------------------------------
(***************************************************************************)
(* The notification store and the jobs of the bash capability.  They share *)
(* no variable, so `part` picks the one that moves and the other stays in  *)
(* an initial state: TLC explores their sum, not their product.            *)
(***************************************************************************)
EXTENDS NotificationStore, BashJobs

CONSTANT Parts

VARIABLE part

vars == <<part, stVars, bjVars>>

Init == /\ part \in Parts /\ StInit /\ BjInit
        /\ part = "bash" => stGoal = "none"

Store(A) == part = "store" /\ A /\ UNCHANGED <<part, bjVars>>
Bash(A)  == part = "bash"  /\ A /\ UNCHANGED <<part, stVars>>
Next == Store(StNext) \/ Bash(BjNext)

\* The fairness of the two modules.  As one part moves, WF of a disjunction
\* over the parts is the conjunction of the WF of each.
Fairness ==
  /\ SF_vars(Store(StGoalCheck) \/ Bash(BjPoll("j1")))
  /\ SF_vars(Store(StLockStep)  \/ Bash(BjPoll("j2")))
  /\ WF_vars(Store(StOwnerStep) \/ Bash(BjWatch("j1")))
  /\ WF_vars(Store(StGoalScan \/ StSyncCommit) \/ Bash(BjWatch("j2")))
  /\ WF_vars(Bash(BjCancelled("j1"))) /\ WF_vars(Bash(BjCancelled("j2")))

Spec == Init /\ [][Next]_vars /\ Fairness

\* Every value is of the type its module gives it.
TypeOK == StTypeOK /\ BjTypeOK
=============================================================================
