------------------------------ MODULE MCChannels ------------------------------
(***************************************************************************)
(* How messages reach an agent: the MCP bridges with the file inbox, and   *)
(* mail.  They share no variable, so `part` picks the one that moves and   *)
(* the other stays in an initial state: TLC explores their sum, not their  *)
(* product.  Mail moves in two parts, the letters of agents and the mail a *)
(* person writes; each part has a guard that takes steps away.             *)
(***************************************************************************)
EXTENDS ChatBridge, Mail

CONSTANTS Parts, agentA, agentB

VARIABLE part

AddressSets == {{agentA, Nobody}, {agentB}}

vars == <<part, chVars, mlVars>>

Init == /\ part \in Parts /\ ChInit /\ MlInit
        /\ part # "bridge" => brKind = "imap" /\ ibBad = {}

Bridge(A) == part = "bridge" /\ A /\ UNCHANGED <<part, mlVars>>
Letter(A) == part = "letters" /\ A /\ UNCHANGED <<part, chVars, mlPseudo>>
Claim(A)  == part = "claims" /\ A /\ UNCHANGED <<part, chVars, mlSent>>
Post(A)   == Letter(A) \/ Claim(A)
Next == Bridge(ChNext) \/ Post(MlNext)

\* The fairness of the two modules.  As one part moves, WF of a disjunction
\* over the parts is the conjunction of the WF of each.
Fairness ==
  /\ WF_vars(Bridge(BrServer) \/ Post(MlPoller(agentA)))
  /\ WF_vars(Bridge(IbSweep /\ UNCHANGED brVars) \/ Post(MlPoller(agentB)))
  /\ \A x \in Agents : WF_vars(Post(MlTool(x))) /\ WF_vars(Post(MlBoot(x)))
  /\ \A m \in Letters : WF_vars(Post(MlMailman(m)))

Spec == Init /\ [][Next]_vars /\ Fairness

\* Every value is of the type its module gives it.
TypeOK == ChTypeOK /\ MlTypeOK
=============================================================================
