------------------------------- MODULE Avatars -------------------------------
(***************************************************************************)
(* Avatars (lingtai/core/avatar/__init__.py): an agent makes a directory   *)
(* beside its own, launches a detached process there, waits for its        *)
(* heartbeat, and records it in its ledger.  Rules set at the top travel   *)
(* down the ledgers as .rules files, which each agent's heartbeat thread   *)
(* consumes (base_agent/lifecycle.py).  Every agent is a process of its    *)
(* own and the files are all they share.                                   *)
(***************************************************************************)
EXTENDS Naturals, FiniteSets

CONSTANTS
  AvAgents, \* directories: 1 is the one at the top, the others are names an avatar can get
  AvRules,  \* bound: rules set at the top, numbered from 1
  AvFaults  \* bound: launches that die, crashes, and writes that fail

ASSUME AvatarAssumption ==
  AvAgents \subseteq Nat /\ 1 \in AvAgents /\ AvRules \in Nat /\ AvFaults \in Nat

VARIABLES
  avDir,     \* directories there are
  avUp,      \* agents that run
  avHeart,   \* directories with a heartbeat file
  avProc,    \* avProc[p][c]: the process p launched in c
  avLedger,  \* avLedger[p]: [child, boot] records
  avRules,   \* system/rules.md and the section; 0 is none
  avSignal,  \* the .rules file
  avBeat,    \* the heartbeat thread between reading .rules and being done with it
  avCall,    \* the avatar call an agent is in
  avSet,     \* rules set so far
  avCrossed, \* two writers of rules crossed, or a fault hit one
  avFaults

avVars == <<avDir, avUp, avHeart, avProc, avLedger, avRules, avSignal, avBeat, avCall,
            avSet, avCrossed, avFaults>>
avLife == <<avDir, avUp, avHeart, avProc>>
avFiles == <<avRules, avSignal>>

Top == 1
NoAvatarCall == [at |-> "idle", child |-> 0, rules |-> 0, todo |-> {}]
BeatIdle == [at |-> "idle", rules |-> 0]

AvInit ==
  /\ avDir = {Top} /\ avUp = {Top} /\ avHeart = {Top}
  /\ avProc = [p \in AvAgents |-> [c \in AvAgents |-> "none"]]
  /\ avLedger = [a \in AvAgents |-> {}]
  /\ avRules = [a \in AvAgents |-> 0] /\ avSignal = [a \in AvAgents |-> 0]
  /\ avBeat = [a \in AvAgents |-> BeatIdle]
  /\ avCall = [a \in AvAgents |-> NoAvatarCall]
  /\ avSet = 0 /\ avCrossed = FALSE /\ avFaults = 0

Trip == avFaults < AvFaults /\ avFaults' = avFaults + 1
At(p, at) == p \in avUp /\ avCall[p].at = at
Goes(p, call) == avCall' = [avCall EXCEPT ![p] = call]

-----------------------------------------------------------------------------
(* spawn *)

\* The name is free: no directory has it
AvSpawn(p, c) ==
  /\ At(p, "idle") /\ c \notin avDir
  /\ Goes(p, [NoAvatarCall EXCEPT !.at = "make", !.child = c])
  /\ UNCHANGED <<avLife, avLedger, avFiles, avBeat, avSet, avCrossed, avFaults>>

\* Mutation of Inherited: the whole directory is copied
InheritedAll(p, deep) == [rules |-> IF deep THEN avRules[p] ELSE 0, heart |-> deep]

\* A deep avatar gets a copy of system/, not of the ledger or the heartbeat
Inherited(p, deep) == [rules |-> IF deep THEN avRules[p] ELSE 0, heart |-> FALSE]

\* The directory may have been made by another agent since; it is used all the same
AvMake(p) ==
  /\ At(p, "make")
  /\ LET c == avCall[p].child
     IN /\ \E deep \in BOOLEAN :
             LET new == Inherited(p, deep)
             IN /\ avRules' = [avRules EXCEPT ![c] = IF deep THEN new.rules ELSE @]
                /\ avHeart' = IF new.heart THEN avHeart \cup {c} ELSE avHeart
                /\ avCrossed' = (avCrossed \/ c \in avDir)
        /\ avDir' = avDir \cup {c}
        /\ avProc' = [avProc EXCEPT ![p][c] = "booting"]
        /\ Goes(p, [avCall[p] EXCEPT !.at = "wait"])
  /\ UNCHANGED <<avUp, avLedger, avSignal, avBeat, avSet, avFaults>>

\* The first process to take the directory's lock runs, the next one exits
AvBoots(p, c) ==
  /\ avProc[p][c] = "booting"
  /\ IF c \in avUp
     THEN avProc' = [avProc EXCEPT ![p][c] = "exited"] /\ UNCHANGED <<avUp, avHeart>>
     ELSE /\ avProc' = [avProc EXCEPT ![p][c] = "up"]
          /\ avUp' = avUp \cup {c} /\ avHeart' = avHeart \cup {c}
  /\ UNCHANGED <<avDir, avLedger, avFiles, avBeat, avCall, avSet, avCrossed, avFaults>>

AvDies(p, c) ==
  /\ avProc[p][c] = "booting" /\ Trip
  /\ avProc' = [avProc EXCEPT ![p][c] = "exited"]
  /\ UNCHANGED <<avDir, avUp, avHeart, avLedger, avFiles, avBeat, avCall, avSet, avCrossed>>

\* What the wait comes to: the heartbeat file is looked for first
Booted(p, c) ==
  IF c \in avHeart THEN "ok" ELSE IF avProc[p][c] = "exited" THEN "failed" ELSE "slow"

\* The boot goes on the ledger whatever it came to; rules follow unless it failed
AvWaited(p) ==
  /\ At(p, "wait")
  /\ LET c == avCall[p].child
         boot == Booted(p, c)
     IN /\ avLedger' = [avLedger EXCEPT ![p] = @ \cup {[child |-> c, boot |-> boot]}]
        /\ Goes(p, IF boot = "failed" THEN NoAvatarCall ELSE [avCall[p] EXCEPT !.at = "read"])
  /\ UNCHANGED <<avLife, avFiles, avBeat, avSet, avCrossed, avFaults>>

\* Someone else is handing out rules, or this agent has newer ones waiting for its heartbeat
Crossing(p) ==
  \/ avSignal[p] # 0 \/ avBeat[p] # BeatIdle
  \/ \E q \in AvAgents \ {p} : avCall[q].at \in {"read", "walk", "write"}

\* The newborn's rules are this agent's rules.md
AvReadsRules(p) ==
  /\ At(p, "read")
  /\ Goes(p, IF avRules[p] = 0 THEN NoAvatarCall
             ELSE [avCall[p] EXCEPT !.at = "walk", !.rules = avRules[p]])
  /\ avCrossed' = (avCrossed \/ Crossing(p))
  /\ UNCHANGED <<avLife, avLedger, avFiles, avBeat, avSet, avFaults>>

-----------------------------------------------------------------------------
(* rules: an avatar is made without the privilege to set them *)

AvSetRules(p) ==
  /\ At(p, "idle") /\ p = Top /\ avSet < AvRules
  /\ avSet' = avSet + 1
  /\ avSignal' = [avSignal EXCEPT ![p] = avSet + 1]
  /\ Goes(p, [NoAvatarCall EXCEPT !.at = "walk", !.rules = avSet + 1])
  /\ avCrossed' = (avCrossed \/ avBeat[p].at = "read" \/ \E q \in AvAgents : avCall[q].at # "idle")
  /\ UNCHANGED <<avLife, avLedger, avRules, avBeat, avFaults>>

AvSetFails(p) ==
  /\ At(p, "idle") /\ p = Top /\ avSet < AvRules /\ Trip
  /\ UNCHANGED <<avLife, avLedger, avFiles, avBeat, avCall, avSet, avCrossed>>

\* Mutation of Children: only those whose boot was seen
ChildrenSeen(p) == {r.child : r \in {s \in avLedger[p] : s.boot = "ok"}} \cap avDir

\* The ledgers are followed as far as there are directories
Children(p) == {r.child : r \in avLedger[p]} \cap avDir

\* The least set that has the root and, of each it has, the children
Reach(root) ==
  {a \in AvAgents : \A s \in SUBSET AvAgents :
     root \in s /\ (\A b \in s : Children(b) \subseteq s) => a \in s}

Below(root) == Reach(root) \ {root}

AvWalk(p) ==
  /\ At(p, "walk")
  /\ Goes(p, IF Below(p) = {} THEN NoAvatarCall
             ELSE [avCall[p] EXCEPT !.at = "write", !.todo = Below(p)])
  /\ UNCHANGED <<avLife, avLedger, avFiles, avBeat, avSet, avCrossed, avFaults>>

RulesWritten(p, a) ==
  Goes(p, IF avCall[p].todo = {a} THEN NoAvatarCall ELSE [avCall[p] EXCEPT !.todo = @ \ {a}])

AvWrites(p, a) ==
  /\ At(p, "write") /\ a \in avCall[p].todo
  /\ avSignal' = [avSignal EXCEPT ![a] = avCall[p].rules]
  /\ avCrossed' = (avCrossed \/ avBeat[a].at = "read")
  /\ RulesWritten(p, a)
  /\ UNCHANGED <<avLife, avLedger, avRules, avBeat, avSet, avFaults>>

\* A write that fails is passed over in silence
AvWriteFails(p, a) ==
  /\ At(p, "write") /\ a \in avCall[p].todo /\ Trip
  /\ avCrossed' = TRUE
  /\ RulesWritten(p, a)
  /\ UNCHANGED <<avLife, avLedger, avFiles, avBeat, avSet>>

-----------------------------------------------------------------------------
(* The heartbeat thread: read, unlink, and write what is new *)

AvBeatReads(a) ==
  /\ a \in avUp /\ avBeat[a] = BeatIdle /\ avSignal[a] # 0
  /\ avBeat' = [avBeat EXCEPT ![a] = [at |-> "read", rules |-> avSignal[a]]]
  /\ UNCHANGED <<avLife, avLedger, avFiles, avCall, avSet, avCrossed, avFaults>>

\* Whatever .rules holds by now goes
AvBeatUnlinks(a) ==
  /\ a \in avUp /\ avBeat[a].at = "read"
  /\ avSignal' = [avSignal EXCEPT ![a] = 0]
  /\ avBeat' = [avBeat EXCEPT ![a].at = "unlinked"]
  /\ UNCHANGED <<avLife, avLedger, avRules, avCall, avSet, avCrossed, avFaults>>

AvBeatKeeps(a) ==
  /\ a \in avUp /\ avBeat[a].at = "unlinked"
  /\ avRules' = [avRules EXCEPT ![a] = avBeat[a].rules]
  /\ avBeat' = [avBeat EXCEPT ![a] = BeatIdle]
  /\ UNCHANGED <<avLife, avLedger, avSignal, avCall, avSet, avCrossed, avFaults>>

\* rules.md could not be written: the signal is gone
AvBeatFails(a) ==
  /\ a \in avUp /\ avBeat[a].at = "unlinked" /\ Trip
  /\ avBeat' = [avBeat EXCEPT ![a] = BeatIdle]
  /\ avCrossed' = TRUE
  /\ UNCHANGED <<avLife, avLedger, avFiles, avCall, avSet>>

-----------------------------------------------------------------------------
(* A process dies, and is launched again some time *)

AvCrash(a) ==
  /\ a \in avUp /\ Trip
  /\ avUp' = avUp \ {a}
  /\ avCrossed' = (avCrossed \/ avCall[a].at # "idle" \/ avBeat[a].at # "idle")
  /\ avCall' = [avCall EXCEPT ![a] = NoAvatarCall]
  /\ avBeat' = [avBeat EXCEPT ![a] = BeatIdle]
  /\ UNCHANGED <<avDir, avHeart, avProc, avLedger, avFiles, avSet>>

AvRelaunch(a) ==
  /\ a \in avDir \ avUp /\ a \in avHeart
  /\ avUp' = avUp \cup {a}
  /\ UNCHANGED <<avDir, avHeart, avProc, avLedger, avFiles, avBeat, avCall, avSet,
                 avCrossed, avFaults>>

AvNext ==
  \E a \in AvAgents :
    \/ AvMake(a) \/ AvWaited(a) \/ AvReadsRules(a) \/ AvSetRules(a) \/ AvSetFails(a) \/ AvWalk(a)
    \/ AvBeatReads(a) \/ AvBeatUnlinks(a) \/ AvBeatKeeps(a) \/ AvBeatFails(a)
    \/ AvCrash(a) \/ AvRelaunch(a)
    \/ \E b \in AvAgents :
         AvSpawn(a, b) \/ AvBoots(a, b) \/ AvDies(a, b) \/ AvWrites(a, b) \/ AvWriteFails(a, b)

AvSpec == AvInit /\ [][AvNext]_avVars

-----------------------------------------------------------------------------
AvTypeOK ==
  /\ avDir \subseteq AvAgents /\ avUp \subseteq avDir /\ avHeart \subseteq avDir
  /\ avProc \in [AvAgents -> [AvAgents -> {"none", "booting", "up", "exited"}]]
  /\ avLedger \in [AvAgents -> SUBSET [child : AvAgents, boot : {"ok", "failed", "slow"}]]
  /\ avRules \in [AvAgents -> 0..AvRules] /\ avSignal \in [AvAgents -> 0..AvRules]
  /\ avBeat \in [AvAgents -> [at : {"idle", "read", "unlinked"}, rules : 0..AvRules]]
  /\ avCall \in [AvAgents -> [at : {"idle", "make", "wait", "read", "walk", "write"},
                              child : AvAgents \cup {0}, rules : 0..AvRules, todo : SUBSET AvAgents]]
  /\ avSet \in 0..AvRules /\ avCrossed \in BOOLEAN /\ avFaults \in 0..AvFaults

\* An avatar whose spawn was answered with success came up: a process that died before its first
\* heartbeat is never reported as running, in whatever order it dies and the parent looks.
BootIsTrue ==
  \A p \in AvAgents : \A r \in avLedger[p] :
    r.boot = "ok" => \E q \in AvAgents : avProc[q][r.child] = "up"

Resting ==
  /\ \A a \in AvAgents : avCall[a].at = "idle" /\ avBeat[a] = BeatIdle
  /\ \A a \in avUp : avSignal[a] = 0

\* Once every call and every heartbeat is through, every agent that runs has the rules set last,
\* those that boot slowly and those born meanwhile too, as long as nobody handed out rules across
\* another's call and no write failed.
RulesReach ==
  Resting /\ ~avCrossed => \A a \in avUp : avRules[a] = avSet
=============================================================================
