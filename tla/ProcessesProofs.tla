-------------------------- MODULE ProcessesProofs --------------------------
(***************************************************************************)
(* Theorems about the parts that the run `processes` checks.               *)
(* ToolBatch, for a batch of any size: its types, and that a result is     *)
(* reduced for the model only when it is in the log as it was.  Relaunch,  *)
(* for any number of processes, tries and (but where said) faults: its     *)
(* types, and that no two agents work in one directory.  DaemonManager,    *)
(* for any backends, numbers of runs, batches and tasks, and any restarts: *)
(* its types, that every end is announced, and announced as what it was.   *)
(* McpClient, for any clients, loops and deaths: its types.                *)
(***************************************************************************)
EXTENDS MCProcesses, FiniteSetTheorems, WellFoundedInduction, TLAPS

-----------------------------------------------------------------------------
(* ToolBatch                                                               *)

\* What the types and RawPreserved need to be inductive: a raw result in the log
\* or in the map of a pool is of a tool that is over, so that no thread writes
\* over it; before anything is shown nothing is reduced; the history is written
\* last.
TbInv ==
  /\ TbTypeOK
  /\ RawPreserved
  /\ \A c \in TbCalls : tbLog[c] = "raw" => tbWork[c] = "over"
  /\ \A c \in TbCalls : tbMap[c] = "raw" => tbLog[c] = "raw"
  /\ tbPhase \in {"collect", "show"} => tbParallel
  /\ (~tbParallel \/ tbPhase = "start") => \A c \in TbCalls : tbMap[c] = "none"
  /\ tbPhase \in {"start", "collect"} =>
       \A c \in TbCalls : tbShown[c] \notin {"short", "spilled"}
  /\ tbPhase # "healed" => \A c \in TbCalls : tbHistory[c] = "none"

\* The reduced forms: what they are, and what they are made of.
LEMMA ReducedForms ==
  ASSUME NEW c, NEW answer \in Events
  PROVE  /\ Spilled(c, answer) \in Answers /\ Visible(c, answer) \in Answers
         /\ Spilled(c, answer) \in {"short", "spilled"} => answer = "raw"
         /\ Visible(c, answer) \in {"short", "spilled"} => answer = "raw"
BY DEF Spilled, Visible, Summarized, Events, Answers

LEMMA TbInitInv == TbInit => TbInv
BY DEF TbInit, TbInv, TbTypeOK, RawPreserved, Events, Answers

\* The steps of the sequential loop.
LEMMA TbSequenceInv ==
  ASSUME TbInv,
         TbCancelled \/ TbSequenceOver
           \/ \E c \in TbCalls : TbRefuse(c) \/ TbDispatch(c) \/ TbEnds(c)
  PROVE  TbInv'
<1> USE DEF TbInv, TbTypeOK, RawPreserved
<1>1. CASE TbCancelled
  BY <1>1 DEF TbCancelled, TbReturn, Answers, Events
<1>2. CASE TbSequenceOver
  BY <1>2 DEF TbSequenceOver, TbReturn
<1>3. ASSUME NEW c \in TbCalls, TbRefuse(c) PROVE TbInv'
  BY <1>3 DEF TbRefuse, NextCall, Turns, Answers, Events
<1>4. ASSUME NEW c \in TbCalls, TbDispatch(c) PROVE TbInv'
  BY <1>4 DEF TbDispatch, NextCall, Turns
<1>5. ASSUME NEW c \in TbCalls, TbEnds(c) PROVE TbInv'
  <2>1. PICK outcome \in {"raw", "error"}, intercept \in {"none", "result", "hook"} :
          /\ ToolEnds(c, outcome)
          /\ tbShown' = [tbShown EXCEPT ![c] = IF intercept = "result" THEN Spilled(c, outcome)
                                               ELSE Visible(c, outcome)]
          /\ tbPhase' \in {"between", "returned"} /\ tbOut' \in {tbOut, "intercepted"}
    BY <1>5 DEF TbEnds, TbReturn
  <2>2. outcome \in Events
    BY DEF Events
  <2>3. /\ tbShown'[c] \in Answers
        /\ tbShown'[c] \in {"short", "spilled"} => outcome = "raw"
        /\ \A d \in TbCalls \ {c} : tbShown'[d] = tbShown[d]
        /\ tbShown' \in [TbCalls -> Answers]
    BY <2>1, <2>2, ReducedForms
  <2>4. UNCHANGED <<tbCalls, tbParallel, tbMap, tbCancel, tbHistory>> /\ tbPhase = "tool"
    BY <1>5 DEF TbEnds
  <2> QED BY <2>1, <2>2, <2>3, <2>4 DEF ToolEnds, Logged
<1> QED BY <1>1, <1>2, <1>3, <1>4, <1>5

\* The steps of the pool, its threads and its deadline.
LEMMA TbParallelInv ==
  ASSUME TbInv,
         TbSubmit \/ TbDeadline \/ TbShow
           \/ \E c \in TbCalls : TbCollect(c) \/ TbThreadEnds(c)
  PROVE  TbInv'
<1> USE DEF TbInv, TbTypeOK, RawPreserved
<1>1. CASE TbSubmit
  BY <1>1 DEF TbSubmit, TbReturn, Answers, Events
<1>2. CASE TbDeadline
  BY <1>2 DEF TbDeadline, Uncollected, Events
<1>3. CASE TbShow
  <2>1. PICK stop \in {c \in TbCalls : tbMap[c] \notin {"none", "timeout"}} \cup {0},
             raw \in BOOLEAN :
          /\ tbShown' = [c \in TbCalls |->
               IF Refused(c) \/ (stop # 0 /\ c > stop) THEN tbShown[c]
               ELSE IF c = stop /\ raw THEN Spilled(c, tbMap[c])
               ELSE Visible(c, tbMap[c])]
          /\ TbReturn(IF stop = 0 THEN "results" ELSE "intercepted")
    BY <1>3 DEF TbShow
  <2>2. ASSUME NEW c \in TbCalls
        PROVE  /\ tbShown'[c] \in Answers
               /\ tbShown'[c] \in {"short", "spilled"} => tbLog[c] = "raw"
    BY <2>1, <2>2, ReducedForms
  <2>3. tbShown' \in [TbCalls -> Answers]
    BY <2>1, <2>2
  <2> QED BY <1>3, <2>1, <2>2, <2>3 DEF TbShow, TbReturn
<1>4. ASSUME NEW c \in TbCalls, TbCollect(c) PROVE TbInv'
  BY <1>4 DEF TbCollect, Uncollected, TbReturn, Answers, Events
<1>5. ASSUME NEW c \in TbCalls, TbThreadEnds(c) PROVE TbInv'
  BY <1>5 DEF TbThreadEnds, ToolEnds, Logged, Events
<1> QED BY <1>1, <1>2, <1>3, <1>4, <1>5

\* The heal, and the cancel event.
LEMMA TbRestInv ==
  ASSUME TbInv, TbHeal \/ TbCancelSet
  PROVE  TbInv'
<1> USE DEF TbInv, TbTypeOK, RawPreserved
<1>1. CASE TbHeal
  <2>1. ASSUME NEW c \in TbCalls
        PROVE  /\ Recovered(c) \in Answers
               /\ Recovered(c) \in {"short", "spilled"} => tbLog[c] = "raw"
    BY <2>1, ReducedForms DEF Recovered, Answers
  <2> QED BY <1>1, <2>1 DEF TbHeal
<1>2. CASE TbCancelSet
  BY <1>2 DEF TbCancelSet
<1> QED BY <1>1, <1>2

LEMMA TbNextInv == TbInv /\ [TbNext]_tbVars => TbInv'
<1> SUFFICES ASSUME TbInv, [TbNext]_tbVars PROVE TbInv'
  OBVIOUS
<1>1. CASE UNCHANGED tbVars
  BY <1>1 DEF tbVars, TbInv, TbTypeOK, RawPreserved
<1>2. CASE TbNext
  BY <1>2, TbSequenceInv, TbParallelInv, TbRestInv DEF TbNext, TbCaller, TbTools
<1> QED BY <1>1, <1>2

LEMMA TbSpecInv == TbSpec => []TbInv
BY TbInitInv, TbNextInv, PTL DEF TbSpec

\* Every value of a batch is of its type, for any number of calls.
THEOREM BatchTyped == TbSpec => []TbTypeOK
<1>1. TbInv => TbTypeOK
  BY DEF TbInv
<1> QED BY <1>1, TbSpecInv, PTL

\* The model sees the reduced form of a result, at once or through the heal, only
\* when the log has the result as it was, whatever the deadline, the cancel event
\* and the threads that go on do (execute, recover_tool_result_block_from_events).
THEOREM BatchPreservesRaw == TbSpec => []RawPreserved
<1>1. TbInv => RawPreserved
  BY DEF TbInv
<1> QED BY <1>1, TbSpecInv, PTL

-----------------------------------------------------------------------------
(* Relaunch                                                                *)

HasLock == {"locked", "running", "stopping", "quiet"}

\* A process has a file open from its open() to the end of its lock, and holds
\* that file's flock once it says so.
Held ==
  \A p \in RlProcs :
    /\ rlAt[p] \in HasLock => rlFd[p] # 0 /\ rlLock[rlFd[p]] = p
    /\ rlAt[p] = "opened" => rlFd[p] # 0
    /\ rlAt[p] \notin HasLock \cup {"opened"} => rlFd[p] = 0

\* A process is left for each try of the watcher.
Reserve == Cardinality(Unused(Agents)) >= RlTries - rlTry

RlInv == RlTypeOK /\ Held /\ Reserve

-----------------------------------------------------------------------------
(* Choices the actions make *)

Below == {ss \in Nat \X Nat : ss[1] < ss[2]}

\* A set of numbers that is not empty has a least one.
LEMMA Least ==
  ASSUME NEW T \in SUBSET Nat, T # {}
  PROVE  \E x \in T : \A y \in T : x <= y
<1>1. IsWellFoundedOn(Below, Nat)
  BY NatLessThanWellFounded DEF Below, OpToRel
<1>2. PICK x \in T : \A y \in T : ~(<<y, x>> \in Below)
  BY <1>1, WFMin
<1>3. ASSUME NEW y \in T PROVE x <= y
  <2>1. x \in Nat /\ y \in Nat
    OBVIOUS
  <2>2. <<y, x>> \notin Below
    BY <1>2
  <2>3. ~(y < x)
    BY <2>1, <2>2 DEF Below
  <2> QED BY <2>1, <2>3
<1> QED BY <1>3

\* The process that is launched next is one that was not used.
LEMMA Next1Unused ==
  ASSUME NEW kind \in SUBSET RlProcs, Unused(kind) # {}
  PROVE  Next1(kind) \in Unused(kind)
<1>1. Unused(kind) \in SUBSET Nat
  BY RelaunchAssumption DEF Unused
<1>2. \E p \in Unused(kind) : \A q \in Unused(kind) : p <= q
  BY <1>1, Least
<1> QED BY <1>2 DEF Next1

LEMMA AgentsAreProcs == Agents \in SUBSET RlProcs /\ IsFiniteSet(Agents)
BY RelaunchAssumption, FS_Subset DEF Agents

LEMMA InodesAre == Cardinality(RlProcs) \in Nat /\ Inodes \subseteq Nat \ {0} /\ 1 \in Inodes
<1>1. Cardinality(RlProcs) \in Nat
  BY RelaunchAssumption, FS_CardinalityType
<1> QED BY <1>1 DEF Inodes

\* There is an inode that nobody has open.
LEMMA NewInode ==
  ASSUME RlTypeOK, rlPath = 0
  PROVE  \E i \in Inodes : i # rlPath /\ \A q \in RlProcs : rlFd[q] # i
<1> DEFINE Open == {rlFd[q] : q \in RlProcs}
<1>1. IsFiniteSet(Open) /\ Cardinality(Open) <= Cardinality(RlProcs)
  <2>1. rlFd \in Surjection(RlProcs, Open)
    BY DEF RlTypeOK, Surjection
  <2> QED BY <2>1, RelaunchAssumption, FS_Surjection
<1>2. Cardinality(Inodes) = Cardinality(RlProcs) + 1
  BY InodesAre, FS_Interval DEF Inodes
<1>3. Cardinality(Open) \in Nat /\ Cardinality(Inodes) \in Nat /\ Cardinality(RlProcs) \in Nat
  BY <1>1, <1>2, InodesAre, FS_CardinalityType
<1>4. ~(Inodes \subseteq Open)
  <2>1. SUFFICES ASSUME Inodes \in SUBSET Open PROVE FALSE
    OBVIOUS
  <2>2. Cardinality(Inodes) <= Cardinality(Open)
    BY <1>1, <2>1, FS_Subset
  <2> QED BY <1>1, <1>2, <1>3, <2>2
<1>5. PICK i \in Inodes : i \notin Open
  BY <1>4
<1>6. i # 0
  BY InodesAre
<1> QED BY <1>5, <1>6

-----------------------------------------------------------------------------
(* Types, files, reserve *)

\* A process that dies: its types and files are right afterwards.
LEMMA DiesTyped ==
  ASSUME RlTypeOK, Held, NEW p \in RlProcs, Dies(p)
  PROVE  /\ rlAt' = [rlAt EXCEPT ![p] = "gone"]
         /\ rlFd' \in [RlProcs -> Inodes \cup {0}] /\ rlLock' \in [Inodes -> RlProcs \cup {0}]
         /\ rlPath' = rlPath /\ Held'
<1>1. /\ rlAt' = [rlAt EXCEPT ![p] = "gone"] /\ rlPath' = rlPath
      /\ rlFd' \in [RlProcs -> Inodes \cup {0}] /\ rlLock' \in [Inodes -> RlProcs \cup {0}]
  BY DEF Dies, Closed, Go, RlTypeOK
<1>2. Held'
  BY DEF Dies, Closed, Go, RlTypeOK, Held, HasLock
<1> QED BY <1>1, <1>2

\* What is unused stays so, but for the one process that is launched.
LEMMA ReserveKept ==
  ASSUME Reserve, rlTry' = rlTry, Unused(Agents)' = Unused(Agents)
  PROVE  Reserve'
BY DEF Reserve

LEMMA UnusedKept ==
  ASSUME RlTypeOK, NEW p \in RlProcs, NEW at, rlAt[p] # "none", at # "none",
         rlAt' = [rlAt EXCEPT ![p] = at]
  PROVE  Unused(Agents)' = Unused(Agents)
BY DEF RlTypeOK, Unused, Agents

LEMMA UnusedLess ==
  ASSUME RlTypeOK, NEW p \in Unused(Agents), rlAt' = [rlAt EXCEPT ![p] = "checking"]
  PROVE  /\ Cardinality(Unused(Agents)) \in Nat
         /\ Cardinality(Unused(Agents)') = Cardinality(Unused(Agents)) - 1
<1>1. Unused(Agents)' = Unused(Agents) \ {p}
  BY DEF RlTypeOK, Unused, Agents
<1>2. IsFiniteSet(Unused(Agents))
  BY AgentsAreProcs, FS_Subset DEF Unused
<1>3. p \in Unused(Agents)
  OBVIOUS
<1> QED BY <1>1, <1>2, <1>3, FS_RemoveElement, FS_CardinalityType

LEMMA UnusedNumber == Cardinality(Unused(Agents)) \in Nat /\ (Cardinality(Unused(Agents)) > 0 => Unused(Agents) # {})
<1>1. IsFiniteSet(Unused(Agents))
  BY AgentsAreProcs, FS_Subset DEF Unused
<1> QED BY <1>1, FS_CardinalityType, FS_EmptySet

LEMMA InitInv == RlInit => RlInv
<1> SUFFICES ASSUME RlInit PROVE RlInv
  OBVIOUS
<1>1. PICK p \in Agents :
        /\ rlAt = [q \in RlProcs |-> IF q = p THEN "running" ELSE "none"]
        /\ rlFd = [q \in RlProcs |-> IF q = p THEN 1 ELSE 0]
        /\ rlLock = [i \in Inodes |-> IF i = 1 THEN p ELSE 0]
        /\ rlPath = 1 /\ rlBeat = "fresh" /\ rlTaken = FALSE
        /\ rlWatch = "none" /\ rlTry = 0 /\ rlChild = 0 /\ rlDup = 0 /\ rlTarget = 0
        /\ rlOut = "none" /\ rlFaults = 0
  BY DEF RlInit
<1>2. p \in RlProcs /\ p # 0
  BY RelaunchAssumption DEF Agents
<1>3. RlTypeOK
  <2>1. rlAt \in [RlProcs -> {"none", "running"}] /\ rlFd \in [RlProcs -> {0, 1}]
    BY <1>1
  <2>2. rlLock \in [Inodes -> RlProcs \cup {0}]
    BY <1>1, <1>2
  <2>3. rlTry \in 0..RlTries /\ rlFaults \in 0..RlFaults
    BY <1>1, RelaunchAssumption
  <2> QED BY <1>1, <2>1, <2>2, <2>3, InodesAre DEF RlTypeOK
<1>4. Held
  BY <1>1, <1>2, InodesAre DEF Held, HasLock
<1>5. Reserve
  <2>1. Unused(Agents) = Agents \ {p}
    BY <1>1, AgentsAreProcs DEF Unused
  <2>2. Cardinality(Unused(Agents)) = Cardinality(Agents) - 1 /\ Cardinality(Agents) \in Nat
    BY <1>1, <2>1, AgentsAreProcs, FS_RemoveElement, FS_CardinalityType
  <2> QED BY <2>2, RelaunchAssumption DEF RlInit, Reserve
<1> QED BY <1>3, <1>4, <1>5 DEF RlInv

\* A launch takes an agent's process of the reserve only above what it is for.
LEMMA LaunchInv == ASSUME RlInv, RlLaunch PROVE RlInv'
<1>0. RlTypeOK /\ Held /\ Reserve /\ UNCHANGED <<rlFd, rlLock, rlPath, rlTry>>
  BY DEF RlInv, RlLaunch, rlFiles, rlWatcher
<1>1. PICK p \in RlProcs, at \in {"checking", "waiting"} : rlAt[p] = "none" /\ rlAt' = [rlAt EXCEPT ![p] = at]
  <2>1. CASE Cardinality(Unused(Agents)) > RlTries - rlTry /\ Go(Next1(Agents), "checking")
    <3>1. Unused(Agents) # {}
      BY <1>0, <2>1, UnusedNumber, RelaunchAssumption DEF RlTypeOK
    <3> QED BY <2>1, <3>1, AgentsAreProcs, Next1Unused DEF Go, Unused
  <2>2. CASE Unused(RlRebuilds) # {} /\ Go(Next1(RlRebuilds), "waiting")
    BY <2>2, RelaunchAssumption, Next1Unused DEF Go, Unused
  <2> QED BY <2>1, <2>2 DEF RlLaunch
<1>2. RlTypeOK'
  BY <1>0, <1>1 DEF RlLaunch, RlTypeOK, rlFiles, rlWatcher
<1>3. Held'
  BY <1>0, <1>1 DEF RlTypeOK, Held, HasLock
<1>4. Reserve'
  <2>1. CASE Cardinality(Unused(Agents)) > RlTries - rlTry /\ Go(Next1(Agents), "checking")
    <3>1. Unused(Agents) # {}
      BY <1>0, <2>1, UnusedNumber, RelaunchAssumption DEF RlTypeOK
    <3>2. Next1(Agents) \in Unused(Agents) /\ rlAt' = [rlAt EXCEPT ![Next1(Agents)] = "checking"]
      BY <2>1, <3>1, AgentsAreProcs, Next1Unused DEF Go
    <3>3. Cardinality(Unused(Agents)') = Cardinality(Unused(Agents)) - 1 /\ Cardinality(Unused(Agents)) \in Nat
      BY <1>0, <3>2, UnusedLess
    <3>4. rlTry \in Nat /\ RlTries \in Nat
      BY <1>0, RelaunchAssumption DEF RlTypeOK
    <3> QED BY <1>0, <2>1, <3>3, <3>4 DEF Reserve
  <2>2. CASE Unused(RlRebuilds) # {} /\ Go(Next1(RlRebuilds), "waiting")
    <3>1. Next1(RlRebuilds) \in RlRebuilds
      BY <2>2, RelaunchAssumption, Next1Unused DEF Unused
    <3>2. Unused(Agents)' = Unused(Agents)
      BY <1>0, <2>2, <3>1 DEF Go, RlTypeOK, Unused, Agents
    <3> QED BY <1>0, <3>2, ReserveKept
  <2> QED BY <2>1, <2>2 DEF RlLaunch
<1> QED BY <1>2, <1>3, <1>4 DEF RlInv

\* The steps of one process.
LEMMA ProceedsInv ==
  ASSUME RlInv, NEW p \in RlProcs, RlProceeds(p) \/ RlStop(p) \/ RlExit(p) \/ RlCrash(p) \/ RlRefresh(p)
  PROVE  RlInv'
<1>0. RlTypeOK /\ Held /\ Reserve
  BY DEF RlInv
<1>1. rlTry' = rlTry
  BY DEF RlProceeds, RlCheck, RlOpen, RlFlock, RlStart, RlBeat, RlStopHeartbeat, RlUnlock,
     RlUnlink, RlStop, RlExit, RlCrash, RlRefresh, rlWatcher
<1>2. PICK at \in {"waiting", "gone", "opened", "quiet", "locked", "running", "stopping", "unlocked", "lingering"} :
        rlAt[p] # "none" /\ rlAt' = [rlAt EXCEPT ![p] = at]
  BY <1>0 DEF RlProceeds, RlCheck, RlOpen, RlFlock, RlStart, RlBeat, RlStopHeartbeat, RlUnlock,
     RlUnlink, RlStop, RlExit, RlCrash, RlRefresh, Go, Dies, Alive, Beating, RlTypeOK
<1>3. Reserve'
  BY <1>0, <1>1, <1>2, UnusedKept, ReserveKept
<1>4. RlTypeOK' /\ Held'
  <2>1. CASE RlCheck(p)
    <3>1. RlTypeOK'
      BY <1>0, <2>1, RelaunchAssumption DEF RlCheck, RlTypeOK, Go, Duplicates, Agents, rlFiles
    <3>2. Held'
      BY <1>0, <2>1 DEF RlCheck, RlTypeOK, Go, Held, HasLock, rlFiles
    <3> QED BY <3>1, <3>2
  <2>2. CASE RlOpen(p)
    <3> DEFINE new == CHOOSE i \in Inodes : i # rlPath /\ \A q \in RlProcs : rlFd[q] # i
               inode == IF rlPath = 0 THEN new ELSE rlPath
    <3>1. inode \in Inodes
      <4>1. CASE rlPath = 0
        <5>1. \E i \in Inodes : i # rlPath /\ \A q \in RlProcs : rlFd[q] # i
          BY <1>0, <4>1, NewInode
        <5> QED BY <4>1, <5>1
      <4>2. CASE rlPath # 0
        BY <1>0, <4>2 DEF RlTypeOK
      <4> QED BY <4>1, <4>2
    <3>2. /\ rlFd' = [rlFd EXCEPT ![p] = inode] /\ rlPath' = inode
          /\ rlAt' = [rlAt EXCEPT ![p] = "opened"] /\ rlAt[p] = "waiting"
          /\ UNCHANGED <<rlLock, rlBeat, rlTaken, rlWatcher, rlFaults>>
      BY <2>2 DEF RlOpen, Go
    <3> HIDE DEF inode
    <3>3. RlTypeOK'
      BY <1>0, <3>1, <3>2 DEF RlTypeOK, rlWatcher
    <3>4. inode # 0
      BY <3>1, InodesAre
    <3>5. Held'
      BY <1>0, <3>2, <3>4 DEF RlTypeOK, Held, HasLock
    <3> QED BY <3>3, <3>5
  <2>3. CASE RlFlock(p)
    <3>1. rlFd[p] \in Inodes /\ p # 0
      BY <1>0, <2>3, RelaunchAssumption DEF RlFlock, Held, RlTypeOK
    <3>2. RlTypeOK'
      BY <1>0, <2>3, <3>1 DEF RlFlock, RlTypeOK, Go, rlWatcher
    <3>3. Held'
      <4>1. CASE /\ rlLock[rlFd[p]] = 0 /\ rlLock' = [rlLock EXCEPT ![rlFd[p]] = p]
                 /\ Go(p, IF p \in RlRebuilds THEN "quiet" ELSE "locked") /\ UNCHANGED rlFd
        <5>1. \A q \in RlProcs : rlAt[q] \in HasLock => rlFd[q] \in Inodes /\ rlFd[q] # rlFd[p]
          BY <1>0, <4>1, RelaunchAssumption DEF Held, RlTypeOK
        <5> QED BY <1>0, <2>3, <3>1, <4>1, <5>1 DEF RlFlock, RlTypeOK, Go, Held, HasLock
      <4>2. CASE /\ Go(p, "waiting") \/ Go(p, "gone")
                 /\ rlFd' = [rlFd EXCEPT ![p] = 0] /\ UNCHANGED rlLock
        BY <1>0, <2>3, <4>2 DEF RlFlock, RlTypeOK, Go, Held, HasLock
      <4> QED BY <2>3, <4>1, <4>2 DEF RlFlock
    <3> QED BY <3>2, <3>3
  <2>4. CASE RlUnlock(p)
    <3>1. RlTypeOK'
      BY <1>0, <2>4 DEF RlUnlock, Closed, RlTypeOK, Go, rlWatcher
    <3>2. Held'
      BY <1>0, <2>4 DEF RlUnlock, Closed, RlTypeOK, Go, Held, HasLock
    <3> QED BY <3>1, <3>2
  <2>5. CASE RlCrash(p)
    <3>1. RlTypeOK'
      BY <1>0, <2>5, DiesTyped, RelaunchAssumption DEF RlCrash, RlTypeOK, rlWatcher
    <3> QED BY <1>0, <2>5, <3>1, DiesTyped DEF RlCrash
  <2>6. CASE RlStart(p) \/ RlBeat(p) \/ RlStopHeartbeat(p) \/ RlUnlink(p) \/ RlStop(p) \/ RlExit(p) \/ RlRefresh(p)
    <3>1. RlTypeOK'
      BY <1>0, <2>6 DEF RlStart, RlBeat, RlStopHeartbeat, RlUnlink, RlStop, RlExit,
         RlRefresh, RlTypeOK, Go, rlWatcher, rlFiles
    <3>2. Held'
      BY <1>0, <2>6 DEF RlStart, RlBeat, RlStopHeartbeat, RlUnlink, RlStop, RlExit,
         RlRefresh, RlTypeOK, Go, Held, HasLock, rlFiles
    <3> QED BY <3>1, <3>2
  <2> QED BY <2>1, <2>2, <2>3, <2>4, <2>5, <2>6 DEF RlProceeds
<1> QED BY <1>3, <1>4 DEF RlInv

\* An attempt of the watcher takes the process that was kept for it.
LEMMA AttemptInv == ASSUME RlInv, RlAttempt PROVE RlInv'
<1>0. RlTypeOK /\ Held /\ Reserve /\ UNCHANGED <<rlFd, rlLock, rlPath>>
  BY DEF RlInv, RlAttempt, rlFiles
<1>1. CASE UNCHANGED <<rlAt, rlTry>> 
  <2>1. RlTypeOK'
    BY <1>0, <1>1, RelaunchAssumption DEF RlAttempt, RlTypeOK, Ends, rlFiles
  <2> QED BY <1>0, <1>1, <2>1 DEF RlInv, Held, Reserve, Unused
<1>2. CASE /\ rlTry < RlTries /\ rlTry' = rlTry + 1
           /\ rlFaults < RlFaults /\ rlFaults' = rlFaults + 1
           /\ UNCHANGED <<rlAt, rlChild, rlWatch, rlOut>>
  <2>1. RlTypeOK'
    <3>1. rlTry' \in 0..RlTries
      BY <1>0, <1>2, RelaunchAssumption DEF RlTypeOK
    <3>2. rlFaults' \in 0..RlFaults
      BY <1>0, <1>2, RelaunchAssumption DEF RlTypeOK
    <3>3. UNCHANGED <<rlBeat, rlTaken, rlDup, rlTarget>>
      BY DEF RlAttempt
    <3> QED BY <1>0, <1>2, <3>1, <3>2, <3>3 DEF RlTypeOK
  <2>2. Held'
    BY <1>0, <1>2 DEF Held
  <2>3. Unused(Agents)' = Unused(Agents)
    BY <1>2 DEF Unused
  <2>4. Cardinality(Unused(Agents)) \in Nat /\ rlTry \in Nat /\ RlTries \in Nat
    BY <1>0, UnusedNumber, RelaunchAssumption DEF RlTypeOK
  <2>5. Reserve'
    BY <1>0, <1>2, <2>3, <2>4 DEF Reserve
  <2> QED BY <2>1, <2>2, <2>5 DEF RlInv
<1>3. CASE /\ rlTry < RlTries /\ rlTry' = rlTry + 1 /\ Go(Next1(Agents), "checking")
           /\ rlChild' = Next1(Agents) /\ rlWatch' = "health" /\ UNCHANGED <<rlFaults, rlOut>>
  <2>1. rlTry \in Nat /\ RlTries \in Nat
    BY <1>0, RelaunchAssumption DEF RlTypeOK
  <2>2. Unused(Agents) # {}
    BY <1>0, <1>3, <2>1, UnusedNumber DEF Reserve
  <2>3. Next1(Agents) \in Unused(Agents) /\ rlAt' = [rlAt EXCEPT ![Next1(Agents)] = "checking"]
    BY <1>3, <2>2, AgentsAreProcs, Next1Unused DEF Go
  <2>4. Next1(Agents) \in RlProcs /\ rlAt[Next1(Agents)] = "none"
    BY <2>3, AgentsAreProcs DEF Unused
  <2>5. RlTypeOK'
    BY <1>0, <1>3, <2>1, <2>3, <2>4 DEF RlAttempt, RlTypeOK, rlFiles
  <2>6. Held'
    BY <1>0, <2>3, <2>4 DEF RlTypeOK, Held, HasLock
  <2>7. Cardinality(Unused(Agents)') = Cardinality(Unused(Agents)) - 1 /\ Cardinality(Unused(Agents)) \in Nat
    BY <1>0, <2>3, UnusedLess
  <2>8. Reserve'
    BY <1>0, <1>3, <2>1, <2>7 DEF Reserve
  <2> QED BY <2>5, <2>6, <2>8 DEF RlInv
<1> QED BY <1>1, <1>2, <1>3 DEF RlAttempt

\* The other steps of the watcher.
LEMMA WatchesInv == ASSUME RlInv, RlWatches PROVE RlInv'
<1>0. RlTypeOK /\ Held /\ Reserve
  BY DEF RlInv
<1>1. CASE RlAwaitAck \/ RlAwaitLock
  <2>1. RlTypeOK'
    BY <1>0, <1>1 DEF RlAwaitAck, RlAwaitLock, Ends, RlTypeOK, rlFiles
  <2>2. Held' /\ Reserve'
    BY <1>0, <1>1 DEF RlAwaitAck, RlAwaitLock, rlFiles, Held, Reserve, Unused
  <2> QED BY <2>1, <2>2 DEF RlInv
<1>2. CASE RlAttempt
  BY <1>2, AttemptInv
<1>3. CASE RlHealth
  <2>1. CASE UNCHANGED <<rlAt, rlFiles>>
    <3>1. RlTypeOK'
      BY <1>0, <1>3, <2>1 DEF RlHealth, RlTypeOK, Ends, rlFiles
    <3> QED BY <1>0, <1>3, <2>1, <3>1 DEF RlHealth, RlInv, Held, Reserve, Unused, rlFiles
  <2>2. CASE rlDup \in Alive /\ rlAt[rlDup] = "running" /\ Go(rlDup, "stopping") /\ UNCHANGED rlFiles
    <3>1. RlTypeOK'
      BY <1>0, <1>3, <2>2 DEF RlHealth, RlTypeOK, Go, Ends, rlFiles, Alive
    <3>2. Held'
      BY <1>0, <2>2 DEF RlTypeOK, Go, rlFiles, Alive, Held, HasLock
    <3>3. rlTry' = rlTry /\ rlDup \in RlProcs
      BY <1>3, <2>2 DEF RlHealth, Alive
    <3>4. Reserve'
      BY <1>0, <2>2, <3>3, UnusedKept, ReserveKept DEF Go
    <3> QED BY <3>1, <3>2, <3>4 DEF RlInv
  <2>3. CASE rlDup \in Alive /\ Dies(rlDup)
    <3>1. rlTry' = rlTry /\ rlDup \in RlProcs /\ rlAt[rlDup] # "none"
      BY <1>3, <2>3 DEF RlHealth, Alive
    <3>2. Held' /\ rlAt' = [rlAt EXCEPT ![rlDup] = "gone"]
      BY <1>0, <2>3, <3>1, DiesTyped
    <3>3. RlTypeOK'
      BY <1>0, <1>3, <2>3, <3>1, DiesTyped DEF RlHealth, RlTypeOK, Ends
    <3>4. Reserve'
      BY <1>0, <3>1, <3>2, UnusedKept, ReserveKept
    <3> QED BY <3>2, <3>3, <3>4 DEF RlInv
  <2> QED BY <1>3, <2>1, <2>2, <2>3 DEF RlHealth
<1>4. CASE RlTerminate
  <2>1. CASE UNCHANGED <<rlAt, rlFiles>>
    <3>1. RlTypeOK'
      BY <1>0, <1>4, <2>1 DEF RlTerminate, RlTypeOK, rlFiles
    <3> QED BY <1>0, <1>4, <2>1, <3>1 DEF RlTerminate, RlInv, Held, Reserve, Unused, rlFiles
  <2>2. CASE rlTarget \in Alive /\ Dies(rlTarget)
    <3>1. rlTry' = rlTry /\ rlTarget \in RlProcs /\ rlAt[rlTarget] # "none"
      BY <1>4, <2>2 DEF RlTerminate, Alive
    <3>2. Held' /\ rlAt' = [rlAt EXCEPT ![rlTarget] = "gone"]
      BY <1>0, <2>2, <3>1, DiesTyped
    <3>3. RlTypeOK'
      BY <1>0, <1>4, <2>2, <3>1, DiesTyped DEF RlTerminate, RlTypeOK
    <3>4. Reserve'
      BY <1>0, <3>1, <3>2, UnusedKept, ReserveKept
    <3> QED BY <3>2, <3>3, <3>4 DEF RlInv
  <2> QED BY <1>4, <2>1, <2>2 DEF RlTerminate
<1> QED BY <1>1, <1>2, <1>3, <1>4 DEF RlWatches

LEMMA StepInv == RlInv /\ [RlNext]_rlVars => RlInv'
<1> SUFFICES ASSUME RlInv, [RlNext]_rlVars PROVE RlInv'
  OBVIOUS
<1>1. CASE RlAge \/ UNCHANGED rlVars
  <2>0. RlTypeOK /\ Held /\ Reserve
    BY DEF RlInv
  <2>1. UNCHANGED <<rlAt, rlFd, rlLock, rlPath, rlTaken, rlWatch, rlTry, rlChild, rlDup, rlTarget, rlOut>>
    BY <1>1 DEF RlAge, rlVars, rlFiles, rlWatcher
  <2>2. rlBeat' \in {"none", "fresh", "stale"} /\ rlFaults' \in 0..RlFaults
    BY <1>1, <2>0, RelaunchAssumption DEF RlAge, rlVars, RlTypeOK
  <2> QED BY <2>0, <2>1, <2>2 DEF RlInv, RlTypeOK, Held, Reserve, Unused
<1>2. CASE RlLaunch
  BY <1>2, LaunchInv
<1>3. CASE RlWatches
  BY <1>3, WatchesInv
<1>4. CASE \E p \in RlProcs : RlProceeds(p) \/ RlStop(p) \/ RlExit(p) \/ RlCrash(p) \/ RlRefresh(p)
  BY <1>4, ProceedsInv
<1> QED BY <1>1, <1>2, <1>3, <1>4 DEF RlNext

\* Every value is of its type, in every behaviour: an inode is found for a new
\* lock file, and an unused process for every attempt of the watcher.
THEOREM ProcessesTyped == RlSpec => []RlTypeOK
<1>1. RlInv => RlTypeOK
  BY DEF RlInv
<1> QED BY <1>1, InitInv, StepInv, PTL DEF RlSpec

-----------------------------------------------------------------------------
(* One agent *)

\* The agents that were let through by the look at ps, and those of them that
\* have not let go of the lock.
Past   == {p \in Agents : rlAt[p] \notin {"none", "checking", "gone"}}
Active == {p \in Past : rlAt[p] \notin {"unlocked", "lingering"}}

\* An agent gets past the look at ps because nobody is there, or because one step
\* fails; nothing else adds to those that did.
LetThrough(p) ==
  /\ rlAt[p] = "checking" /\ rlAt' = [rlAt EXCEPT ![p] = "waiting"] /\ UNCHANGED rlFiles
  /\ Duplicates(p) = {} \/ (Duplicates(p) # {} /\ rlFaults < RlFaults /\ rlFaults' = rlFaults + 1)

LEMMA OneMoves ==
  ASSUME RlTypeOK, NEW p \in RlProcs, NEW at,
         rlAt' = [rlAt EXCEPT ![p] = at],
         \/ at \in {"none", "checking", "gone"}
         \/ p \notin Agents
         \/ rlAt[p] \in {"unlocked", "lingering"} /\ at = "lingering"
         \/ rlAt[p] \notin {"none", "checking", "gone", "unlocked", "lingering"}
  PROVE  Past' \subseteq Past /\ Active' \subseteq Active
BY DEF RlTypeOK, Past, Active, Agents

LEMMA PastMoves ==
  ASSUME RlInv, [RlNext]_rlVars
  PROVE  \/ Past' \subseteq Past /\ Active' \subseteq Active
         \/ \E p \in Agents : LetThrough(p)
<1>0. RlTypeOK /\ Held /\ Reserve
  BY DEF RlInv
<1>1. CASE UNCHANGED rlAt
  BY <1>1 DEF Past, Active
<1>2. CASE RlLaunch
  <2>1. CASE Cardinality(Unused(Agents)) > RlTries - rlTry /\ Go(Next1(Agents), "checking")
    <3>1. Unused(Agents) # {}
      BY <1>0, <2>1, UnusedNumber, RelaunchAssumption DEF RlTypeOK
    <3>2. Next1(Agents) \in RlProcs
      BY <3>1, AgentsAreProcs, Next1Unused DEF Unused
    <3> QED BY <1>0, <2>1, <3>2, OneMoves DEF Go
  <2>2. CASE Unused(RlRebuilds) # {} /\ Go(Next1(RlRebuilds), "waiting")
    <3>1. Next1(RlRebuilds) \in RlProcs /\ Next1(RlRebuilds) \notin Agents
      BY <2>2, RelaunchAssumption, Next1Unused DEF Unused, Agents
    <3> QED BY <1>0, <2>2, <3>1, OneMoves DEF Go
  <2> QED BY <1>2, <2>1, <2>2 DEF RlLaunch
<1>3. CASE RlAttempt /\ Go(Next1(Agents), "checking") /\ rlTry < RlTries
  <2>1. Unused(Agents) # {}
    BY <1>0, <1>3, UnusedNumber, RelaunchAssumption DEF RlTypeOK, Reserve
  <2>2. Next1(Agents) \in RlProcs
    BY <2>1, AgentsAreProcs, Next1Unused DEF Unused
  <2> QED BY <1>0, <1>3, <2>2, OneMoves DEF Go
<1>4. CASE RlHealth \/ RlTerminate
  <2>1. CASE rlDup \in Alive /\ (Dies(rlDup) \/ (rlAt[rlDup] = "running" /\ Go(rlDup, "stopping")))
    BY <1>0, <2>1, OneMoves DEF Dies, Go, Alive
  <2>2. CASE rlTarget \in Alive /\ Dies(rlTarget)
    BY <1>0, <2>2, OneMoves DEF Dies, Go, Alive
  <2>3. CASE RlHealth
    BY <1>1, <2>1, <2>3 DEF RlHealth
  <2>4. CASE RlTerminate
    BY <1>1, <2>2, <2>4 DEF RlTerminate
  <2> QED BY <1>4, <2>3, <2>4
<1>5. ASSUME NEW p \in RlProcs, RlCheck(p)
      PROVE  (Past' \subseteq Past /\ Active' \subseteq Active) \/ (\E q \in Agents : LetThrough(q))
  <2>1. CASE p \in Agents /\ Go(p, "waiting")
    <3>1. LetThrough(p)
      BY <1>0, <1>5, <2>1 DEF RlCheck, LetThrough, Go, RlTypeOK
    <3> QED BY <2>1, <3>1
  <2>2. CASE p \notin Agents \/ Go(p, "gone")
    BY <1>0, <1>5, <2>2, OneMoves DEF RlCheck, Go
  <2> QED BY <1>5, <2>1, <2>2 DEF RlCheck
<1>6. ASSUME NEW p \in RlProcs,
             \/ RlOpen(p) \/ RlFlock(p) \/ RlStart(p) \/ RlStopHeartbeat(p) \/ RlUnlock(p)
             \/ RlUnlink(p) \/ RlStop(p) \/ RlExit(p) \/ RlCrash(p) \/ RlRefresh(p)
      PROVE  Past' \subseteq Past /\ Active' \subseteq Active
  <2>1. CASE RlExit(p) \/ RlCrash(p)
    <3>1. rlAt' = [rlAt EXCEPT ![p] = "gone"]
      BY <2>1 DEF RlExit, RlCrash, Go, Dies
    <3> QED BY <1>0, <3>1, OneMoves
  <2>2. CASE RlUnlink(p)
    <3>1. rlAt' = [rlAt EXCEPT ![p] = "lingering"] /\ rlAt[p] = "unlocked"
      BY <2>2 DEF RlUnlink, Go
    <3> QED BY <1>0, <3>1, OneMoves
  <2>3. CASE RlOpen(p) \/ RlStart(p) \/ RlStopHeartbeat(p) \/ RlUnlock(p) \/ RlStop(p) \/ RlRefresh(p) \/ RlFlock(p)
    <3>1. rlAt[p] \notin {"none", "checking", "gone", "unlocked", "lingering"}
      BY <2>3 DEF RlOpen, RlFlock, RlStart, RlStopHeartbeat, RlUnlock, RlStop, RlRefresh
    <3>2. PICK at : rlAt' = [rlAt EXCEPT ![p] = at]
      BY <2>3 DEF RlOpen, RlFlock, RlStart, RlStopHeartbeat, RlUnlock, RlStop, RlRefresh, Go
    <3> QED BY <1>0, <3>1, <3>2, OneMoves
  <2> QED BY <1>6, <2>1, <2>2, <2>3
<1>7. ASSUME NEW p \in RlProcs, RlBeat(p) PROVE UNCHANGED rlAt
  BY <1>7 DEF RlBeat
<1>8. RlAge \/ RlAwaitAck \/ RlAwaitLock \/ UNCHANGED rlVars => UNCHANGED rlAt
  BY DEF RlAge, RlAwaitAck, RlAwaitLock, rlVars
<1>9. RlAttempt => UNCHANGED rlAt \/ (rlTry < RlTries /\ Go(Next1(Agents), "checking"))
  BY DEF RlAttempt
<1> QED BY <1>1, <1>2, <1>3, <1>4, <1>5, <1>6, <1>7, <1>8, <1>9
        DEF RlNext, RlWatches, RlProceeds

\* Agents that own a lock, if there is but one of them at a time, are at most one.
LEMMA ApartIsOne ==
  ASSUME RlInv, \A p, q \in Owners \cap Agents : p = q
  PROVE  OneAgent
<1> DEFINE S == Owners \cap Agents
<1>1. CASE S = {}
  BY <1>1, FS_EmptySet DEF OneAgent
<1>2. CASE S # {}
  <2>1. PICK p \in S : TRUE
    BY <1>2
  <2>2. S = {p}
    BY <2>1
  <2>3. Cardinality(S) = 1
    BY <2>2, FS_Singleton
  <2> QED BY <2>3 DEF OneAgent
<1> QED BY <1>1, <1>2

\* No two processes are past the check.
AtMostOnePast == \A p, q \in Past : p = q

\* When no look at ps misses who is there, two agents never work in one directory,
\* whatever else fails, is launched, rebuilt or refreshed (_check_duplicate_process).
THEOREM SeenIsOne == RlSpec /\ [][~RlBlind]_rlVars => []OneAgent
<1>1. RlInit => AtMostOnePast
  <2> SUFFICES ASSUME RlInit PROVE AtMostOnePast
    OBVIOUS
  <2>1. PICK p \in Agents : rlAt = [q \in RlProcs |-> IF q = p THEN "running" ELSE "none"]
    BY DEF RlInit
  <2> QED BY <2>1, AgentsAreProcs DEF AtMostOnePast, Past
<1>2. RlInv /\ AtMostOnePast /\ [RlNext]_rlVars /\ [~RlBlind]_rlVars => AtMostOnePast'
  <2> SUFFICES ASSUME RlInv, AtMostOnePast, [RlNext]_rlVars, [~RlBlind]_rlVars PROVE AtMostOnePast'
    OBVIOUS
  <2>1. CASE Past' \subseteq Past
    BY <2>1 DEF AtMostOnePast
  <2>2. CASE \E p \in Agents : LetThrough(p)
    <3>1. PICK p \in Agents : LetThrough(p)
      BY <2>2
    <3>2. p \in RlProcs /\ rlAt'[p] = "waiting"
      BY <3>1, AgentsAreProcs DEF LetThrough, RlInv, RlTypeOK
    <3>3. Duplicates(p) = {}
      BY <3>1, <3>2 DEF LetThrough, RlBlind, rlVars
    <3>4. \A q \in Past : q = p
      BY <3>3, AgentsAreProcs DEF Past, Duplicates, Alive
    <3>5. \A q \in Past' : q = p
      BY <3>1, <3>2, <3>4, AgentsAreProcs DEF Past, LetThrough
    <3> QED BY <3>5 DEF AtMostOnePast
  <2> QED BY <2>1, <2>2, PastMoves
<1>3. RlInv /\ AtMostOnePast => OneAgent
  <2> SUFFICES ASSUME RlInv, AtMostOnePast PROVE OneAgent
    OBVIOUS
  <2>1. Owners \cap Agents \subseteq Past
    BY DEF Owners, Past
  <2> QED BY <2>1, ApartIsOne DEF AtMostOnePast
<1> QED BY <1>1, <1>2, <1>3, InitInv, StepInv, PTL DEF RlSpec

\* With no rebuild of the index and at most one fault: before it, one agent is past
\* the look, and its lock file is the one the path names; after it, at most two are,
\* and while both are active neither has another file than that one.
OneInv ==
  /\ rlFaults = 0 => /\ \A p, q \in Past : p = q
                     /\ \A p \in Active : rlFd[p] \in {0, rlPath}
  /\ \A p, q, r \in Past : p = q \/ q = r \/ p = r
  /\ \A p, q \in Active : p # q => rlFd[p] \in {0, rlPath}

\* A file that the path names, or none, stays so for an agent unless another one
\* unlinks the path.
LEMMA NamedStays ==
  ASSUME RlInv, [RlNext]_rlVars, NEW p \in Agents, p \in Active, p \in Active',
         rlFd[p] \in {0, rlPath}, RlRebuilds = {},
         \A r \in Past : rlAt[r] # "unlocked"
  PROVE  (rlFd[p] \in {0, rlPath})'
<1>0. RlTypeOK /\ Held /\ Reserve /\ p \in RlProcs /\ RlProcs = Agents
  BY AgentsAreProcs DEF RlInv, Agents
<1>1. CASE UNCHANGED rlFiles
  BY <1>1 DEF rlFiles
<1>2. CASE \E q \in RlProcs : Dies(q)
  BY <1>0, <1>2 DEF Dies, Closed, RlTypeOK
<1>3. ASSUME NEW q \in RlProcs, RlOpen(q) PROVE (rlFd[p] \in {0, rlPath})'
  <2>1. PICK i : rlFd' = [rlFd EXCEPT ![q] = i] /\ rlPath' = i /\ (rlPath # 0 => i = rlPath)
    BY <1>3 DEF RlOpen
  <2> QED BY <1>0, <2>1 DEF RlTypeOK
<1>4. ASSUME NEW q \in RlProcs, RlFlock(q) \/ RlUnlock(q) PROVE (rlFd[p] \in {0, rlPath})'
  BY <1>0, <1>4 DEF RlFlock, RlUnlock, Closed, RlTypeOK
<1>5. ASSUME NEW q \in RlProcs PROVE ~RlUnlink(q)
  BY <1>0, <1>5 DEF RlUnlink, Past
<1>6. ASSUME NEW q \in RlProcs,
             \/ RlCheck(q) \/ RlStart(q) \/ RlBeat(q) \/ RlStopHeartbeat(q)
             \/ RlStop(q) \/ RlExit(q) \/ RlRefresh(q)
      PROVE  UNCHANGED rlFiles
  BY <1>6 DEF RlCheck, RlStart, RlBeat, RlStopHeartbeat, RlStop, RlExit, RlRefresh
<1>7. ASSUME NEW q \in RlProcs, RlCrash(q) PROVE Dies(q)
  BY <1>7 DEF RlCrash
<1>8. RlWatches => UNCHANGED rlFiles \/ \E q \in RlProcs : Dies(q)
  BY DEF RlWatches, RlAwaitAck, RlAwaitLock, RlAttempt, RlHealth, RlTerminate, Alive, rlFiles
<1>9. RlAge \/ RlLaunch \/ UNCHANGED rlVars => UNCHANGED rlFiles
  BY DEF RlAge, RlLaunch, rlVars, rlFiles
<1> QED BY <1>1, <1>2, <1>3, <1>4, <1>5, <1>6, <1>7, <1>8, <1>9 DEF RlNext, RlProceeds

LEMMA FaultsGrow ==
  ASSUME RlInv, [RlNext]_rlVars
  PROVE  rlFaults \in Nat /\ (rlFaults' = 0 => rlFaults = 0)
<1>1. rlFaults \in Nat
  BY RelaunchAssumption DEF RlInv, RlTypeOK
<1>2. rlFaults' = rlFaults \/ rlFaults' = rlFaults + 1
  BY DEF RlNext, RlWatches, RlAwaitAck, RlAwaitLock, RlAttempt, RlHealth, RlTerminate,
     RlProceeds, RlCheck, RlOpen, RlFlock, RlStart, RlBeat, RlStopHeartbeat, RlUnlock,
     RlUnlink, RlStop, RlExit, RlCrash, RlRefresh, RlAge, RlLaunch, rlVars
<1> QED BY <1>1, <1>2

LEMMA OneInvStep ==
  ASSUME RlRebuilds = {}, RlFaults <= 1, RlInv, OneInv, [RlNext]_rlVars
  PROVE  OneInv'
<1>0. rlFaults \in Nat /\ (rlFaults' = 0 => rlFaults = 0) /\ RlFaults \in Nat
  BY FaultsGrow, RelaunchAssumption
<1>1. CASE Past' \subseteq Past /\ Active' \subseteq Active
  <2>1. \A p, q, r \in Past' : p = q \/ q = r \/ p = r
    BY <1>1 DEF OneInv
  <2>2. rlFaults' = 0 => \A p, q \in Past' : p = q
    BY <1>0, <1>1 DEF OneInv
  <2>3. ASSUME rlFaults' = 0, NEW p \in Active' PROVE (rlFd[p] \in {0, rlPath})'
    <3>1. p \in Active /\ p \in Agents /\ p \in Past
      BY <1>1 DEF Active, Past
    <3>2. \A r \in Past : rlAt[r] # "unlocked"
      BY <1>0, <2>3, <3>1 DEF OneInv, Active
    <3> QED BY <1>0, <2>3, <3>1, <3>2, NamedStays DEF OneInv
  <2>4. ASSUME NEW p \in Active', NEW q \in Active', p # q PROVE (rlFd[p] \in {0, rlPath})'
    <3>1. p \in Active /\ p \in Agents /\ p \in Past /\ q \in Active /\ q \in Past
      BY <1>1 DEF Active, Past
    <3>2. ASSUME NEW r \in Past PROVE rlAt[r] # "unlocked"
      <4>1. r = p \/ r = q
        BY <2>4, <3>1 DEF OneInv
      <4> QED BY <3>1, <4>1 DEF Active
    <3> QED BY <2>4, <3>1, <3>2, NamedStays DEF OneInv
  <2> QED BY <2>1, <2>2, <2>3, <2>4 DEF OneInv
<1>2. CASE \E x \in Agents : LetThrough(x)
  <2>1. PICK x \in Agents : LetThrough(x)
    BY <1>2
  <2>2. x \in RlProcs /\ rlFd[x] = 0 /\ UNCHANGED <<rlFd, rlPath>>
    BY <2>1, AgentsAreProcs DEF LetThrough, RlInv, Held, HasLock, rlFiles
  <2>3. Past' \subseteq Past \cup {x} /\ Active' \subseteq Active \cup {x}
    BY <2>1, <2>2 DEF LetThrough, Past, Active, RlInv, RlTypeOK, Agents
  <2>4. Past \subseteq Duplicates(x) 
    BY <2>1, AgentsAreProcs DEF Past, Duplicates, Alive, LetThrough
  <2>5. CASE Duplicates(x) = {}
    BY <2>2, <2>3, <2>4, <2>5 DEF OneInv, Active
  <2>6. CASE rlFaults < RlFaults /\ rlFaults' = rlFaults + 1
    <3>1. rlFaults = 0 /\ rlFaults' # 0
      BY <1>0, <2>6
    <3> QED BY <2>2, <2>3, <3>1 DEF OneInv, Active
  <2> QED BY <2>1, <2>5, <2>6 DEF LetThrough
<1> QED BY <1>1, <1>2, PastMoves

\* Two agents never work in one directory while at most one step fails and the log
\* index is not rebuilt: the lock stops the one that missed the other in ps
\* (acquire_lock, release_lock).
THEOREM LockIsOne == RlRebuilds = {} /\ RlFaults <= 1 /\ RlSpec => []OneAgent
<1> SUFFICES ASSUME RlRebuilds = {}, RlFaults <= 1 PROVE RlSpec => []OneAgent
  OBVIOUS
<1>1. RlInit => OneInv
  <2> SUFFICES ASSUME RlInit PROVE OneInv
    OBVIOUS
  <2>1. PICK p \in Agents : /\ rlAt = [q \in RlProcs |-> IF q = p THEN "running" ELSE "none"]
                            /\ rlFd = [q \in RlProcs |-> IF q = p THEN 1 ELSE 0]
                            /\ rlPath = 1
    BY DEF RlInit
  <2> QED BY <2>1, AgentsAreProcs DEF OneInv, Past, Active
<1>2. RlInv /\ OneInv /\ [RlNext]_rlVars => OneInv'
  BY OneInvStep
<1>3. RlInv /\ OneInv => OneAgent
  <2> SUFFICES ASSUME RlInv, OneInv, NEW p \in Owners \cap Agents, NEW q \in Owners \cap Agents, p # q
               PROVE  FALSE
    BY ApartIsOne
  <2>1. p \in Active /\ q \in Active
    BY DEF Owners, Active, Past
  <2>2. rlFd[p] = rlPath /\ rlFd[q] = rlPath
    BY <2>1 DEF OneInv, RlInv, Held, HasLock, Owners
  <2> QED BY <2>2 DEF RlInv, Held, HasLock, Owners
<1> QED BY <1>1, <1>2, <1>3, InitInv, StepInv, PTL DEF RlSpec

-----------------------------------------------------------------------------
(* DaemonManager                                                           *)

Works == {"refused", "queued", "spawned", "busy", "last", "ended", "dropped",
          "over", "lost"}
Disks == {"running"} \cup Settled

\* The handle of an entry is the one its run was given.
Entered == \A h \in Handles : dmTable[h] # 0 => dmRun[dmTable[h]].handle = h

\* A run that is not over has said nothing; a claimed directory was announced by
\* a run that is over and has the handle of the directory's.
Silent == \A r \in Runs : dmRun[r].work # "over" => dmRun[r].said.status = "none"
Claims ==
  \A e \in Runs : dmRun[e].claimed =>
    \E q \in Runs : /\ dmRun[q].work = "over" /\ dmRun[q].handle = dmRun[e].handle
                    /\ dmRun[q].said.named = e /\ dmRun[q].said.status # "none"

\* What is said of the runs, and of the batches' watchdogs.
RunsTyped == /\ dmRun \in Seq(RunRecord) /\ Len(dmRun) <= MaxRuns
             /\ dmTable \in [Handles -> 0..Len(dmRun)]
             /\ \A r \in Runs : dmRun[r].batch \in Batches
RunsInv == RunsTyped /\ Entered /\ Silent /\ Claims
           /\ EndAnnounced /\ TruthTold /\ TimeoutIsOwn
BatchInv == /\ dmBatch \in Seq(BatchRecord) /\ Len(dmBatch) <= MaxBatches
            /\ \A b \in Batches : dmBatch[b].watch = "fired" => dmBatch[b].timedOut

\* Where a call of the tool is, and that its batch fits.
CallInv ==
  /\ dmNext \in 1..MaxRuns + 1 /\ dmNext <= Len(dmRun) + 1
  /\ dmCall \in {"none", "emanate", "enter", "reclaim", "clear"}
  /\ dmCall \in {"emanate", "enter"} => Len(dmBatch) > 0
  /\ dmCall = "emanate" => Len(dmRun) + dmBatch[Len(dmBatch)].left <= MaxRuns
  /\ dmCall = "enter" => /\ dmBatch[Len(dmBatch)].left > 0 /\ Len(dmRun) > 0
                         /\ Len(dmRun) + dmBatch[Len(dmBatch)].left <= MaxRuns + 1
  /\ dmAsk \in 0..MaxRuns
  /\ dmReply \in {"silent", "failed", "completed", "cancelled"}
  /\ dmRestarts \in 0..MaxRestarts

DmInv == RunsInv /\ BatchInv /\ CallInv

-----------------------------------------------------------------------------
\* A function on 1..n is a sequence, and the other way round.
LEMMA SeqOf ==
  ASSUME NEW S, NEW n \in Nat, NEW f \in [1..n -> S]
  PROVE  f \in Seq(S) /\ Len(f) = n
OBVIOUS

LEMMA SeqIs ==
  ASSUME NEW S, NEW s \in Seq(S)
  PROVE  Len(s) \in Nat /\ s \in [1..Len(s) -> S]
OBVIOUS

\* What a step may make of a run: all but the end of it.
Renewed(run, next, timedOut) ==
  /\ next \in RunRecord
  /\ next.handle = run.handle /\ next.batch = run.batch
  /\ next.said = run.said /\ next.claimed = run.claimed
  /\ next.work = "over" <=> run.work = "over"
  /\ run.work = "over" =>
       next.disk = run.disk \/ (run.disk = "running" /\ next.disk = "failed")
  /\ next.disk = "timeout" => run.disk = "timeout" \/ timedOut
  /\ next.reason = "timeout" => run.reason = "timeout" \/ timedOut

\* What it may make of the table and of the batches.
TableKept == \A h \in Handles : dmTable'[h] \in {0, dmTable[h]}
BatchesGoOn == /\ dmBatch \in Seq(BatchRecord) /\ dmBatch' \in Seq(BatchRecord)
               /\ Len(dmBatch) <= Len(dmBatch')
               /\ \A b \in Batches : dmBatch[b].timedOut => dmBatch'[b].timedOut

LEMMA RunsRenew ==
  ASSUME RunsInv, BatchesGoOn, TableKept, dmTable' \in [Handles -> 0..Len(dmRun)],
         dmRun' \in [Runs -> RunRecord],
         \A r \in Runs : Renewed(dmRun[r], dmRun'[r], dmBatch'[dmRun[r].batch].timedOut)
  PROVE  RunsInv'
<1>0. /\ RunsTyped /\ Entered /\ Silent /\ Claims
      /\ EndAnnounced /\ TruthTold /\ TimeoutIsOwn
      /\ Len(dmRun) \in Nat /\ Len(dmRun) <= MaxRuns
      /\ \A r \in Runs : dmRun[r].batch \in Batches
      /\ Len(dmBatch) \in Nat /\ Len(dmBatch') \in Nat
      /\ dmRun \in [Runs -> RunRecord]
  BY SeqIs DEF RunsInv, RunsTyped, BatchesGoOn, Runs
<1>1. dmRun' \in Seq(RunRecord) /\ Len(dmRun') = Len(dmRun) /\ Runs' = Runs
  BY <1>0, SeqOf DEF Runs
<1>2. \A r \in Runs :
        /\ dmRun'[r].handle = dmRun[r].handle /\ dmRun'[r].batch = dmRun[r].batch
        /\ dmRun'[r].said = dmRun[r].said /\ dmRun'[r].claimed = dmRun[r].claimed
        /\ dmRun'[r].work = "over" <=> dmRun[r].work = "over"
        /\ dmRun[r].work = "over" =>
             \/ dmRun'[r].disk = dmRun[r].disk
             \/ dmRun[r].disk = "running" /\ dmRun'[r].disk = "failed"
        /\ \/ dmRun'[r].disk = "timeout" \/ dmRun'[r].reason = "timeout"
           => \/ dmRun[r].disk = "timeout" \/ dmRun[r].reason = "timeout"
              \/ dmBatch'[dmRun[r].batch].timedOut
  BY DEF Renewed
<1>3. \A r \in Runs : dmRun[r].said.status \in Settled \cup {"none"}
  <2>1. ASSUME NEW run \in RunRecord
        PROVE  run.said.status \in Settled \cup {"none"}
    BY DEF RunRecord
  <2> QED BY <1>0, <2>1
<1>4. RunsTyped'
  <2>1. \A r \in Runs' : dmRun'[r].batch \in Batches'
    BY <1>0, <1>1, <1>2 DEF BatchesGoOn, Batches
  <2> QED BY <1>0, <1>1, <2>1 DEF RunsTyped
<1>5. Entered'
  BY <1>0, <1>1, <1>2 DEF Entered, TableKept, RunsTyped, Runs
<1>6. Silent'
  BY <1>0, <1>1, <1>2 DEF Silent
<1>61. Claims'
  BY <1>0, <1>1, <1>2 DEF Claims
<1>62. \A r \in Runs : Shares(r) <=> Shares(r)'
  BY <1>0, <1>1, <1>2 DEF Shares
<1>7. EndAnnounced'
  <2> SUFFICES ASSUME NEW r \in Runs', dmRun'[r].work = "over"
               PROVE  \E q \in Runs' :
                        /\ dmRun'[q].handle = dmRun'[r].handle /\ dmRun'[q].said.status # "none"
                        /\ Shares(r)' \/ dmRun'[q].said.named \in {r, 0}
    BY DEF EndAnnounced
  <2>1. r \in Runs /\ dmRun[r].work = "over"
    BY <1>1, <1>2
  <2>2. PICK q \in Runs :
               /\ dmRun[q].handle = dmRun[r].handle /\ dmRun[q].said.status # "none"
               /\ Shares(r) \/ dmRun[q].said.named \in {r, 0}
    BY <1>0, <2>1 DEF EndAnnounced
  <2> QED BY <1>1, <1>2, <1>62, <2>1, <2>2
<1>8. TruthTold'
  BY <1>0, <1>1, <1>2, <1>3 DEF TruthTold, Settled
<1>9. TimeoutIsOwn'
  BY <1>0, <1>1, <1>2 DEF TimeoutIsOwn, BatchesGoOn
<1> QED BY <1>4, <1>5, <1>6, <1>61, <1>7, <1>8, <1>9 DEF RunsInv

\* A step that leaves a run alone renews it.
LEMMA SameRenewed ==
  ASSUME NEW run \in RunRecord, NEW t
  PROVE  Renewed(run, run, t)
BY DEF Renewed

\* A step of one run.
LEMMA RunRenews ==
  ASSUME RunsInv, BatchInv, NEW r \in Runs, NEW run, DmPut(r, run),
         Renewed(dmRun[r], run, dmBatch[dmRun[r].batch].timedOut),
         UNCHANGED <<dmBatch, dmTable>>
  PROVE  RunsInv'
<1>1. dmRun \in [Runs -> RunRecord] /\ run \in RunRecord
  BY SeqIs DEF RunsInv, RunsTyped, Runs, Renewed
<1>2. dmRun' = [dmRun EXCEPT ![r] = run]
  BY DEF DmPut
<1>3. dmRun' \in [Runs -> RunRecord]
  BY <1>1, <1>2
<1>4. ASSUME NEW q \in Runs
      PROVE  Renewed(dmRun[q], dmRun'[q], dmBatch'[dmRun[q].batch].timedOut)
  <2>1. CASE q = r
    BY <1>1, <1>2, <2>1
  <2>2. CASE q # r
    <3>1. dmRun'[q] = dmRun[q] /\ dmRun[q] \in RunRecord
      BY <1>1, <1>2, <2>2
    <3> QED BY <3>1, SameRenewed
  <2> QED BY <2>1, <2>2
<1>5. BatchesGoOn /\ TableKept /\ dmTable' \in [Handles -> 0..Len(dmRun)]
  BY DEF BatchesGoOn, TableKept, BatchInv, RunsInv, RunsTyped
<1> QED BY <1>3, <1>4, <1>5, RunsRenew

\* A run whose work is at its end, with what its record says of it.
LEMMA EndedRenewed ==
  ASSUME NEW run \in RunRecord, NEW disk \in Disks, NEW t \in BOOLEAN,
         run.work # "over", disk = "timeout" => t
  PROVE  Renewed(run, DmEnded(run, disk), t)
<1> DEFINE a == [run EXCEPT !.work = "ended", !.disk = disk, !.proc = "none"]
           b == [a EXCEPT !.tracked = FALSE, !.reason = "none"]
           c == [b EXCEPT !.missed = FALSE, !.buffer = FALSE]
<1>1. a \in RunRecord
  BY DEF RunRecord, Disks
<1>2. DmEnded(run, disk) = c
  BY DEF DmEnded
<1>3. /\ DmEnded(run, disk).handle = run.handle /\ DmEnded(run, disk).batch = run.batch
      /\ DmEnded(run, disk).said = run.said /\ DmEnded(run, disk).claimed = run.claimed
      /\ DmEnded(run, disk).work = "ended" /\ DmEnded(run, disk).disk = disk
      /\ DmEnded(run, disk).reason = "none"
  BY DEF DmEnded, RunRecord
<1> HIDE DEF a
<1>4. b \in RunRecord
  BY <1>1 DEF RunRecord
<1> HIDE DEF b
<1>5. c \in RunRecord
  BY <1>4 DEF RunRecord
<1> HIDE DEF c
<1> QED BY <1>2, <1>3, <1>5 DEF Renewed

-----------------------------------------------------------------------------
\* A worker's own steps, up to the end of its work.
WorkerStep(r) == DmBegin(r) \/ DmRegister(r) \/ DmReap(r) \/ DmTurnEnds(r)
                 \/ DmLingtaiEnds(r) \/ DmExit(r) \/ DmBreak(r) \/ DmLine(r)
                 \/ DmToolRound(r)

LEMMA WorkerRenews ==
  ASSUME RunsInv, BatchInv, NEW r \in Runs, WorkerStep(r)
  PROVE  RunsInv'
<1> DEFINE t == dmBatch[dmRun[r].batch].timedOut
<1>0. dmRun[r] \in RunRecord /\ t \in BOOLEAN
  <2>1. dmBatch[dmRun[r].batch] \in BatchRecord
    BY SeqIs DEF RunsInv, RunsTyped, BatchInv, Batches
  <2> QED BY <2>1, SeqIs DEF RunsInv, RunsTyped, Runs, BatchRecord
<1>1. UNCHANGED <<dmBatch, dmTable>>
  BY DEF WorkerStep, DmBegin, DmRegister, DmReap, DmTurnEnds, DmLingtaiEnds, DmExit, DmBreak,
     DmLine, DmToolRound, DmOnlyRun
<1>2. dmRun[r].work \in {"queued", "spawned", "busy", "last"}
  BY DEF WorkerStep, DmBegin, DmRegister, DmReap, DmTurnEnds, DmLingtaiEnds, DmExit, DmBreak,
     DmLine, DmToolRound
<1>3. \/ \E disk \in Disks : DmPut(r, DmEnded(dmRun[r], disk)) /\ (disk = "timeout" => t)
      \/ DmPut(r, [dmRun[r] EXCEPT !.work = "busy"])
      \/ DmPut(r, [dmRun[r] EXCEPT !.work = "busy", !.proc = "alive"])
      \/ DmPut(r, [dmRun[r] EXCEPT !.work = "spawned", !.proc = "alive"])
      \/ DmPut(r, [dmRun[r] EXCEPT !.work = "busy", !.tracked = TRUE])
      \/ DmPut(r, [dmRun[r] EXCEPT !.proc = "exited"])
  <2> DEFINE ends == \E disk \in Disks : DmPut(r, DmEnded(dmRun[r], disk)) /\ (disk = "timeout" => t)
  <2>1. /\ DmPut(r, DmStopped(r)) => ends
        /\ DmPut(r, DmFailed(r)) => ends
        /\ DmPut(r, DmEnded(dmRun[r], "done")) => ends
        /\ DmPut(r, DmEnded(dmRun[r], "running")) => ends
    BY DEF DmStopped, DmFailed, Disks, Settled
  <2> HIDE DEF ends
  <2>2. DmBegin(r) \/ DmLine(r) \/ DmToolRound(r) =>
          \/ ends \/ DmPut(r, [dmRun[r] EXCEPT !.work = "busy"])
          \/ DmPut(r, [dmRun[r] EXCEPT !.work = "busy", !.proc = "alive"])
          \/ DmPut(r, [dmRun[r] EXCEPT !.work = "spawned", !.proc = "alive"])
    BY <2>1 DEF DmBegin, DmLine, DmToolRound
  <2>3. DmRegister(r) => DmPut(r, [dmRun[r] EXCEPT !.work = "busy", !.tracked = TRUE])
    BY DEF DmRegister
  <2>4. DmExit(r) => DmPut(r, [dmRun[r] EXCEPT !.proc = "exited"])
    BY DEF DmExit
  <2>5. DmTurnEnds(r) \/ DmLingtaiEnds(r) \/ DmBreak(r) => ends
    BY <2>1 DEF DmTurnEnds, DmLingtaiEnds, DmBreak
  <2>6. DmReap(r) => ends
    <3>1. SUFFICES ASSUME NEW x \in ExitReport,
                          DmPut(r, IF DmGood(x, r) THEN DmEnded(dmRun[r], "done")
                                   ELSE DmFailed(r))
                   PROVE  ends
      BY DEF DmReap
    <3>2. CASE DmGood(x, r)
      BY <2>1, <3>1, <3>2
    <3>3. CASE ~DmGood(x, r)
      BY <2>1, <3>1, <3>3
    <3> QED BY <3>2, <3>3
  <2> QED BY <2>2, <2>3, <2>4, <2>5, <2>6 DEF WorkerStep, ends
<1> HIDE DEF t
<1>4. CASE \E disk \in Disks : DmPut(r, DmEnded(dmRun[r], disk)) /\ (disk = "timeout" => t)
  BY <1>0, <1>1, <1>2, <1>4, EndedRenewed, RunRenews DEF t
<1>5. CASE \/ DmPut(r, [dmRun[r] EXCEPT !.work = "busy"])
           \/ DmPut(r, [dmRun[r] EXCEPT !.work = "busy", !.proc = "alive"])
           \/ DmPut(r, [dmRun[r] EXCEPT !.work = "spawned", !.proc = "alive"])
           \/ DmPut(r, [dmRun[r] EXCEPT !.work = "busy", !.tracked = TRUE])
           \/ DmPut(r, [dmRun[r] EXCEPT !.proc = "exited"])
  <2>1. /\ Renewed(dmRun[r], [dmRun[r] EXCEPT !.work = "busy"], t)
        /\ Renewed(dmRun[r], [dmRun[r] EXCEPT !.work = "busy", !.proc = "alive"], t)
    BY <1>0, <1>2 DEF Renewed, RunRecord
  <2>2. /\ Renewed(dmRun[r], [dmRun[r] EXCEPT !.work = "spawned", !.proc = "alive"], t)
        /\ Renewed(dmRun[r], [dmRun[r] EXCEPT !.work = "busy", !.tracked = TRUE], t)
    BY <1>0, <1>2 DEF Renewed, RunRecord
  <2>3. Renewed(dmRun[r], [dmRun[r] EXCEPT !.proc = "exited"], t)
    BY <1>0, <1>2 DEF Renewed, RunRecord
  <2> QED BY <1>1, <1>5, <2>1, <2>2, <2>3, RunRenews DEF t
<1> QED BY <1>3, <1>4, <1>5

-----------------------------------------------------------------------------
\* What the proofs of the steps start from.
LEMMA Facts ==
  ASSUME DmInv
  PROVE  /\ MaxRuns \in Nat \ {0} /\ MaxBatches \in Nat \ {0} /\ MaxTasks \in Nat \ {0}
         /\ Len(dmRun) \in Nat /\ dmRun \in [Runs -> RunRecord] /\ Len(dmRun) <= MaxRuns
         /\ Len(dmBatch) \in Nat /\ dmBatch \in [Batches -> BatchRecord]
         /\ Len(dmBatch) <= MaxBatches
         /\ \A r \in Runs : dmRun[r].batch \in Batches /\ dmRun[r].handle \in Handles
         /\ dmTable \in [Handles -> 0..Len(dmRun)]
<1>1. dmRun \in Seq(RunRecord) /\ dmBatch \in Seq(BatchRecord)
  BY DEF DmInv, RunsInv, RunsTyped, BatchInv
<1>2. /\ Len(dmRun) \in Nat /\ dmRun \in [Runs -> RunRecord]
      /\ Len(dmBatch) \in Nat /\ dmBatch \in [Batches -> BatchRecord]
  BY <1>1, SeqIs DEF Runs, Batches
<1>3. ASSUME NEW run \in RunRecord
      PROVE  run.handle \in Handles
  BY DEF RunRecord
<1>4. \A r \in Runs : dmRun[r].handle \in Handles
  BY <1>2, <1>3
<1> QED BY <1>2, <1>4, DaemonAssumption DEF DmInv, RunsInv, RunsTyped, BatchInv

\* A call goes on where it was when a step leaves it and the batches' sizes alone.
LEMMA CallKept ==
  ASSUME CallInv, Len(dmRun') = Len(dmRun), UNCHANGED <<dmNext, dmCall, askVars, dmRestarts>>,
         Len(dmBatch') = Len(dmBatch),
         Len(dmBatch) > 0 => dmBatch'[Len(dmBatch)].left = dmBatch[Len(dmBatch)].left
  PROVE  CallInv'
BY DEF CallInv, askVars

\* A batch whose watchdog, event or pool moves on.
Moved(batch, next) ==
  /\ next \in BatchRecord
  /\ next.left = batch.left
  /\ batch.timedOut => next.timedOut
  /\ next.watch = "fired" => batch.watch = "fired" \/ next.timedOut

LEMMA BatchesMove ==
  ASSUME BatchInv, dmBatch' \in [Batches -> BatchRecord],
         \A b \in Batches : Moved(dmBatch[b], dmBatch'[b])
  PROVE  /\ BatchInv' /\ BatchesGoOn /\ Len(dmBatch') = Len(dmBatch)
         /\ Len(dmBatch) > 0 => dmBatch'[Len(dmBatch)].left = dmBatch[Len(dmBatch)].left
<1>1. dmBatch \in Seq(BatchRecord) /\ Len(dmBatch) \in Nat
  BY DEF BatchInv
<1>2. dmBatch' \in Seq(BatchRecord) /\ Len(dmBatch') = Len(dmBatch) /\ Batches' = Batches
  BY <1>1, SeqOf DEF Batches
<1> QED BY <1>1, <1>2 DEF BatchInv, BatchesGoOn, Moved, Batches

LEMMA BatchMoves ==
  ASSUME DmInv, NEW b \in Batches, NEW next, dmBatch' = [dmBatch EXCEPT ![b] = next],
         Moved(dmBatch[b], next)
  PROVE  /\ BatchInv' /\ BatchesGoOn /\ Len(dmBatch') = Len(dmBatch)
         /\ Len(dmBatch) > 0 => dmBatch'[Len(dmBatch)].left = dmBatch[Len(dmBatch)].left
<1>1. dmBatch \in [Batches -> BatchRecord] /\ next \in BatchRecord
  BY Facts DEF Moved
<1>2. dmBatch' \in [Batches -> BatchRecord]
  BY <1>1
<1>3. \A c \in Batches : Moved(dmBatch[c], dmBatch'[c])
  BY <1>1 DEF Moved
<1> QED BY <1>2, <1>3, BatchesMove DEF DmInv

\* Steps that renew every run and leave the table or clear it.
LEMMA AllRenew ==
  ASSUME DmInv, BatchesGoOn, dmTable' = dmTable \/ dmTable' = [h \in Handles |-> 0],
         dmRun' = [r \in Runs |-> dmRun'[r]],
         \A r \in Runs : Renewed(dmRun[r], dmRun'[r], dmBatch'[dmRun[r].batch].timedOut)
  PROVE  RunsInv' /\ Len(dmRun') = Len(dmRun)
<1>1. dmRun' \in [Runs -> RunRecord]
  BY DEF Renewed
<1>2. TableKept /\ dmTable' \in [Handles -> 0..Len(dmRun)]
  BY Facts DEF TableKept
<1>3. Len(dmRun') = Len(dmRun)
  BY <1>1, Facts, SeqOf DEF Runs
<1> QED BY <1>1, <1>2, <1>3, RunsRenew DEF DmInv

LEMMA WorkerKeeps ==
  ASSUME DmInv, NEW r \in Runs, WorkerStep(r)
  PROVE  DmInv'
<1>1. UNCHANGED <<dmBatch, dmTable, dmNext, dmCall, askVars, dmRestarts>>
  BY DEF WorkerStep, DmBegin, DmRegister, DmReap, DmTurnEnds, DmLingtaiEnds, DmExit, DmBreak,
     DmLine, DmToolRound, DmOnlyRun
<1>2. Len(dmRun') = Len(dmRun)
  <2>1. \E run : DmPut(r, run)
    BY DEF WorkerStep, DmBegin, DmRegister, DmReap, DmTurnEnds, DmLingtaiEnds, DmExit, DmBreak,
       DmLine, DmToolRound
  <2> QED BY <2>1, Facts DEF DmPut, DmInv, RunsInv, RunsTyped
<1>3. RunsInv'
  BY WorkerRenews DEF DmInv
<1>4. BatchInv'
  BY <1>1 DEF DmInv, BatchInv, Batches
<1>5. CallInv'
  BY <1>1, <1>2, CallKept DEF DmInv
<1> QED BY <1>3, <1>4, <1>5 DEF DmInv

LEMMA DrainKeeps ==
  ASSUME DmInv, NEW r \in Runs, DmDrain(r)
  PROVE  DmInv'
<1>1. UNCHANGED <<dmBatch, dmTable, dmNext, dmCall, askVars, dmRestarts>>
  BY DEF DmDrain, DmOnlyRun
<1>2. PICK e \in 0..Len(dmRun), work \in {"busy", "last"} :
        dmRun' = [q \in Runs |-> [dmRun[q] EXCEPT !.buffer = @ /\ q # e,
                                                  !.work = IF q = r THEN work ELSE @]]
  <2>1. dmTable[dmRun[r].handle] \in 0..Len(dmRun)
    BY Facts
  <2> QED BY <2>1 DEF DmDrain
<1>3. dmRun[r].work = "busy"
  BY DEF DmDrain
<1>4. ASSUME NEW q \in Runs
      PROVE  Renewed(dmRun[q], dmRun'[q], dmBatch'[dmRun[q].batch].timedOut)
  <2>1. dmRun'[q] = [dmRun[q] EXCEPT !.buffer = @ /\ q # e,
                                     !.work = IF q = r THEN work ELSE @]
    BY <1>2
  <2>2. dmRun[q] \in RunRecord
    BY Facts
  <2>3. [dmRun[q] EXCEPT !.buffer = @ /\ q # e, !.work = IF q = r THEN work ELSE @]
          \in RunRecord
    BY <2>2 DEF RunRecord
  <2> QED BY <1>3, <2>1, <2>2, <2>3 DEF Renewed, RunRecord
<1>5. BatchesGoOn /\ BatchInv'
  BY <1>1 DEF DmInv, BatchInv, Batches, BatchesGoOn
<1>6. RunsInv' /\ Len(dmRun') = Len(dmRun)
  BY <1>1, <1>2, <1>4, <1>5, AllRenew, Facts
<1>7. CallInv'
  BY <1>1, <1>6, CallKept DEF DmInv
<1> QED BY <1>5, <1>6, <1>7 DEF DmInv

\* A kill scan renews a run: it kills, forgets and gives a reason.
LEMMA ScanRenews ==
  ASSUME NEW run \in RunRecord, NEW inScope \in BOOLEAN, NEW reason \in {"timeout", "reclaim"},
         NEW t \in BOOLEAN, inScope /\ reason = "timeout" => t
  PROVE  Renewed(run, DmScanned(run, inScope, reason), t)
<1>1. CASE ~inScope
  BY <1>1, SameRenewed DEF DmScanned
<1>2. CASE inScope /\ run.tracked
  <2> DEFINE a == [run EXCEPT !.proc = IF @ = "alive" THEN "killed" ELSE @]
             why == IF a.reason = "none" THEN reason ELSE a.reason
             b == [a EXCEPT !.tracked = FALSE, !.reason = why]
  <2>1. DmScanned(run, inScope, reason) = b
    BY <1>2 DEF DmScanned, DmKilled
  <2>2. a \in RunRecord
    BY DEF RunRecord
  <2>3. /\ a.handle = run.handle /\ a.batch = run.batch /\ a.said = run.said
        /\ a.claimed = run.claimed /\ a.work = run.work /\ a.disk = run.disk
        /\ a.reason = run.reason
    BY DEF RunRecord
  <2>7. why \in {"none", "timeout", "reclaim"}
    BY <2>2 DEF RunRecord
  <2>8. why = "timeout" => run.reason = "timeout" \/ reason = "timeout"
    BY <2>3
  <2> HIDE DEF a, why
  <2>4. b \in RunRecord
    BY <2>2, <2>7 DEF RunRecord
  <2>5. /\ b.handle = a.handle /\ b.batch = a.batch /\ b.said = a.said
        /\ b.claimed = a.claimed /\ b.work = a.work /\ b.disk = a.disk
    BY <2>2 DEF RunRecord
  <2>6. b.reason = why
    BY <2>2 DEF RunRecord
  <2> HIDE DEF b
  <2> QED BY <1>2, <2>1, <2>3, <2>4, <2>5, <2>6, <2>8 DEF Renewed
<1>3. CASE inScope /\ ~run.tracked
  <2>1. DmScanned(run, inScope, reason)
          = [run EXCEPT !.missed = @ \/ run.work \in {"queued", "spawned"}]
    BY <1>3 DEF DmScanned
  <2> QED BY <2>1 DEF Renewed, RunRecord
<1> QED BY <1>1, <1>2, <1>3

LEMMA WatchKillKeeps ==
  ASSUME DmInv, NEW b \in Batches, DmWatchKill(b)
  PROVE  DmInv'
<1> DEFINE next == [dmBatch[b] EXCEPT !.watch = "over"]
<1>1. /\ dmBatch' = [dmBatch EXCEPT ![b] = next] /\ dmBatch[b].timedOut
      /\ UNCHANGED <<dmTable, dmNext, dmCall, askVars, dmRestarts>>
  BY Facts DEF DmWatchKill, DmInv, BatchInv
<1>2. dmBatch[b] \in BatchRecord
  BY Facts
<1>3. Moved(dmBatch[b], next)
  BY <1>2 DEF Moved, BatchRecord
<1> HIDE DEF next
<1>4. /\ BatchInv' /\ BatchesGoOn /\ Len(dmBatch') = Len(dmBatch)
      /\ Len(dmBatch) > 0 => dmBatch'[Len(dmBatch)].left = dmBatch[Len(dmBatch)].left
  BY <1>1, <1>3, BatchMoves
<1>5. ASSUME NEW q \in Runs
      PROVE  Renewed(dmRun[q], dmRun'[q], dmBatch'[dmRun[q].batch].timedOut)
  <2>1. dmRun'[q] = DmScanned(dmRun[q], DmOwned(q, b), "timeout")
    BY DEF DmWatchKill
  <2>2. dmRun[q] \in RunRecord /\ dmRun[q].batch \in Batches
    BY Facts
  <2>3. dmBatch'[dmRun[q].batch].timedOut \in BOOLEAN
    <3>1. dmBatch' \in [Batches -> BatchRecord]
      BY <1>1, <1>3, Facts DEF Moved
    <3> QED BY <2>2, <3>1 DEF BatchRecord
  <2>4. DmOwned(q, b) => dmBatch'[dmRun[q].batch].timedOut
    BY <1>1, <1>3, <2>2, Facts DEF DmOwned, Moved
  <2>5. DmOwned(q, b) \in BOOLEAN
    BY DEF DmOwned
  <2> QED BY <2>1, <2>2, <2>3, <2>4, <2>5, ScanRenews
<1>6. dmRun' = [r \in Runs |-> dmRun'[r]]
  BY DEF DmWatchKill
<1>7. RunsInv' /\ Len(dmRun') = Len(dmRun)
  BY <1>1, <1>4, <1>5, <1>6, AllRenew, Facts
<1>8. CallInv'
  BY <1>1, <1>4, <1>7, CallKept DEF DmInv
<1> QED BY <1>4, <1>7, <1>8 DEF DmInv

LEMMA ReclaimKeeps ==
  ASSUME DmInv, DmReclaim
  PROVE  DmInv'
<1>1. UNCHANGED <<dmBatch, dmTable, dmNext, askVars, dmRestarts>> /\ dmCall' = "reclaim"
  BY DEF DmReclaim
<1>2. BatchesGoOn /\ BatchInv'
  BY <1>1 DEF DmInv, BatchInv, Batches, BatchesGoOn
<1>3. ASSUME NEW q \in Runs
      PROVE  Renewed(dmRun[q], dmRun'[q], dmBatch'[dmRun[q].batch].timedOut)
  <2> DEFINE mine == dmTable[dmRun[q].handle] = q
             a == [dmRun[q] EXCEPT !.shut = @ \/ mine]
             t == dmBatch'[dmRun[q].batch].timedOut
  <2>1. dmRun'[q] = DmScanned(a, TRUE, "reclaim")
    BY DEF DmReclaim
  <2>2. dmRun[q] \in RunRecord /\ dmRun[q].batch \in Batches
    BY Facts
  <2>3. t \in BOOLEAN
    BY <1>1, <2>2, Facts DEF BatchRecord
  <2>4. a \in RunRecord
    BY <2>2 DEF RunRecord
  <2>5. /\ a.handle = dmRun[q].handle /\ a.batch = dmRun[q].batch
        /\ a.said = dmRun[q].said /\ a.claimed = dmRun[q].claimed
        /\ a.work = dmRun[q].work /\ a.disk = dmRun[q].disk /\ a.reason = dmRun[q].reason
    BY <2>2 DEF RunRecord
  <2> HIDE DEF a, t
  <2>6. Renewed(a, DmScanned(a, TRUE, "reclaim"), t)
    BY <2>3, <2>4, ScanRenews
  <2>7. Renewed(dmRun[q], DmScanned(a, TRUE, "reclaim"), t)
    BY <2>5, <2>6 DEF Renewed
  <2> QED BY <2>1, <2>7 DEF t
<1>4. dmRun' = [r \in Runs |-> dmRun'[r]]
  BY DEF DmReclaim
<1>5. RunsInv' /\ Len(dmRun') = Len(dmRun)
  BY <1>1, <1>2, <1>3, <1>4, AllRenew
<1>6. CallInv'
  BY <1>1, <1>5 DEF DmInv, CallInv, askVars
<1> QED BY <1>2, <1>5, <1>6 DEF DmInv

LEMMA ReclaimPoolsKeeps ==
  ASSUME DmInv, DmReclaimPools
  PROVE  DmInv'
<1>1. UNCHANGED <<dmTable, dmNext, askVars, dmRestarts>> /\ dmCall' = "clear"
  BY DEF DmReclaimPools
<1>2. ASSUME NEW b \in Batches
      PROVE  Moved(dmBatch[b], dmBatch'[b])
  <2>1. dmBatch'[b] = [dmBatch[b] EXCEPT !.cancel = @ \/ dmBatch[b].pool, !.pool = FALSE]
    BY DEF DmReclaimPools
  <2>2. dmBatch[b] \in BatchRecord
    BY Facts
  <2> QED BY <2>1, <2>2 DEF Moved, BatchRecord
<1>3. dmBatch' \in [Batches -> BatchRecord]
  <2>1. dmBatch' = [b \in Batches |-> dmBatch'[b]]
    BY DEF DmReclaimPools
  <2> QED BY <1>2, <2>1 DEF Moved
<1>4. BatchInv' /\ BatchesGoOn /\ Len(dmBatch') = Len(dmBatch)
  BY <1>2, <1>3, BatchesMove DEF DmInv
<1>5. ASSUME NEW q \in Runs
      PROVE  Renewed(dmRun[q], dmRun'[q], dmBatch'[dmRun[q].batch].timedOut)
  <2>1. dmRun[q] \in RunRecord
    BY Facts
  <2>2. \/ dmRun'[q] = dmRun[q]
        \/ dmRun[q].work = "queued" /\ dmRun'[q] = [dmRun[q] EXCEPT !.work = "dropped"]
    <3>1. dmRun'[q] = IF dmRun[q].work = "queued" /\ dmBatch[dmRun[q].batch].pool
                      THEN [dmRun[q] EXCEPT !.work = "dropped"] ELSE dmRun[q]
      BY DEF DmReclaimPools
    <3> QED BY <3>1
  <2> QED BY <2>1, <2>2, SameRenewed DEF Renewed, RunRecord
<1>6. dmRun' = [r \in Runs |-> dmRun'[r]]
  BY DEF DmReclaimPools
<1>7. RunsInv' /\ Len(dmRun') = Len(dmRun)
  BY <1>1, <1>4, <1>5, <1>6, AllRenew
<1>8. CallInv'
  BY <1>1, <1>7 DEF DmInv, CallInv, askVars
<1> QED BY <1>4, <1>7, <1>8 DEF DmInv

LEMMA RestartKeeps ==
  ASSUME DmInv, DmRestart
  PROVE  DmInv'
<1>1. /\ dmRestarts < MaxRestarts /\ dmRestarts' = dmRestarts + 1
      /\ dmTable' = [h \in Handles |-> 0] /\ dmNext' = 1 /\ dmCall' = "none"
      /\ dmAsk' = 0 /\ dmReply' = "silent"
  BY DEF DmRestart
<1>2. ASSUME NEW b \in Batches
      PROVE  Moved(dmBatch[b], dmBatch'[b])
  <2>1. dmBatch'[b] = [dmBatch[b] EXCEPT !.pool = FALSE,
                                         !.watch = IF @ = "none" THEN "none" ELSE "over"]
    BY DEF DmRestart
  <2>2. dmBatch[b] \in BatchRecord
    BY Facts
  <2> QED BY <2>1, <2>2 DEF Moved, BatchRecord
<1>3. dmBatch' \in [Batches -> BatchRecord]
  <2>1. dmBatch' = [b \in Batches |-> dmBatch'[b]]
    BY DEF DmRestart
  <2> QED BY <1>2, <2>1 DEF Moved
<1>4. BatchInv' /\ BatchesGoOn /\ Len(dmBatch') = Len(dmBatch)
  BY <1>2, <1>3, BatchesMove DEF DmInv
<1>5. ASSUME NEW q \in Runs
      PROVE  Renewed(dmRun[q], dmRun'[q], dmBatch'[dmRun[q].batch].timedOut)
  <2> DEFINE work == IF dmRun[q].work \in {"over", "refused"} THEN dmRun[q].work ELSE "lost"
             disk == IF dmRun[q].disk = "running" THEN "failed" ELSE dmRun[q].disk
             a == [dmRun[q] EXCEPT !.work = work, !.disk = disk]
             b == [a EXCEPT !.tracked = FALSE, !.buffer = FALSE]
  <2>1. dmRun'[q] = b
    BY DEF DmRestart
  <2>2. dmRun[q] \in RunRecord
    BY Facts
  <2>7. /\ work \in {"over", "refused", "lost"} /\ disk \in Settled
        /\ work = "over" <=> dmRun[q].work = "over"
        /\ disk = dmRun[q].disk \/ (dmRun[q].disk = "running" /\ disk = "failed")
    <3>1. dmRun[q].disk \in {"running"} \cup Settled
      BY <2>2 DEF RunRecord
    <3>2. disk \in Settled
      BY <3>1 DEF Settled
    <3> QED BY <3>2
  <2> HIDE DEF work, disk
  <2>3. a \in RunRecord
    BY <2>2, <2>7 DEF RunRecord
  <2>4. /\ a.handle = dmRun[q].handle /\ a.batch = dmRun[q].batch
        /\ a.said = dmRun[q].said /\ a.claimed = dmRun[q].claimed
        /\ a.reason = dmRun[q].reason /\ a.disk = disk /\ a.work = work
    BY <2>2 DEF RunRecord
  <2> HIDE DEF a
  <2>5. b \in RunRecord
    BY <2>3 DEF RunRecord
  <2>6. /\ b.handle = a.handle /\ b.batch = a.batch /\ b.said = a.said
        /\ b.claimed = a.claimed /\ b.reason = a.reason /\ b.disk = a.disk
        /\ b.work = a.work
    BY <2>3 DEF RunRecord
  <2> HIDE DEF b
  <2> QED BY <2>1, <2>4, <2>5, <2>6, <2>7 DEF Renewed
<1>6. dmRun' = [r \in Runs |-> dmRun'[r]]
  BY DEF DmRestart
<1>7. RunsInv' /\ Len(dmRun') = Len(dmRun)
  BY <1>1, <1>4, <1>5, <1>6, AllRenew
<1>8. CallInv'
  BY <1>1, <1>7, Facts, DaemonAssumption DEF DmInv, CallInv
<1> QED BY <1>4, <1>7, <1>8 DEF DmInv

-----------------------------------------------------------------------------
\* Steps that leave the runs alone.
LEMMA RunsStay ==
  ASSUME DmInv, BatchesGoOn, UNCHANGED dmRun,
         dmTable' \in [Handles -> 0..Len(dmRun)], Entered'
  PROVE  RunsInv'
<1>1. /\ RunsTyped /\ Silent /\ Claims /\ EndAnnounced /\ TruthTold /\ TimeoutIsOwn
      /\ Len(dmBatch) \in Nat /\ Len(dmBatch') \in Nat /\ Runs' = Runs
  BY DEF DmInv, RunsInv, BatchesGoOn, Runs
<1>2. RunsTyped'
  BY <1>1 DEF RunsTyped, BatchesGoOn, Batches
<1>3. Silent' /\ Claims' /\ TruthTold'
  BY <1>1 DEF Silent, Claims, TruthTold
<1>4. EndAnnounced'
  BY <1>1 DEF EndAnnounced, Shares
<1>5. TimeoutIsOwn'
  BY <1>1 DEF TimeoutIsOwn, BatchesGoOn, RunsTyped
<1> QED BY <1>2, <1>3, <1>4, <1>5 DEF RunsInv

LEMMA EmanateKeeps ==
  ASSUME DmInv, NEW backend \in Backends, NEW n \in 1..MaxTasks, DmEmanate(backend, n)
  PROVE  DmInv'
<1> DEFINE N == Len(dmBatch)
           new == [backend |-> backend, left |-> n, stage |-> "filling",
                   cancel |-> FALSE, timedOut |-> FALSE, pool |-> TRUE, watch |-> "none"]
<1>0. /\ N \in Nat /\ dmBatch \in [Batches -> BatchRecord] /\ N < MaxBatches
      /\ Len(dmRun) \in Nat /\ MaxTasks \in Nat /\ MaxBatches \in Nat /\ MaxRuns \in Nat
      /\ Len(dmRun) + n <= MaxRuns /\ n \in Nat /\ n > 0
      /\ BatchInv /\ CallInv /\ RunsInv
  BY Facts DEF DmEmanate, DmInv
<1>1. /\ dmTable' = DmPruned /\ dmCall' = "emanate"
      /\ UNCHANGED <<dmRun, dmNext, askVars, dmRestarts>>
      /\ dmBatch' = [b \in 1..N + 1 |->
           IF b <= N THEN [dmBatch[b] EXCEPT !.pool = @ /\ ~dmBatch[b].cancel] ELSE new]
  BY DEF DmEmanate
<1>2. new \in BatchRecord
  BY <1>0 DEF BatchRecord
<1>3. ASSUME NEW b \in 1..N
      PROVE  /\ dmBatch'[b] \in BatchRecord
             /\ dmBatch'[b].timedOut = dmBatch[b].timedOut
             /\ dmBatch'[b].watch = dmBatch[b].watch
  <2>1. dmBatch[b] \in BatchRecord
    BY <1>0 DEF Batches
  <2>2. dmBatch'[b] = [dmBatch[b] EXCEPT !.pool = @ /\ ~dmBatch[b].cancel]
    BY <1>0, <1>1
  <2> QED BY <2>1, <2>2 DEF BatchRecord
<1>4. dmBatch'[N + 1] = new
  BY <1>0, <1>1
<1>5. new.left = n /\ new.watch = "none"
  OBVIOUS
<1> HIDE DEF new
<1>51. \A b \in 1..N + 1 : b \in 1..N \/ b = N + 1
  BY <1>0
<1>6. dmBatch' \in [1..N + 1 -> BatchRecord]
  <2>1. \A b \in 1..N + 1 : dmBatch'[b] \in BatchRecord
    BY <1>2, <1>3, <1>4, <1>51
  <2>2. dmBatch' = [b \in 1..N + 1 |-> dmBatch'[b]]
    BY <1>1
  <2> QED BY <2>1, <2>2
<1>7. dmBatch' \in Seq(BatchRecord) /\ Len(dmBatch') = N + 1
  BY <1>0, <1>6, SeqOf
<1>8. BatchInv'
  <2>1. \A b \in 1..N + 1 : dmBatch'[b].watch = "fired" => dmBatch'[b].timedOut
    BY <1>0, <1>3, <1>4, <1>5, <1>51 DEF BatchInv, Batches
  <2> QED BY <1>0, <1>7, <2>1 DEF BatchInv, Batches
<1>9. BatchesGoOn
  BY <1>0, <1>3, <1>7 DEF BatchesGoOn, BatchInv, Batches
<1>10. dmTable' \in [Handles -> 0..Len(dmRun)] /\ Entered'
  BY <1>0, <1>1, Facts DEF DmPruned, Entered, RunsInv
<1>11. RunsInv'
  BY <1>1, <1>9, <1>10, RunsStay
<1>12. CallInv'
  BY <1>0, <1>1, <1>4, <1>5, <1>7 DEF CallInv, askVars
<1> QED BY <1>8, <1>11, <1>12 DEF DmInv

\* A task of a batch is entered.
LEMMA LeftSet ==
  ASSUME NEW batch \in BatchRecord, NEW k \in 0..MaxTasks
  PROVE  LET next == [batch EXCEPT !.left = k]
         IN /\ next \in BatchRecord /\ next.left = k
            /\ next.timedOut = batch.timedOut /\ next.watch = batch.watch
BY DEF BatchRecord

LEMMA EnterKeeps ==
  ASSUME DmInv, DmEnter
  PROVE  DmInv'
<1> DEFINE N == Len(dmBatch)
           next == [dmBatch[N] EXCEPT !.left = @ - 1]
<1>0. /\ N \in Nat /\ N > 0 /\ dmBatch[N] \in BatchRecord /\ dmBatch[N].left > 0
      /\ dmBatch[N].left \in 0..MaxTasks /\ MaxTasks \in Nat
      /\ Len(dmRun) \in Nat /\ Len(dmRun) > 0 /\ MaxRuns \in Nat
      /\ Len(dmRun) + dmBatch[N].left <= MaxRuns + 1
      /\ dmRun[Len(dmRun)].handle \in Handles /\ dmTable \in [Handles -> 0..Len(dmRun)]
      /\ CallInv /\ RunsInv /\ dmCall = "enter"
  <2>1. /\ N \in Nat /\ N > 0 /\ dmBatch[N].left > 0 /\ MaxTasks \in Nat
        /\ Len(dmRun) \in Nat /\ Len(dmRun) > 0 /\ MaxRuns \in Nat
        /\ Len(dmRun) + dmBatch[N].left <= MaxRuns + 1
        /\ CallInv /\ RunsInv /\ dmCall = "enter"
    BY Facts DEF DmEnter, DmInv, CallInv
  <2>2. dmBatch[N] \in BatchRecord
    BY <2>1, Facts DEF Batches
  <2>3. dmBatch[N].left \in 0..MaxTasks
    BY <2>2 DEF BatchRecord
  <2> QED BY <2>1, <2>2, <2>3, Facts DEF Runs
<1>1. /\ dmTable' = [dmTable EXCEPT ![dmRun[Len(dmRun)].handle] = Len(dmRun)]
      /\ dmBatch' = [dmBatch EXCEPT ![N] = next]
      /\ dmCall' = "emanate"
      /\ UNCHANGED <<dmRun, dmNext, askVars, dmRestarts>>
  BY DEF DmEnter
<1>2. /\ next \in BatchRecord /\ next.left = dmBatch[N].left - 1
      /\ next.timedOut = dmBatch[N].timedOut /\ next.watch = dmBatch[N].watch
  <2>1. next = [dmBatch[N] EXCEPT !.left = dmBatch[N].left - 1]
    OBVIOUS
  <2>2. dmBatch[N].left - 1 \in 0..MaxTasks
    BY <1>0
  <2> QED BY <1>0, <2>1, <2>2, LeftSet
<1>20. dmBatch \in [1..N -> BatchRecord] /\ N \in 1..N
  BY <1>0, Facts DEF Batches
<1>21. Batches = 1..N
  BY DEF Batches
<1> HIDE DEF next, N
<1>3. dmBatch' \in [Batches -> BatchRecord] /\ dmBatch'[N] = next
      /\ \A b \in Batches : /\ dmBatch'[b].timedOut = dmBatch[b].timedOut
                            /\ dmBatch'[b].watch = dmBatch[b].watch
  BY <1>1, <1>2, <1>20, <1>21
<1>4. dmBatch' \in Seq(BatchRecord) /\ Len(dmBatch') = N
  BY <1>0, <1>3, <1>21, SeqOf
<1>5. BatchInv' /\ BatchesGoOn
  <2>1. Batches' = Batches /\ Len(dmBatch) = N
    BY <1>4, <1>21 DEF Batches, N
  <2> QED BY <1>0, <1>3, <1>4, <2>1 DEF DmInv, BatchInv, BatchesGoOn
<1>6. dmTable' \in [Handles -> 0..Len(dmRun)] /\ Entered'
  BY <1>0, <1>1 DEF Entered, RunsInv
<1>7. RunsInv'
  BY <1>1, <1>5, <1>6, RunsStay
<1>8. CallInv'
  BY <1>0, <1>1, <1>2, <1>3, <1>4 DEF CallInv, askVars
<1> QED BY <1>5, <1>7, <1>8 DEF DmInv

LEMMA DispatchKeeps ==
  ASSUME DmInv, DmDispatch
  PROVE  DmInv'
<1> DEFINE N == Len(dmBatch)
           on == dmBatch[N].cancel \/ DmAllOver(N, dmRun)
           next == [dmBatch[N] EXCEPT !.stage = "armed", !.watch = "armed", !.cancel = on]
<1>1. /\ CallInv /\ RunsInv /\ dmCall = "emanate" /\ N \in Batches
      /\ dmBatch[N] \in BatchRecord
  BY Facts DEF DmInv, CallInv, DmDispatch, Batches
<1>2. /\ dmBatch' = [dmBatch EXCEPT ![N] = next] /\ dmCall' = "none"
      /\ UNCHANGED <<dmRun, dmTable, dmNext, askVars, dmRestarts>>
  BY DEF DmDispatch
<1>3. on \in BOOLEAN
  BY <1>1 DEF BatchRecord, DmAllOver
<1> HIDE DEF on
<1>4. Moved(dmBatch[N], next)
  BY <1>1, <1>3 DEF Moved, BatchRecord
<1> HIDE DEF next
<1>5. BatchInv' /\ BatchesGoOn /\ Len(dmBatch') = N
  BY <1>1, <1>2, <1>4, BatchMoves
<1>6. RunsInv'
  BY <1>1, <1>2, <1>5, RunsStay, Facts DEF RunsInv, Entered
<1>7. CallInv'
  BY <1>1, <1>2 DEF CallInv, askVars
<1> QED BY <1>5, <1>6, <1>7 DEF DmInv

LEMMA ExpireKeeps ==
  ASSUME DmInv, NEW b \in Batches, DmExpire(b)
  PROVE  DmInv'
<1> DEFINE why == IF dmBatch[b].backend \in Piped THEN "fired" ELSE "over"
           late == [dmBatch[b] EXCEPT !.watch = why, !.timedOut = TRUE, !.cancel = TRUE]
           over == [dmBatch[b] EXCEPT !.watch = "over"]
           next == IF dmBatch[b].cancel THEN over ELSE late
<1>1. /\ CallInv /\ RunsInv /\ dmBatch[b] \in BatchRecord
  BY Facts DEF DmInv
<1>2. /\ dmBatch' = [dmBatch EXCEPT ![b] = next]
      /\ UNCHANGED <<dmRun, dmTable, dmNext, dmCall, askVars, dmRestarts>>
  BY DEF DmExpire
<1>3. why \in {"fired", "over"}
  OBVIOUS
<1> HIDE DEF why
<1>4. Moved(dmBatch[b], over)
  BY <1>1 DEF Moved, BatchRecord
<1>5. Moved(dmBatch[b], late)
  BY <1>1, <1>3 DEF Moved, BatchRecord
<1> HIDE DEF over, late
<1>6. Moved(dmBatch[b], next)
  BY <1>4, <1>5
<1> HIDE DEF next
<1>7. /\ BatchInv' /\ BatchesGoOn /\ Len(dmBatch') = Len(dmBatch)
      /\ Len(dmBatch) > 0 => dmBatch'[Len(dmBatch)].left = dmBatch[Len(dmBatch)].left
  BY <1>2, <1>6, BatchMoves
<1>8. RunsInv'
  BY <1>1, <1>2, <1>7, RunsStay, Facts DEF RunsInv, Entered
<1>9. CallInv'
  BY <1>1, <1>2, <1>7, CallKept
<1> QED BY <1>7, <1>8, <1>9 DEF DmInv

LEMMA ClearKeeps ==
  ASSUME DmInv, DmReclaimClear
  PROVE  DmInv'
<1>1. /\ dmTable' = [h \in Handles |-> 0] /\ dmNext' = 1 /\ dmCall' = "none"
      /\ UNCHANGED <<dmRun, dmBatch, askVars, dmRestarts>>
  BY DEF DmReclaimClear
<1>2. BatchInv' /\ BatchesGoOn
  BY <1>1 DEF DmInv, BatchInv, Batches, BatchesGoOn
<1>3. dmTable' \in [Handles -> 0..Len(dmRun)] /\ Entered'
  BY <1>1, Facts DEF Entered
<1>4. RunsInv'
  BY <1>1, <1>2, <1>3, RunsStay
<1>5. CallInv'
  BY <1>1, Facts DEF DmInv, CallInv, askVars
<1> QED BY <1>2, <1>4, <1>5 DEF DmInv

LEMMA AskKeeps ==
  ASSUME DmInv, NEW h \in Handles, DmAskCall(h)
  PROVE  DmInv'
<1> DEFINE e == dmTable[h]
<1>1. e \in Runs /\ e \in 0..MaxRuns
  BY Facts DEF DmAskCall, Runs
<1>2. UNCHANGED <<dmBatch, dmTable, dmNext, dmCall, dmRestarts>>
  BY DEF DmAskCall
<1> HIDE DEF e
<1>3. BatchInv' /\ BatchesGoOn
  BY <1>2 DEF DmInv, BatchInv, Batches, BatchesGoOn
<1>4. CASE DmAskCli(e)
  <2>1. UNCHANGED dmRun /\ dmAsk' = e /\ dmReply' = "silent"
    BY <1>4 DEF DmAskCli
  <2>2. RunsInv'
    BY <1>2, <1>3, <2>1, RunsStay, Facts DEF DmInv, RunsInv, Entered
  <2>3. CallInv'
    BY <1>1, <1>2, <2>1 DEF DmInv, CallInv
  <2> QED BY <1>3, <2>2, <2>3 DEF DmInv
<1>5. CASE DmAskLingtai(e)
  <2> DEFINE next == [dmRun[e] EXCEPT !.buffer = TRUE]
  <2>1. DmPut(e, next) /\ UNCHANGED askVars
    BY <1>5 DEF DmAskLingtai
  <2>2. dmRun[e] \in RunRecord
    BY <1>1, Facts
  <2>3. Renewed(dmRun[e], next, dmBatch[dmRun[e].batch].timedOut)
    BY <2>2 DEF Renewed, RunRecord
  <2>4. RunsInv'
    BY <1>1, <1>2, <2>1, <2>3, RunRenews DEF DmInv
  <2>5. Len(dmRun') = Len(dmRun)
    BY <2>1, Facts DEF DmPut, DmInv, RunsInv, RunsTyped
  <2>6. CallInv'
    BY <1>2, <2>1, <2>5, CallKept DEF DmInv
  <2> QED BY <1>3, <2>4, <2>6 DEF DmInv
<1> QED BY <1>4, <1>5 DEF DmAskCall, e

LEMMA AskEndsKeeps ==
  ASSUME DmInv, DmAskEnds
  PROVE  DmInv'
<1>1. UNCHANGED <<dmRun, dmBatch, dmTable, dmNext, dmCall, dmRestarts>> /\ dmAsk' = 0
  BY DEF DmAskEnds
<1>2. dmReply' \in {"silent", "failed", "completed", "cancelled"}
  <2>1. \A x : DmReply(x, dmAsk) \in {"silent", "failed", "completed", "cancelled"}
    BY DEF DmReply, DmClaudeReply, DmCodexReply, DmOpencodeReply, DmCursorReply,
               DmInteractiveReply, DmReplyIf
  <2> QED BY <2>1 DEF DmAskEnds
<1>3. BatchInv' /\ BatchesGoOn
  BY <1>1 DEF DmInv, BatchInv, Batches, BatchesGoOn
<1>4. RunsInv'
  BY <1>1, <1>3, RunsStay, Facts DEF DmInv, RunsInv, Entered
<1>5. CallInv'
  BY <1>1, <1>2, Facts DEF DmInv, CallInv
<1> QED BY <1>3, <1>4, <1>5 DEF DmInv

-----------------------------------------------------------------------------
\* A task's directory: a run is added to the others, of which nothing is known.
LEMMA RunAdded ==
  ASSUME DmInv, BatchesGoOn, UNCHANGED dmTable, Len(dmRun) < MaxRuns, Len(dmBatch) > 0,
         dmNext \in Handles, NEW work \in {"queued", "refused"},
         NEW disk \in {"running", "failed"},
         dmRun' = Append(dmRun, DmNewRun(work, disk))
  PROVE  RunsInv' /\ Len(dmRun') = Len(dmRun) + 1
<1> DEFINE N == Len(dmRun)
           new == DmNewRun(work, disk)
<1>0. /\ RunsTyped /\ Entered /\ Silent /\ Claims /\ EndAnnounced /\ TruthTold /\ TimeoutIsOwn
      /\ N \in Nat /\ MaxRuns \in Nat /\ Len(dmBatch) \in 1..MaxBatches
      /\ Len(dmBatch') \in Nat /\ Len(dmBatch) <= Len(dmBatch')
      /\ Len(dmBatch) \in Nat
  BY Facts DEF DmInv, RunsInv, BatchesGoOn
<1>1. new \in RunRecord
  BY <1>0 DEF DmNewRun, RunRecord, Settled
<1>2. /\ new.work # "over" /\ new.said.status = "none" /\ ~new.claimed
      /\ new.disk # "timeout" /\ new.reason # "timeout" /\ new.batch = Len(dmBatch)
  BY DEF DmNewRun
<1> HIDE DEF new
<1>3. /\ dmRun' \in Seq(RunRecord) /\ Len(dmRun') = N + 1 /\ dmRun'[N + 1] = new
      /\ \A r \in Runs : dmRun'[r] = dmRun[r]
  BY <1>0, <1>1 DEF new, RunsTyped, Runs
<1>4. Runs' = Runs \cup {N + 1} /\ N + 1 \notin Runs
  BY <1>0, <1>3 DEF Runs
<1>5. RunsTyped'
  <2>1. dmTable' \in [Handles -> 0..N + 1]
    BY <1>0 DEF RunsTyped
  <2>2. \A r \in Runs' : dmRun'[r].batch \in Batches'
    <3>1. ASSUME NEW r \in Runs
          PROVE  dmRun'[r].batch \in Batches'
      <4>1. dmRun[r].batch \in 1..Len(dmBatch)
        BY <1>0 DEF RunsTyped, Batches
      <4>2. /\ Len(dmBatch) \in Nat /\ Len(dmBatch') \in Nat
            /\ Len(dmBatch) <= Len(dmBatch')
        BY <1>0
      <4>3. \A i \in 1..Len(dmBatch) : i \in 1..Len(dmBatch')
        BY <4>2
      <4> QED BY <1>3, <4>1, <4>3 DEF Batches
    <3>2. dmRun'[N + 1].batch \in Batches'
      BY <1>0, <1>2, <1>3 DEF Batches
    <3> QED BY <1>4, <3>1, <3>2
  <2>3. dmTable' \in [Handles -> 0..Len(dmRun')] /\ Len(dmRun') <= MaxRuns
    BY <1>0, <1>3, <2>1
  <2> QED BY <1>3, <2>2, <2>3 DEF RunsTyped
<1>6. Entered'
  BY <1>0, <1>3 DEF Entered, RunsTyped, Runs
<1>7. Silent'
  BY <1>0, <1>2, <1>3, <1>4 DEF Silent
<1>8. Claims'
  <2>1. ASSUME NEW e \in Runs', dmRun'[e].claimed
        PROVE  \E q \in Runs' :
                 /\ dmRun'[q].work = "over" /\ dmRun'[q].handle = dmRun'[e].handle
                 /\ dmRun'[q].said.named = e /\ dmRun'[q].said.status # "none"
    <3>1. e \in Runs /\ dmRun[e].claimed
      BY <1>2, <1>3, <1>4, <2>1
    <3>2. PICK q \in Runs : /\ dmRun[q].work = "over" /\ dmRun[q].handle = dmRun[e].handle
                            /\ dmRun[q].said.named = e /\ dmRun[q].said.status # "none"
      BY <1>0, <3>1 DEF Claims
    <3> QED BY <1>3, <1>4, <3>1, <3>2
  <2> QED BY <2>1 DEF Claims
<1>9. EndAnnounced'
  <2> SUFFICES ASSUME NEW r \in Runs', dmRun'[r].work = "over"
               PROVE  \E q \in Runs' :
                        /\ dmRun'[q].handle = dmRun'[r].handle /\ dmRun'[q].said.status # "none"
                        /\ Shares(r)' \/ dmRun'[q].said.named \in {r, 0}
    BY DEF EndAnnounced
  <2>1. r \in Runs /\ dmRun[r].work = "over"
    BY <1>2, <1>3, <1>4
  <2>2. PICK q \in Runs :
               /\ dmRun[q].handle = dmRun[r].handle /\ dmRun[q].said.status # "none"
               /\ Shares(r) \/ dmRun[q].said.named \in {r, 0}
    BY <1>0, <2>1 DEF EndAnnounced
  <2>3. Shares(r) => Shares(r)'
    BY <1>3, <1>4, <2>1 DEF Shares
  <2> QED BY <1>3, <1>4, <2>1, <2>2, <2>3
<1>10. TruthTold'
  <2>1. \A r \in Runs' : dmRun'[r].work = "over" => r \in Runs /\ dmRun'[r] = dmRun[r]
    BY <1>2, <1>3, <1>4
  <2> QED BY <1>0, <2>1 DEF TruthTold
<1>11. TimeoutIsOwn'
  BY <1>0, <1>2, <1>3, <1>4 DEF TimeoutIsOwn, BatchesGoOn, RunsTyped
<1> QED BY <1>3, <1>5, <1>6, <1>7, <1>8, <1>9, <1>10, <1>11 DEF RunsInv

\* Both ways to add one are steps of a call that has a task left.
LEMMA TaskLeft ==
  ASSUME DmInv, dmCall = "emanate", dmBatch[Len(dmBatch)].left > 0
  PROVE  /\ Len(dmBatch) \in Batches /\ dmBatch[Len(dmBatch)] \in BatchRecord
         /\ Len(dmBatch) > 0 /\ Len(dmBatch) \in Nat
         /\ dmBatch[Len(dmBatch)].left \in Nat
         /\ Len(dmRun) \in Nat /\ MaxRuns \in Nat /\ Len(dmRun) < MaxRuns
         /\ Len(dmRun) + dmBatch[Len(dmBatch)].left <= MaxRuns
         /\ dmNext \in Handles /\ dmNext <= Len(dmRun) + 1
<1> DEFINE N == Len(dmBatch)
<1>1. N \in Nat /\ N > 0 /\ N \in Batches /\ Len(dmRun) + dmBatch[N].left <= MaxRuns
      /\ Len(dmRun) \in Nat /\ MaxRuns \in Nat /\ dmNext \in 1..MaxRuns + 1
      /\ dmNext <= Len(dmRun) + 1
  BY Facts DEF DmInv, CallInv, Batches
<1>2. dmBatch[N] \in BatchRecord
  BY <1>1, Facts
<1>3. dmBatch[N].left \in Nat
  BY <1>2 DEF BatchRecord
<1> QED BY <1>1, <1>2, <1>3 DEF Handles

LEMMA SubmitKeeps ==
  ASSUME DmInv, DmSubmit
  PROVE  DmInv'
<1>1. /\ dmCall = "emanate" /\ dmBatch[Len(dmBatch)].left > 0
      /\ dmRun' = Append(dmRun, DmNewRun("queued", "running"))
      /\ dmNext' = dmNext + 1 /\ dmCall' = "enter"
      /\ UNCHANGED <<dmBatch, dmTable, askVars, dmRestarts>>
  BY DEF DmSubmit
<1>2. BatchInv' /\ BatchesGoOn
  BY <1>1 DEF DmInv, BatchInv, Batches, BatchesGoOn
<1>3. RunsInv' /\ Len(dmRun') = Len(dmRun) + 1
  BY <1>1, <1>2, TaskLeft, RunAdded
<1>4. CallInv'
  BY <1>1, <1>3, TaskLeft DEF DmInv, CallInv, askVars, Handles
<1> QED BY <1>2, <1>3, <1>4 DEF DmInv

LEMMA RefuseKeeps ==
  ASSUME DmInv, DmRefuse
  PROVE  DmInv'
<1> DEFINE N == Len(dmBatch)
           next == [dmBatch[N] EXCEPT !.stage = "refused"]
<1>1. /\ dmCall = "emanate" /\ dmBatch[N].left > 0
      /\ dmRun' = Append(dmRun, DmNewRun("refused", "failed"))
      /\ dmNext' = dmNext + 1 /\ dmCall' = "none"
      /\ dmBatch' = [dmBatch EXCEPT ![N] = next]
      /\ UNCHANGED <<dmTable, askVars, dmRestarts>>
  BY DEF DmRefuse
<1>2. N \in Batches /\ dmBatch[N] \in BatchRecord
  BY <1>1, TaskLeft
<1>3. Moved(dmBatch[N], next)
  BY <1>2 DEF Moved, BatchRecord
<1> HIDE DEF next
<1>4. BatchInv' /\ BatchesGoOn
  BY <1>1, <1>2, <1>3, BatchMoves
<1>5. RunsInv' /\ Len(dmRun') = Len(dmRun) + 1
  BY <1>1, <1>4, TaskLeft, RunAdded
<1>6. CallInv'
  BY <1>1, <1>5, TaskLeft DEF DmInv, CallInv, askVars, Handles
<1> QED BY <1>4, <1>5, <1>6 DEF DmInv

-----------------------------------------------------------------------------
\* The announcement of an end: of the directory that the handle leads to, unless
\* one was made of it before.
LEMMA AnnounceSteps ==
  ASSUME DmInv, NEW r \in Runs, DmAnnounce(r)
  PROVE  LET e      == dmTable[dmRun[r].handle]
             status == DmStatus(e, DmResult(r))
             said   == IF e # 0 /\ dmRun[e].claimed THEN dmRun[r].said
                       ELSE [named |-> e, status |-> status]
         IN /\ dmRun[r].work \in {"ended", "dropped"}
            /\ e = 0 \/ (e \in Runs /\ dmRun[e].handle = dmRun[r].handle)
            /\ status \in Settled /\ said \in [named : 0..MaxRuns, status : Settled \cup {"none"}]
            /\ e \in {r, 0} =>
                 \/ status = dmRun[r].disk
                 \/ e = 0 /\ status = "cancelled" /\ dmRun[r].disk = "timeout"
                 \/ status = "failed" /\ dmRun[r].disk = "running"
            /\ dmRun' = [q \in Runs |->
                 [dmRun[q] EXCEPT !.claimed = @ \/ q = e,
                                  !.work = IF q = r THEN "over" ELSE @,
                                  !.shut = @ /\ q # r,
                                  !.said = IF q = r THEN said ELSE @]]
            /\ UNCHANGED <<dmTable, dmNext, dmCall, askVars, dmRestarts>>
<1> DEFINE e      == dmTable[dmRun[r].handle]
           status == DmStatus(e, DmResult(r))
           said   == IF e # 0 /\ dmRun[e].claimed THEN dmRun[r].said
                     ELSE [named |-> e, status |-> status]
<1>1. \A run \in RunRecord :
        /\ run.disk \in {"running"} \cup Settled
        /\ run.said \in [named : 0..MaxRuns, status : Settled \cup {"none"}]
  BY DEF RunRecord
<1>2. \A q \in Runs : dmRun[q].disk \in {"running"} \cup Settled
  BY <1>1, Facts
<1>3. e \in 0..Len(dmRun) /\ (e = 0 \/ (e \in Runs /\ dmRun[e].handle = dmRun[r].handle))
  BY Facts DEF DmInv, RunsInv, Entered, Runs
<1>4. DmResult(r) = IF dmRun[r].disk \in {"running", "failed"} THEN "raised"
                    ELSE IF dmRun[r].disk \in {"cancelled", "timeout"} THEN "cancelled"
                    ELSE "text"
  BY <1>2 DEF DmResult, Settled
<1> HIDE DEF e
<1>5. status = IF DmResult(r) = "raised" THEN "failed"
               ELSE IF e # 0 /\ dmRun[e].disk # "running" THEN dmRun[e].disk
               ELSE IF e # 0 /\ dmBatch[dmRun[e].batch].timedOut THEN "timeout"
               ELSE IF DmResult(r) = "cancelled" \/ (e # 0 /\ DmCancelled(e))
                    THEN "cancelled" ELSE "done"
  BY DEF DmStatus
<1>6. status \in Settled
  BY <1>2, <1>3, <1>5 DEF Settled
<1>7. e \in {r, 0} =>
        \/ status = dmRun[r].disk
        \/ e = 0 /\ status = "cancelled" /\ dmRun[r].disk = "timeout"
        \/ status = "failed" /\ dmRun[r].disk = "running"
  BY <1>2, <1>4, <1>5 DEF Settled
<1>8. said \in [named : 0..MaxRuns, status : Settled \cup {"none"}]
  BY <1>1, <1>3, <1>6, Facts
<1> QED BY <1>3, <1>6, <1>7, <1>8 DEF DmAnnounce, e

LEMMA AnnounceKeeps ==
  ASSUME DmInv, NEW r \in Runs, DmAnnounce(r)
  PROVE  DmInv'
<1> DEFINE Saids == [named : 0..MaxRuns, status : Settled \cup {"none"}]
           e      == dmTable[dmRun[r].handle]
           status == DmStatus(e, DmResult(r))
           said   == IF e # 0 /\ dmRun[e].claimed THEN dmRun[r].said
                     ELSE [named |-> e, status |-> status]
<1>1. /\ dmRun[r].work \in {"ended", "dropped"}
      /\ e = 0 \/ (e \in Runs /\ dmRun[e].handle = dmRun[r].handle)
      /\ status \in Settled /\ said \in Saids
      /\ e \in {r, 0} =>
           \/ status = dmRun[r].disk
           \/ e = 0 /\ status = "cancelled" /\ dmRun[r].disk = "timeout"
           \/ status = "failed" /\ dmRun[r].disk = "running"
      /\ dmRun' = [q \in Runs |->
           [dmRun[q] EXCEPT !.claimed = @ \/ q = e,
                            !.work = IF q = r THEN "over" ELSE @,
                            !.shut = @ /\ q # r,
                            !.said = IF q = r THEN said ELSE @]]
      /\ UNCHANGED <<dmTable, dmNext, dmCall, askVars, dmRestarts>>
  BY AnnounceSteps
<1>0. /\ e # 0 /\ dmRun[e].claimed => said = dmRun[r].said
      /\ e = 0 \/ ~dmRun[e].claimed => said.named = e /\ said.status = status
  OBVIOUS
<1>01. dmTable' = dmTable /\ (e # 0 => e \in Runs /\ dmRun[e].handle = dmRun[r].handle)
  BY <1>1
<1> HIDE DEF e, status, said
<1>2. /\ RunsTyped /\ Entered /\ Silent /\ Claims /\ EndAnnounced /\ TruthTold /\ TimeoutIsOwn
      /\ Len(dmRun) \in Nat /\ dmRun \in [Runs -> RunRecord] /\ Len(dmBatch) \in Nat
      /\ dmRun[r].work # "over" /\ dmRun[r].said.status = "none"
  BY <1>1, Facts DEF DmInv, RunsInv, Silent
\* What becomes of each run.
<1>4. ASSUME NEW q \in Runs
      PROVE  /\ dmRun'[q] \in RunRecord
             /\ dmRun'[q].handle = dmRun[q].handle /\ dmRun'[q].batch = dmRun[q].batch
             /\ dmRun'[q].disk = dmRun[q].disk /\ dmRun'[q].reason = dmRun[q].reason
             /\ dmRun'[q].claimed <=> dmRun[q].claimed \/ q = e
             /\ dmRun'[q].work = IF q = r THEN "over" ELSE dmRun[q].work
             /\ dmRun'[q].said = IF q = r THEN said ELSE dmRun[q].said
  <2> DEFINE claimed == dmRun[q].claimed \/ q = e
             work == IF q = r THEN "over" ELSE dmRun[q].work
             shut == dmRun[q].shut /\ q # r
             text == IF q = r THEN said ELSE dmRun[q].said
             a == [dmRun[q] EXCEPT !.claimed = claimed, !.work = work]
             c == [a EXCEPT !.shut = shut, !.said = text]
  <2>1. dmRun'[q] = c
    BY <1>1
  <2>2. dmRun[q] \in RunRecord
    BY <1>2
  <2>3. claimed \in BOOLEAN /\ shut \in BOOLEAN /\ dmRun[q].said \in Saids
    BY <2>2 DEF RunRecord
  <2>4. text \in Saids /\ work \in {dmRun[q].work, "over"}
    BY <1>1, <2>3
  <2>5. claimed <=> (dmRun[q].claimed \/ q = e)
    OBVIOUS
  <2> HIDE DEF claimed, shut, work, text
  <2>6. a \in RunRecord /\ a.claimed = claimed /\ a.work = work
        /\ a.handle = dmRun[q].handle /\ a.batch = dmRun[q].batch
        /\ a.disk = dmRun[q].disk /\ a.reason = dmRun[q].reason
    BY <2>2, <2>3, <2>4 DEF RunRecord
  <2> HIDE DEF a
  <2>7. c \in RunRecord /\ c.claimed = a.claimed /\ c.work = a.work /\ c.handle = a.handle
        /\ c.batch = a.batch /\ c.disk = a.disk /\ c.reason = a.reason /\ c.said = text
    BY <2>3, <2>4, <2>6 DEF RunRecord
  <2> HIDE DEF c
  <2> QED BY <2>1, <2>5, <2>6, <2>7 DEF work, text
<1>5. dmRun' \in Seq(RunRecord) /\ Len(dmRun') = Len(dmRun) /\ Runs' = Runs
  <2>1. dmRun' \in [Runs -> RunRecord]
    <3>1. dmRun' = [q \in Runs |-> dmRun'[q]]
      BY <1>1
    <3> QED BY <1>4, <3>1
  <2> QED BY <1>2, <2>1, SeqOf DEF Runs
\* The batch's event may be set.
<1> DEFINE b == dmRun[r].batch
           on == dmBatch[b].cancel \/ (dmBatch[b].stage = "armed" /\ DmAllOver(b, dmRun'))
           batch == [dmBatch[b] EXCEPT !.cancel = on]
<1>6. b \in Batches /\ dmBatch[b] \in BatchRecord /\ dmBatch' = [dmBatch EXCEPT ![b] = batch]
  BY Facts DEF DmAnnounce
<1>7. on \in BOOLEAN
  BY <1>6 DEF BatchRecord, DmAllOver
<1> HIDE DEF b, on
<1>8. Moved(dmBatch[b], batch)
  BY <1>6, <1>7 DEF Moved, BatchRecord
<1> HIDE DEF batch
<1>9. /\ BatchInv' /\ BatchesGoOn /\ Len(dmBatch') = Len(dmBatch)
      /\ Len(dmBatch) > 0 => dmBatch'[Len(dmBatch)].left = dmBatch[Len(dmBatch)].left
  BY <1>6, <1>8, BatchMoves
<1>10. CallInv'
  BY <1>1, <1>5, <1>9, CallKept DEF DmInv
<1>11. RunsTyped'
  BY <1>1, <1>2, <1>4, <1>5, <1>9 DEF RunsTyped, Batches
<1>12. Entered'
  <2>1. \A h \in Handles : dmTable[h] # 0 => dmTable[h] \in Runs
    BY <1>2 DEF RunsTyped, Runs
  <2> QED BY <1>01, <1>2, <1>4, <2>1 DEF Entered
<1>13. Silent'
  BY <1>2, <1>4, <1>5 DEF Silent
\* What the step itself announces, and what was announced before.
<1>14. \/ e # 0 /\ dmRun[e].claimed
       \/ dmRun'[r].said.named = e /\ dmRun'[r].said.status = status /\ status # "none"
  <2>1. status # "none" /\ dmRun'[r].said = said
    BY <1>1, <1>4 DEF Settled
  <2> QED BY <1>0, <2>1
<1>15. \A q \in Runs : dmRun[q].said.status # "none" \/ dmRun[q].work = "over" =>
         dmRun'[q].said = dmRun[q].said /\ dmRun'[q].work = dmRun[q].work
  BY <1>2, <1>4
<1>16. Claims'
  <2>1. ASSUME NEW f \in Runs, dmRun'[f].claimed
        PROVE  \E q \in Runs :
                 /\ dmRun'[q].work = "over" /\ dmRun'[q].handle = dmRun'[f].handle
                 /\ dmRun'[q].said.named = f /\ dmRun'[q].said.status # "none"
    <3>1. CASE dmRun[f].claimed
      <4>1. PICK q \in Runs :
                   /\ dmRun[q].work = "over" /\ dmRun[q].handle = dmRun[f].handle
                   /\ dmRun[q].said.named = f /\ dmRun[q].said.status # "none"
        BY <1>2, <3>1 DEF Claims
      <4> QED BY <1>4, <1>15, <4>1
    <3>2. CASE ~dmRun[f].claimed
      <4>1. f = e
        BY <1>4, <2>1, <3>2
      <4>2. f # 0
        BY <1>2 DEF Runs
      <4>3. dmRun'[r].work = "over" /\ dmRun'[r].handle = dmRun'[f].handle
        BY <1>01, <1>4, <4>1, <4>2
      <4> QED BY <1>14, <3>2, <4>1, <4>2, <4>3
    <3> QED BY <3>1, <3>2
  <2> QED BY <1>5, <2>1 DEF Claims
<1>17. \A q \in Runs : Shares(q) => Shares(q)'
  BY <1>4, <1>5 DEF Shares
<1>18. EndAnnounced'
  <2> SUFFICES ASSUME NEW f \in Runs, dmRun'[f].work = "over"
               PROVE  \E q \in Runs :
                        /\ dmRun'[q].handle = dmRun'[f].handle /\ dmRun'[q].said.status # "none"
                        /\ Shares(f)' \/ dmRun'[q].said.named \in {f, 0}
    BY <1>5 DEF EndAnnounced
  <2>1. CASE f # r
    <3>1. dmRun[f].work = "over"
      BY <1>4, <2>1
    <3>2. PICK q \in Runs :
                 /\ dmRun[q].handle = dmRun[f].handle /\ dmRun[q].said.status # "none"
                 /\ Shares(f) \/ dmRun[q].said.named \in {f, 0}
      BY <1>2, <3>1 DEF EndAnnounced
    <3> QED BY <1>4, <1>15, <1>17, <3>2
  <2>2. CASE f = r
    <3>1. e \in {r, 0} \/ Shares(r)
      BY <1>1 DEF Shares
    <3>2. CASE e # 0 /\ dmRun[e].claimed
      <4>1. PICK q \in Runs :
                   /\ dmRun[q].work = "over" /\ dmRun[q].handle = dmRun[e].handle
                   /\ dmRun[q].said.named = e /\ dmRun[q].said.status # "none"
        BY <1>1, <1>2, <3>2 DEF Claims
      <4>2. dmRun[q].handle = dmRun[r].handle
        BY <1>1, <3>2, <4>1
      <4>3. dmRun'[q].said = dmRun[q].said
        BY <1>15, <4>1
      <4> QED BY <1>4, <1>17, <2>2, <3>1, <4>1, <4>2, <4>3
    <3>3. CASE dmRun'[r].said.named = e /\ dmRun'[r].said.status = status /\ status # "none"
      BY <1>4, <1>17, <2>2, <3>1, <3>3
    <3> QED BY <1>14, <3>2, <3>3
  <2> QED BY <2>1, <2>2
<1>19. TruthTold'
  <2>1. ASSUME NEW q \in Runs, q # r
        PROVE  dmRun'[q].said = dmRun[q].said /\ dmRun'[q].work = dmRun[q].work
               /\ dmRun'[q].disk = dmRun[q].disk
    BY <1>4, <2>1
  <2>2. dmRun'[r].said.status # "none" /\ dmRun'[r].said.named \in {r, 0} =>
          \/ dmRun'[r].said.status = dmRun'[r].disk
          \/ /\ dmRun'[r].said.named = 0 /\ dmRun'[r].said.status = "cancelled"
             /\ dmRun'[r].disk = "timeout"
          \/ dmRun'[r].said.status = "failed" /\ dmRun'[r].disk = "running"
    <3>1. dmRun'[r].said = said /\ dmRun'[r].disk = dmRun[r].disk
      BY <1>4
    <3>2. CASE e # 0 /\ dmRun[e].claimed
      BY <1>0, <1>2, <3>1, <3>2
    <3>3. CASE e = 0 \/ ~dmRun[e].claimed
      BY <1>0, <1>1, <3>1, <3>3
    <3> QED BY <3>2, <3>3
  <2> QED BY <1>2, <1>5, <2>1, <2>2 DEF TruthTold
<1>20. TimeoutIsOwn'
  BY <1>2, <1>4, <1>5, <1>9 DEF TimeoutIsOwn, BatchesGoOn, RunsTyped
<1> QED BY <1>9, <1>10, <1>11, <1>12, <1>13, <1>16, <1>18, <1>19, <1>20 DEF DmInv, RunsInv

-----------------------------------------------------------------------------
LEMMA DmStart ==
  ASSUME DmInit
  PROVE  DmInv
<1>1. dmRun = <<>> /\ dmBatch = <<>> /\ Runs = {} /\ Batches = {}
  BY DEF DmInit, Runs, Batches
<1>2. RunsInv
  BY <1>1, DaemonAssumption
     DEF DmInit, RunsInv, RunsTyped, Entered, Silent, Claims, EndAnnounced, TruthTold,
         TimeoutIsOwn, Handles
<1>3. BatchInv /\ CallInv
  BY <1>1, DaemonAssumption DEF DmInit, BatchInv, CallInv
<1> QED BY <1>2, <1>3 DEF DmInv

LEMMA DmSteps ==
  ASSUME DmInv, [DmNext]_dmVars
  PROVE  DmInv'
<1>1. CASE UNCHANGED dmVars
  <2>1. UNCHANGED <<dmRun, dmBatch, dmTable, dmNext, dmCall, askVars, dmRestarts>>
    BY <1>1 DEF dmVars, askVars
  <2>2. BatchInv' /\ BatchesGoOn /\ CallInv'
    BY <2>1 DEF DmInv, BatchInv, Batches, BatchesGoOn, CallInv, askVars
  <2>3. RunsInv'
    BY <2>1, <2>2, RunsStay, Facts DEF DmInv, RunsInv, Entered
  <2> QED BY <2>2, <2>3 DEF DmInv
<1>2. CASE \E backend \in Backends, n \in 1..MaxTasks : DmEmanate(backend, n)
  BY <1>2, EmanateKeeps
<1>3. CASE DmCallSteps
  BY <1>3, SubmitKeeps, EnterKeeps, RefuseKeeps, DispatchKeeps, ReclaimPoolsKeeps, ClearKeeps
     DEF DmCallSteps
<1>4. CASE \E r \in Runs : DmWork(r) \/ DmEvent(r)
  <2>1. PICK r \in Runs : WorkerStep(r) \/ DmAnnounce(r) \/ DmDrain(r)
    BY <1>4 DEF DmWork, DmEvent, WorkerStep
  <2> QED BY <2>1, WorkerKeeps, AnnounceKeeps, DrainKeeps
<1>5. CASE \E b \in Batches : DmWatch(b)
  BY <1>5, ExpireKeeps, WatchKillKeeps DEF DmWatch
<1>6. CASE DmReclaim
  BY <1>6, ReclaimKeeps
<1>7. CASE \E h \in Handles : DmAskCall(h)
  BY <1>7, AskKeeps
<1>8. CASE DmAskEnds \/ DmRestart
  BY <1>8, AskEndsKeeps, RestartKeeps
<1> QED BY <1>1, <1>2, <1>3, <1>4, <1>5, <1>6, <1>7, <1>8 DEF DmNext

LEMMA DmHolds == DmSpec => []DmInv
BY DmStart, DmSteps, PTL DEF DmSpec

\* The daemon's state is as it is declared: a call never makes more runs than
\* the handles it was given, and a table entry is a run (DaemonManager).
THEOREM DaemonTyped == DmSpec => []DmTypeOK
<1>1. DmInv => DmTypeOK
  BY DEF DmInv, RunsInv, RunsTyped, BatchInv, CallInv, DmTypeOK
<1> QED BY <1>1, DmHolds, PTL

\* Every run that is over has been announced, under its own directory or its
\* handle alone, or shares its handle with the one that was, whatever the
\* number of batches, reclaims and restarts (_on_emanation_done).
THEOREM EndsAreAnnounced == DmSpec => []EndAnnounced
<1>1. DmInv => EndAnnounced
  BY DEF DmInv, RunsInv
<1> QED BY <1>1, DmHolds, PTL

\* It is announced as what its record says of it, and a timeout is of the run's
\* own batch (_classify_terminal_state, _watchdog).
THEOREM EndsAreTrue == DmSpec => []EndsAsTold
<1>1. DmInv => EndsAsTold
  BY DEF DmInv, RunsInv, EndsAsTold
<1> QED BY <1>1, DmHolds, PTL

-----------------------------------------------------------------------------
(* McpClient                                                               *)

\* What the types need to be inductive: who is connecting or calling is a client,
\* and as long as it may start a second time a loop is left for it.
McTurns == [op : {"none", "connect", "call"}, c : 0..McClients, try : 0..2,
          at : {"", "idle", "waiting", "started", "listing", "failed", "attempt"}]
McFields == [session : 0..McLoops, loop : 0..McLoops, ready : BOOLEAN, error : BOOLEAN,
             closed : BOOLEAN]
McInv ==
  /\ McTypeOK
  /\ mcTurn \in McTurns
  /\ mcTurn.op # "none" => mcTurn.c \in Clients
  /\ mcTurn.op = "none" => mcTurn = McIdle
  /\ mcTurn.op # "none" /\ mcTurn.try = 1 => FreeLoops # {}

LEMMA McSizes ==
  /\ McClients \in Nat /\ McLoops \in Nat /\ McDeaths \in Nat
  /\ Clients \subseteq Nat \ {0} /\ Loops \subseteq Nat \ {0}
  /\ Clients \subseteq 0..McClients /\ Loops \subseteq 0..McLoops
BY McpClientAssumption DEF Clients, Loops

LEMMA LowestIn ==
  ASSUME NEW S \in SUBSET Nat, S # {}
  PROVE  Lowest(S) \in S
<1>1. \E x \in S : \A y \in S : x <= y
  BY Least
<1> QED
  BY <1>1 DEF Lowest

\* A field of one client is written.
LEMMA McWritten ==
  ASSUME mcClient \in [Clients -> McFields], NEW c, NEW r \in McFields
  PROVE  [mcClient EXCEPT ![c] = r] \in [Clients -> McFields]
OBVIOUS

LEMMA ClientHas ==
  ASSUME NEW r \in McFields
  PROVE  /\ \A x \in BOOLEAN : /\ [r EXCEPT !.ready = x] \in McFields
                               /\ [r EXCEPT !.error = x] \in McFields
                               /\ [r EXCEPT !.closed = x] \in McFields
         /\ \A l \in 0..McLoops : /\ [r EXCEPT !.session = l] \in McFields
                                  /\ [r EXCEPT !.loop = l] \in McFields
BY DEF McFields

LEMMA TurnGoes ==
  ASSUME NEW r \in McTurns
  PROVE  \A x \in {"started", "waiting", "listing", "failed", "attempt"} :
           /\ [r EXCEPT !.at = x] \in McTurns
           /\ [r EXCEPT !.at = x].op = r.op /\ [r EXCEPT !.at = x].c = r.c
           /\ [r EXCEPT !.at = x].try = r.try
           /\ [r EXCEPT !.at = x].at = x
BY DEF McTurns

LEMMA TurnTries ==
  ASSUME NEW r \in McTurns
  PROVE  /\ [r EXCEPT !.try = 2] \in McTurns /\ [r EXCEPT !.try = 2].try = 2
         /\ [r EXCEPT !.try = 2].op = r.op /\ [r EXCEPT !.try = 2].c = r.c
<1>0. 2 \in 0..2
  OBVIOUS
<1> DEFINE T == 0..2
<1> HIDE DEF T
<1>1. [r EXCEPT !.try = 2] \in McTurns
  <2>1. r \in [op : {"none", "connect", "call"}, c : 0..McClients, try : T,
          at : {"", "idle", "waiting", "started", "listing", "failed", "attempt"}]
    BY DEF McTurns, T
  <2>2. [r EXCEPT !.try = 2] \in [op : {"none", "connect", "call"}, c : 0..McClients, try : T,
          at : {"", "idle", "waiting", "started", "listing", "failed", "attempt"}]
    BY <2>1, <1>0 DEF T
  <2> QED
    BY <2>2 DEF McTurns, T
<1>2. [r EXCEPT !.try = 2].try = 2
  BY DEF McTurns
<1>3. [r EXCEPT !.try = 2].op = r.op
  BY DEF McTurns
<1>4. [r EXCEPT !.try = 2].c = r.c
  BY DEF McTurns
<1> QED
  BY <1>1, <1>2, <1>3, <1>4

LEMMA McStart == McInit => McInv
<1> SUFFICES ASSUME McInit PROVE McInv
  OBVIOUS
<1>1. McTypeOK
  BY McSizes DEF McInit, McTypeOK, Blank, McIdle
<1>2. mcTurn \in McTurns /\ mcTurn.op = "none" /\ mcTurn = McIdle
  BY McSizes DEF McInit, McIdle, McTurns
<1> QED
  BY <1>1, <1>2 DEF McInv

\* Two loops are free, or one is: a client starts, and one fewer is.
LEMMA StartingKeeps ==
  ASSUME McInv, NEW c \in Clients, NEW turn \in McTurns, NEW fields \in McFields,
         turn.op # "none", turn.c = c, turn.try # 1 \/ RoomForTwo,
         FreeLoops # {}, Starting(c, turn, fields),
         mcAsked' \in SUBSET Loops, mcList' \subseteq Clients,
         mcTold' \in {"nothing", "healthy", "recovered", "still_failed"},
         UNCHANGED <<mcUp, mcSpec, mcTool, mcStop, mcDeaths>>
  PROVE  McInv'
<1> USE McSizes
<1>1. FreeLoops \subseteq Nat /\ FreeLoops \subseteq Loops /\ IsFiniteSet(FreeLoops)
  <2>1. IsFiniteSet(Loops)
    BY FS_Interval DEF Loops
  <2>2. FreeLoops \subseteq Loops
    BY DEF FreeLoops
  <2> QED
    BY <2>1, <2>2, FS_Subset
<1>2. CASE Linked(fields)
  <2>0. mcTurn' = [turn EXCEPT !.at = "started"]
    BY <1>2 DEF Starting
  <2>1. mcTurn' \in McTurns /\ mcTurn'.at = "started" /\ mcTurn'.op = turn.op /\ mcTurn'.c = c
        /\ mcTurn'.try = turn.try
    BY <2>0 DEF McTurns
  <2>2. mcClient' \in [Clients -> McFields]
    BY <1>2, McWritten DEF Starting, McInv, McTypeOK, McFields
  <2>3. UNCHANGED <<mcLoop, mcOwner>> /\ FreeLoops' = FreeLoops
    BY <1>2 DEF Starting, FreeLoops
  <2>4. McTypeOK'
    BY <2>1, <2>2, <2>3 DEF McInv, McTypeOK, McFields, McTurns
  <2> QED
    BY <2>1, <2>3, <2>4 DEF McInv, McIdle
<1>3. CASE ~Linked(fields)
  <2> DEFINE l == Lowest(FreeLoops)
  <2>0. l \in FreeLoops /\ l \in Loops
    BY <1>1, LowestIn
  <2> HIDE DEF l
  <2>1. /\ mcLoop' = [mcLoop EXCEPT ![l] = "connecting"]
        /\ mcOwner' = [mcOwner EXCEPT ![l] = c]
        /\ mcClient' = [mcClient EXCEPT ![c] = [fields EXCEPT !.loop = l]]
        /\ mcTurn' = [turn EXCEPT !.at = "waiting"]
    BY <1>3 DEF Starting, l
  <2>2. mcTurn' \in McTurns /\ mcTurn'.at = "waiting" /\ mcTurn'.op = turn.op /\ mcTurn'.c = c
        /\ mcTurn'.try = turn.try
    BY <2>1, TurnGoes
  <2>3. mcClient' \in [Clients -> McFields]
    BY <2>0, <2>1, McWritten, ClientHas DEF McInv, McTypeOK, McFields
  <2>4. McTypeOK'
    BY <2>0, <2>1, <2>2, <2>3 DEF McInv, McTypeOK, McFields, McTurns
  <2>5. mcTurn'.try = 1 => FreeLoops' # {}
    <3> SUFFICES ASSUME RoomForTwo PROVE FreeLoops' # {}
      BY <2>2
    <3>1. Cardinality(FreeLoops \ {l}) = Cardinality(FreeLoops) - 1
      BY <1>1, <2>0, FS_RemoveElement
    <3>2. Cardinality(FreeLoops) >= 2 /\ Cardinality(FreeLoops) \in Nat
      BY <1>1, FS_CardinalityType DEF RoomForTwo
    <3>3. FreeLoops \ {l} # {}
      <4> SUFFICES ASSUME FreeLoops \ {l} = {} PROVE FALSE
        OBVIOUS
      <4>1. Cardinality(FreeLoops \ {l}) = 0
        BY FS_EmptySet
      <4> QED
        BY <3>1, <3>2, <4>1
    <3>4. FreeLoops \ {l} \subseteq FreeLoops'
      BY <2>1 DEF FreeLoops, McInv, McTypeOK
    <3> QED
      BY <3>3, <3>4
  <2> QED
    BY <2>2, <2>4, <2>5 DEF McInv, McIdle
<1> QED
  BY <1>2, <1>3

LEMMA AskedLoops == ASSUME McInv, NEW c \in Clients PROVE Asks(c) \subseteq Loops
BY McSizes DEF McInv, McTypeOK, Asks, Running, Loops

LEMMA TwoAreSome == RoomForTwo => FreeLoops # {}
BY FS_EmptySet DEF RoomForTwo

LEMMA FreeClientIs == FreeClients # {} => Lowest(FreeClients) \in Clients
BY McSizes, LowestIn DEF FreeClients

LEMMA Blanks == Blank \in McFields
BY McSizes DEF Blank, McFields

LEMMA TurnKeeps ==
  ASSUME McInv, McTurnStep
  PROVE  McInv'
<1> USE McSizes
<1>z. mcTurn \in McTurns
  BY DEF McInv
<1>y. mcTurn # McIdle => mcTurn.c \in Clients /\ mcTurn.op # "none"
  BY DEF McInv
<1>x. McIdle \in McTurns /\ McIdle.op = "none"
  BY DEF McIdle, McTurns
<1>0. /\ mcClient \in [Clients -> McFields] /\ mcTurn \in McTurns
      /\ mcTurn # McIdle => mcTurn.c \in Clients /\ mcTurn.op # "none"
      /\ McIdle \in McTurns /\ McIdle.op = "none"
      /\ mcList \subseteq Clients /\ mcTold \in {"nothing", "healthy", "recovered", "still_failed"}
  BY <1>x, <1>y, <1>z DEF McInv, McTypeOK, McFields
<1>a. ASSUME UNCHANGED <<mcClient, mcServers, mcStop>>, mcList' \subseteq Clients,
             {mcSpec', mcTool'} \subseteq 0..McClients,
             mcTold' \in {"nothing", "healthy", "recovered", "still_failed"},
             \/ mcTurn' = McIdle
             \/ /\ mcTurn.op # "none"
                /\ \E x \in {"started", "waiting", "listing", "failed", "attempt"} :
                     mcTurn' = [mcTurn EXCEPT !.at = x]
      PROVE McInv'
  <2>1. FreeLoops' = FreeLoops
    BY <1>a DEF FreeLoops, mcServers
  <2>2. CASE mcTurn' = McIdle
    BY <1>a, <2>2, <1>0, <2>1 DEF McInv, McTypeOK, mcServers, McIdle
  <2>3. CASE mcTurn.op # "none" /\ \E x \in {"started", "waiting", "listing", "failed", "attempt"} :
                     mcTurn' = [mcTurn EXCEPT !.at = x]
    <3>1. PICK x \in {"started", "waiting", "listing", "failed", "attempt"} :
            mcTurn' = [mcTurn EXCEPT !.at = x]
      BY <2>3
    <3>2. mcTurn' \in McTurns /\ mcTurn'.op = mcTurn.op /\ mcTurn'.c = mcTurn.c
          /\ mcTurn'.try = mcTurn.try /\ mcTurn'.at = x
      BY <3>1, <1>z, TurnGoes
    <3>3. McTypeOK'
      BY <1>a, <3>2 DEF McInv, McTypeOK, mcServers, McTurns
    <3> QED
      BY <3>2, <3>3, <2>1, <2>3 DEF McInv
  <2> QED
    BY <1>a, <2>2, <2>3
<1>b. mcSpec \in 0..McClients /\ mcTool \in 0..McClients /\ 0 \in 0..McClients
      /\ mcTurn.c \in 0..McClients
  <2>1. {mcSpec, mcTool} \subseteq 0..McClients
    BY DEF McInv, McTypeOK
  <2>2. mcTurn.c \in 0..McClients
    BY <1>z DEF McTurns
  <2> QED
    BY <2>1, <2>2
<1>1. CASE McStarted
  BY <1>1, <1>a, <1>0, <1>b DEF McStarted, mcAgent, McIdle
<1>2. CASE McAppend
  BY <1>2, <1>a, <1>0, <1>b DEF McAppend, McIdle
<1>3. CASE McListStarts
  <2>1. [mcTurn EXCEPT !.try = 2] \in McTurns /\ [mcTurn EXCEPT !.try = 2].op = mcTurn.op
        /\ [mcTurn EXCEPT !.try = 2].c = mcTurn.c /\ [mcTurn EXCEPT !.try = 2].try = 2
    BY <1>z, TurnTries
  <2>2. mcClient[mcTurn.c] \in McFields /\ mcTurn.c \in Clients /\ mcTurn.op # "none" /\ mcTurn.try = 1
    BY <1>3, <1>0 DEF McListStarts, McIdle
  <2>3. FreeLoops # {} /\ mcAsked \in SUBSET Loops
    BY <2>2 DEF McInv, McTypeOK
  <2> DEFINE turn == [mcTurn EXCEPT !.try = 2]
             c == mcTurn.c
             fields == mcClient[mcTurn.c]
  <2>4. Starting(c, turn, fields) /\ UNCHANGED <<mcUp, mcAgent, mcStop, mcDeaths>>
        /\ mcAsked' \in SUBSET Loops
    BY <1>3, <2>3 DEF McListStarts
  <2>5. turn \in McTurns /\ turn.op # "none" /\ turn.c = c /\ turn.try = 2 /\ c \in Clients
        /\ fields \in McFields
    BY <2>1, <2>2
  <2> HIDE DEF turn, c, fields
  <2>6. mcList' \subseteq Clients /\ mcTold' \in {"nothing", "healthy", "recovered", "still_failed"}
        /\ UNCHANGED <<mcUp, mcSpec, mcTool, mcStop, mcDeaths>>
    BY <1>0, <2>4 DEF mcAgent
  <2> QED
    BY <2>3, <2>4, <2>5, <2>6, StartingKeeps
<1>4. CASE McListed
  BY <1>4, <1>a, <1>0, <1>b DEF McListed, McIdle
<1>5. CASE McConnectFails
  BY <1>5, <1>a, <1>0, <1>b DEF McConnectFails, McIdle
<1>6. CASE McSends
  BY <1>6, <1>a, <1>0, <1>b DEF McSends, mcAgent, McIdle
<1>7. CASE McAnswered
  BY <1>7, <1>a, <1>0, <1>b DEF McAnswered, mcAgent, McIdle
<1>8. CASE McRestart
  <2>1. [mcTurn EXCEPT !.try = 2] \in McTurns /\ [mcTurn EXCEPT !.try = 2].op = mcTurn.op
        /\ [mcTurn EXCEPT !.try = 2].c = mcTurn.c /\ [mcTurn EXCEPT !.try = 2].try = 2
    BY <1>z, TurnTries
  <2>2. Blank \in McFields /\ mcTurn.c \in Clients /\ mcTurn.op # "none" /\ mcTurn.try = 1
    BY <1>8, <1>0, Blanks DEF McRestart, McIdle
  <2>3. FreeLoops # {} /\ mcAsked' \in SUBSET Loops
    BY <1>8, <2>2, AskedLoops DEF McInv, McTypeOK, McRestart
  <2> DEFINE turn == [mcTurn EXCEPT !.try = 2]
             c == mcTurn.c
             fields == Blank
  <2>4. Starting(c, turn, fields) /\ UNCHANGED <<mcUp, mcAgent, mcStop, mcDeaths>>
        /\ mcAsked' \in SUBSET Loops
    BY <1>8, <2>3 DEF McRestart
  <2>5. turn \in McTurns /\ turn.op # "none" /\ turn.c = c /\ turn.try = 2 /\ c \in Clients
        /\ fields \in McFields
    BY <2>1, <2>2
  <2> HIDE DEF turn, c, fields
  <2>6. mcList' \subseteq Clients /\ mcTold' \in {"nothing", "healthy", "recovered", "still_failed"}
        /\ UNCHANGED <<mcUp, mcSpec, mcTool, mcStop, mcDeaths>>
    BY <1>0, <2>4 DEF mcAgent
  <2> QED
    BY <2>3, <2>4, <2>5, <2>6, StartingKeeps
<1> QED
  BY <1>1, <1>2, <1>3, <1>4, <1>5, <1>6, <1>7, <1>8 DEF McTurnStep

LEMMA AroundKeeps ==
  ASSUME McInv, McLoad \/ McRetry \/ McCall \/ McStopAgent
  PROVE  McInv'
<1> USE McSizes
<1>0. /\ mcClient \in [Clients -> McFields] /\ mcTurn \in McTurns
      /\ mcList \subseteq Clients /\ mcTold \in {"nothing", "healthy", "recovered", "still_failed"}
      /\ mcAsked \in SUBSET Loops /\ mcSpec \in 0..McClients /\ mcTool \in 0..McClients
  BY DEF McInv, McTypeOK, McFields
<1>1. ASSUME NEW c \in Clients
      PROVE  /\ [op |-> "connect", at |-> "", c |-> c, try |-> 1] \in McTurns
             /\ [op |-> "call", at |-> "", c |-> c, try |-> 1] \in McTurns
  BY DEF McTurns
<1>2. CASE McLoad
  <2>1. Lowest(FreeClients) \in Clients /\ FreeLoops # {}
    <3>1. 1 \in Clients
      BY McpClientAssumption DEF Clients
    <3> QED
      BY <1>2, <3>1, FreeClientIs, TwoAreSome DEF McLoad
  <2> DEFINE c == Lowest(FreeClients)
  <2>2. Starting(c, [op |-> "connect", at |-> "", c |-> c, try |-> 1], Blank) /\ RoomForTwo
        /\ UNCHANGED <<mcAsked, mcUp, mcAgent, mcStop, mcDeaths>>
    BY <1>2 DEF McLoad, Connects
  <2> HIDE DEF c
  <2>3. c \in Clients
    BY <2>1 DEF c
  <2>4. mcAsked' \in SUBSET Loops /\ mcList' \subseteq Clients
        /\ mcTold' \in {"nothing", "healthy", "recovered", "still_failed"}
        /\ UNCHANGED <<mcUp, mcSpec, mcTool, mcStop, mcDeaths>>
    BY <2>2, <1>0 DEF mcAgent
  <2> QED
    BY <2>1, <2>2, <2>3, <2>4, <1>1, Blanks, StartingKeeps
<1>3. CASE McRetry
  <2>1. CASE mcSpec # 0 /\ Connected(mcSpec)
    <3>1. mcTold' = "healthy" /\ UNCHANGED <<mcClient, mcLoop, mcOwner, mcAsked, mcList, mcTurn>>
          /\ UNCHANGED <<mcUp, mcSpec, mcTool, mcStop, mcDeaths>>
      BY <1>3, <2>1 DEF McRetry
    <3>2. FreeLoops' = FreeLoops
      BY <3>1 DEF FreeLoops
    <3> QED
      BY <3>1, <3>2 DEF McInv, McTypeOK
  <2>2. CASE ~(mcSpec # 0 /\ Connected(mcSpec))
    <3> DEFINE c == Lowest(FreeClients)
    <3>1. /\ FreeClients # {} /\ RoomForTwo
          /\ Starting(c, [op |-> "connect", at |-> "", c |-> c, try |-> 1], Blank)
          /\ mcAsked' = mcAsked \cup (IF mcSpec = 0 THEN {} ELSE Asks(mcSpec))
          /\ mcList' = mcList \ {mcSpec} /\ UNCHANGED mcTold
          /\ UNCHANGED <<mcUp, mcSpec, mcTool, mcStop, mcDeaths>>
      BY <1>3, <2>2 DEF McRetry, Connects
    <3>2. c \in Clients /\ FreeLoops # {}
      BY <3>1, FreeClientIs, TwoAreSome
    <3> HIDE DEF c
    <3>3. mcAsked' \in SUBSET Loops
      <4>1. mcSpec # 0 => mcSpec \in Clients
        BY <1>0 DEF Clients
      <4> QED
        BY <3>1, <4>1, <1>0, AskedLoops
    <3> QED
      BY <3>1, <3>2, <3>3, <1>0, <1>1, Blanks, StartingKeeps
  <2> QED
    BY <2>1, <2>2
<1>4. CASE McCall
  <2>1. /\ mcTool \in Clients /\ FreeLoops # {} /\ RoomForTwo
        /\ Starting(mcTool, [op |-> "call", at |-> "", c |-> mcTool, try |-> 1], mcClient[mcTool])
        /\ UNCHANGED <<mcAsked, mcUp, mcAgent, mcStop, mcDeaths>>
    <3>0. mcTool # 0
      BY <1>4 DEF McCall
    <3>1. mcTool # 0 /\ RoomForTwo
          /\ Starting(mcTool, [op |-> "call", at |-> "", c |-> mcTool, try |-> 1], mcClient[mcTool])
          /\ UNCHANGED <<mcAsked, mcUp, mcAgent, mcStop, mcDeaths>>
      BY <1>4 DEF McCall
    <3>2. mcTool \in Clients
      <4>1. mcTool \in 0..McClients /\ McClients \in Nat
        BY <1>0
      <4> QED
        BY <3>0, <4>1 DEF Clients
    <3> QED
      BY <3>1, <3>2, TwoAreSome
  <2>2. mcClient[mcTool] \in McFields
    BY <2>1, <1>0
  <2>3. mcAsked' \in SUBSET Loops /\ mcList' \subseteq Clients
        /\ mcTold' \in {"nothing", "healthy", "recovered", "still_failed"}
        /\ UNCHANGED <<mcUp, mcSpec, mcTool, mcStop, mcDeaths>>
    BY <2>1, <1>0 DEF mcAgent
  <2> QED
    BY <2>1, <2>2, <2>3, <1>1, StartingKeeps
<1>5. CASE McStopAgent
  <2>1. UNCHANGED <<mcLoop, mcOwner, mcUp, mcAgent, mcTurn, mcDeaths>> /\ mcStop' = "closed"
    BY <1>5 DEF McStopAgent
  <2>2. FreeLoops' = FreeLoops
    BY <2>1 DEF FreeLoops
  <2>3. mcClient' \in [Clients -> McFields]
    BY <1>5, <1>0, ClientHas DEF McStopAgent
  <2>4. mcAsked' \in SUBSET Loops
    BY <1>5, <1>0, AskedLoops DEF McStopAgent
  <2> QED
    BY <2>1, <2>2, <2>3, <2>4 DEF McInv, McTypeOK, McFields, mcAgent
<1> QED
  BY <1>2, <1>3, <1>4, <1>5

LEMMA LoopKeeps ==
  ASSUME McInv, NEW l \in Loops, McOpens(l) \/ McConnects(l) \/ McFails(l) \/ McLoopStops(l) \/ McServerDies(l)
  PROVE  McInv'
<1> USE McSizes
<1>0. mcClient \in [Clients -> McFields] /\ l \in 0..McLoops
  BY DEF McInv, McTypeOK, McFields
<1>c. ASSUME NEW c PROVE /\ [mcClient EXCEPT ![c].session = l] \in [Clients -> McFields]
                         /\ [mcClient EXCEPT ![c].ready = TRUE] \in [Clients -> McFields]
                         /\ [mcClient EXCEPT ![c].error = TRUE, ![c].ready = TRUE] \in [Clients -> McFields]
  <2>1. CASE c \in Clients
    <3>1. mcClient[c] \in McFields
      BY <1>0, <2>1
    <3> QED
      BY <3>1, <1>0, <2>1, ClientHas
  <2>2. CASE c \notin Clients
    BY <1>0, <2>2
  <2> QED
    BY <2>1, <2>2
<1>a. ASSUME UNCHANGED <<mcOwner, mcAgent, mcTurn, mcStop>>, mcAsked' = mcAsked,
             mcDeaths' \in 0..McDeaths,
             mcUp' \in SUBSET Loops, mcClient' \in [Clients -> McFields],
             mcLoop' \in [Loops -> {"none", "connecting", "initializing", "forever", "over"}],
             FreeLoops \subseteq FreeLoops'
      PROVE McInv'
  BY <1>a DEF McInv, McTypeOK, McFields, mcAgent
<1>1. CASE McOpens(l) \/ McConnects(l) \/ McFails(l)
  <2>1. FreeLoops \subseteq FreeLoops'
    BY <1>1 DEF McOpens, McConnects, McFails, FreeLoops, McInv, McTypeOK
  <2>2. mcClient' \in [Clients -> McFields]
    <3>1. PICK c : c = mcOwner[l]
      OBVIOUS
    <3>2. \/ mcClient' = [mcClient EXCEPT ![c].session = l]
          \/ mcClient' = [mcClient EXCEPT ![c].ready = TRUE]
          \/ mcClient' = [mcClient EXCEPT ![c].error = TRUE, ![c].ready = TRUE]
      BY <1>1, <3>1 DEF McOpens, McConnects, McFails
    <3>3. /\ [mcClient EXCEPT ![c].session = l] \in [Clients -> McFields]
          /\ [mcClient EXCEPT ![c].ready = TRUE] \in [Clients -> McFields]
          /\ [mcClient EXCEPT ![c].error = TRUE, ![c].ready = TRUE] \in [Clients -> McFields]
      BY <1>c
    <3> QED
      BY <3>2, <3>3, Zenon
  <2>3. /\ UNCHANGED <<mcOwner, mcAgent, mcTurn, mcStop>> /\ mcAsked' = mcAsked /\ mcDeaths' \in 0..McDeaths
        /\ mcUp' \in SUBSET Loops
        /\ mcLoop' \in [Loops -> {"none", "connecting", "initializing", "forever", "over"}]
    BY <1>1 DEF McOpens, McConnects, McFails, McInv, McTypeOK
  <2> QED
    BY <2>1, <2>2, <2>3, <1>a
<1>2. CASE McLoopStops(l)
  <2>1. FreeLoops \subseteq FreeLoops'
    BY <1>2 DEF McLoopStops, FreeLoops, McInv, McTypeOK, Running
  <2>2. mcClient' \in [Clients -> McFields]
    BY <1>0, <1>2, <1>c DEF McLoopStops
  <2> QED
    BY <1>2, <2>1, <2>2, <1>a DEF McLoopStops, McInv, McTypeOK
<1>3. CASE McServerDies(l)
  <2>1. FreeLoops \subseteq FreeLoops'
    BY <1>3 DEF McServerDies, FreeLoops, McInv, McTypeOK
  <2> QED
    BY <1>0, <1>3, <2>1, <1>a DEF McServerDies, McInv, McTypeOK
<1> QED
  BY <1>1, <1>2, <1>3

LEMMA McHolds == McSpec => []McInv
<1>1. McInv /\ [McNext]_mcVars => McInv'
  <2> SUFFICES ASSUME McInv, [McNext]_mcVars PROVE McInv'
    OBVIOUS
  <2>1. CASE UNCHANGED mcVars
    BY <2>1 DEF mcVars, McInv, McTypeOK, FreeLoops
  <2> QED
    BY <2>1, TurnKeeps, AroundKeeps, LoopKeeps DEF McNext
<1> QED
  BY McStart, <1>1, PTL DEF McSpec

\* Every value of the client, its loops and the turn is of its type.
THEOREM ClientTyped == McSpec => []McTypeOK
<1>1. McInv => McTypeOK
  BY DEF McInv
<1> QED
  BY <1>1, McHolds, PTL

-----------------------------------------------------------------------------
(* The parts together                                                      *)

\* As one part moves at a time, a behaviour of the whole is one of each part.
LEMMA EachPart == Spec => DmSpec /\ RlSpec /\ McSpec /\ TbSpec
<1>1. Init => DmInit /\ RlInit /\ McInit /\ TbInit
  BY DEF Init
<1>2. [Next]_vars => [DmNext]_dmVars
  BY DEF Next, vars, Daemons, Launch, Mcp, Tools
<1>3. [Next]_vars => [RlNext]_rlVars
  BY DEF Next, vars, Daemons, Launch, Mcp, Tools
<1>4. [Next]_vars => [McNext]_mcVars
  BY DEF Next, vars, Daemons, Launch, Mcp, Tools
<1>5. [Next]_vars => [TbNext]_tbVars
  BY DEF Next, vars, Daemons, Launch, Mcp, Tools
<1> QED
  BY <1>1, <1>2, <1>3, <1>4, <1>5, PTL DEF Spec, DmSpec, RlSpec, McSpec, TbSpec

\* Every value of the four parts is of its type, whatever the plans of the run.
THEOREM PartsTyped == Spec => []TypeOK
<1>1. DmTypeOK /\ RlTypeOK /\ McTypeOK /\ TbTypeOK => TypeOK
  BY DEF TypeOK
<1> QED
  BY <1>1, EachPart, DaemonTyped, ProcessesTyped, ClientTyped, BatchTyped, PTL
=============================================================================
