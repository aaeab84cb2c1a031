--------------------------- MODULE AgentLoopProofs ---------------------------
(***************************************************************************)
(* Theorems about AgentLoop, for every value of its constants: its type,   *)
(* what a hung worker leaves writable, what a sleeping agent leaves        *)
(* behind, and what it promises of a notification: one that counts as told *)
(* is in the history (NothingDropped), and the run loop does not rest on   *)
(* one the model has not read (NoLostWake).                                *)
(***************************************************************************)
EXTENDS AgentLoop, TLAPS, FiniteSetTheorems

\* The run loop waits at "sync" while it is in a pass of its own.
SyncWaits == sat["rl"] # "idle" => pc = "sync"

\* Where another failed LLM call may still be counted.
Working ==
  \/ pc \in {"turn", "send_text", "send_results", "send_none", "llm", "entered",
             "loop", "exec", "attach", "commit", "after", "error", "hang"}
  \/ pc = "sync" /\ back \in {"send_text", "loop"}

\* While it may, the attempts are not used up.
AttemptLeft == Working => aed < MaxAed

\* Whoever is going to publish a kernel notification still may.
StopLeft ==
  /\ pc = "exec" /\ effect = "molt" => MayPublish
  /\ /\ pc \in {"loop", "entered"} \/ (pc = "sync" /\ back = "loop")
     /\ outcome = "calls" /\ rounds = MaxRounds
     => MayPublish

\* Where the run loop is, and what follows from its being there.
Control == PcOK /\ SyncWaits /\ AttemptLeft /\ StopLeft

\* The inductive invariant of type correctness.
TypeInv == TypeOK /\ Control

\* A message taken from the inbox leaves a queue of messages.
LEMMA ConcatType ==
  ASSUME inbox \in Seq({"request", "tc_wake"}), Concat
  PROVE  inbox' \in Seq({"request", "tc_wake"})
<1>1. Cardinality(Wakes) \in Nat
  <2>1. IsFiniteSet(DOMAIN inbox)
    BY FS_Interval
  <2>2. Wakes \subseteq DOMAIN inbox
    BY DEF Wakes
  <2> QED BY <2>1, <2>2, FS_Subset, FS_CardinalityType
<1>2. [i \in 1..Cardinality(Wakes) |-> "tc_wake"] \in Seq({"request", "tc_wake"})
  BY <1>1
<1> QED BY <1>2 DEF Concat

\* Where cli.run leaves the agent.
LEMMA TypeInit == Init => TypeInv
<1> SUFFICES ASSUME Init PROVE TypeInv
  OBVIOUS
<1>1. LifeOK
  BY DEF Init, LifeOK, States
<1>2. QueueOK /\ PcOK
  BY BoundAssumption DEF Init, QueueOK, PcOK, Labels
<1>3. TurnOK /\ WireOK /\ HoldOK
  BY BoundAssumption DEF Init, TurnOK, WireOK, HoldOK, AllEffects
<1>4. FlagOK
  BY DEF Init, FlagOK
<1>5. NoteOK
  BY BoundAssumption DEF Init, NoteOK
<1>6. SyncOK /\ HbOK
  BY DEF Init, SyncOK, SyncSteps, HbOK
<1>7. SyncWaits /\ AttemptLeft /\ StopLeft
  BY DEF Init, SyncWaits, AttemptLeft, StopLeft, Working, Threads
<1> QED BY <1>1, <1>2, <1>3, <1>4, <1>5, <1>6, <1>7 DEF TypeInv, TypeOK, Control

\* A group of variables an action leaves alone keeps its type.
LEMMA Frame ==
  ASSUME TypeOK
  PROVE  /\ UNCHANGED lifeVars => LifeOK'
         /\ UNCHANGED queueVars => QueueOK'
         /\ UNCHANGED turnVars => TurnOK'
         /\ UNCHANGED wireVars => WireOK'
         /\ UNCHANGED holdVars => HoldOK'
         /\ UNCHANGED flagVars => FlagOK'
         /\ UNCHANGED noteVars => NoteOK'
         /\ UNCHANGED syncVars => SyncOK'
         /\ UNCHANGED hbVars => HbOK'
BY DEF TypeOK, LifeOK, QueueOK, TurnOK, WireOK, HoldOK, FlagOK, NoteOK, SyncOK,
       HbOK, lifeVars, queueVars, turnVars, wireVars, holdVars, flagVars,
       noteVars, syncVars, hbVars

\* A pass that goes on to another of its steps.
LEMMA SyncToType ==
  ASSUME TypeInv, NEW t \in Threads, NEW step \in SyncSteps, SyncTo(t, step),
         t = "rl" => pc = "sync", UNCHANGED <<back, turnVars, kernelNotes>>
  PROVE  /\ sat' \in [Threads -> SyncSteps]
         /\ Control'
<1>1. sat' \in [Threads -> SyncSteps]
  BY DEF SyncTo, TypeInv, TypeOK, SyncOK
<1>2. SyncWaits'
  BY DEF SyncTo, SyncWaits, TypeInv, TypeOK, Control, SyncOK, Threads
<1>3. PcOK' /\ AttemptLeft' /\ StopLeft'
  BY DEF SyncTo, TypeInv, Control, PcOK, AttemptLeft, StopLeft, Working,
         MayPublish, turnVars
<1> QED BY <1>1, <1>2, <1>3 DEF Control

\* A pass that is over; the run loop's hands control back.
LEMMA SyncDoneType ==
  ASSUME TypeInv, NEW t \in Threads, SyncDone(t), t = "rl" => pc = "sync",
         UNCHANGED <<turnVars, kernelNotes>>
  PROVE  SyncOK' /\ Control'
<1>1. SyncOK'
  BY DEF SyncDone, TypeInv, TypeOK, SyncOK, SyncSteps
<1>2. SyncWaits'
  BY DEF SyncDone, SyncWaits, TypeInv, TypeOK, Control, SyncOK, Threads
<1>3. PcOK' /\ AttemptLeft' /\ StopLeft'
  BY DEF SyncDone, TypeInv, Control, PcOK, Labels, AttemptLeft, StopLeft,
         Working, MayPublish, turnVars
<1> QED BY <1>1, <1>2, <1>3 DEF Control

\* A pass given up over the poison mark, with the refresh it asks for.
LEMMA SkipType ==
  ASSUME TypeInv, NEW t \in Threads, SkipPoisoned(t), t = "rl" => pc = "sync"
  PROVE  TypeInv'
<1>1. LifeOK' /\ FlagOK'
  BY DEF SkipPoisoned, RequestRefresh, PerformRefresh, TypeInv, TypeOK, LifeOK,
         FlagOK
<1>2. SyncOK' /\ Control'
  BY SyncDoneType DEF SkipPoisoned, noteVars
<1> QED BY <1>1, <1>2, Frame DEF SkipPoisoned, TypeInv, TypeOK, Control

\* A step of a pass over `.notification/`.
LEMMA SyncType ==
  ASSUME TypeInv, NEW t \in Threads, Sync(t)
  PROVE  TypeInv'
<1>1. CASE SyncUnchanged(t)
  <2>1. t = "rl" => pc = "sync"
    BY <1>1 DEF SyncUnchanged, MayEnter, TypeInv, Control, SyncWaits
  <2>2. SyncOK' /\ Control'
    BY <1>1, <2>1, SyncDoneType DEF SyncUnchanged, noteVars
  <2> QED BY <1>1, <2>2, Frame DEF SyncUnchanged, TypeInv, TypeOK, Control
<1>2. CASE SyncSkipAtEntry(t)
  BY <1>2, SkipType DEF SyncSkipAtEntry, MayEnter, TypeInv, Control, SyncWaits
<1>3. CASE SyncCollect(t)
  <2>1. t = "rl" => pc = "sync"
    BY <1>3 DEF SyncCollect, MayEnter, TypeInv, Control, SyncWaits
  <2>2. sat' \in [Threads -> SyncSteps] /\ Control'
    BY <1>3, <2>1, SyncToType DEF SyncCollect, SyncSteps, noteVars
  <2>3. SyncOK'
    BY <1>3, <2>2 DEF SyncCollect, TypeInv, TypeOK, SyncOK, NoteOK
  <2> QED BY <1>3, <2>2, <2>3, Frame DEF SyncCollect, TypeInv, TypeOK, Control
<1>4. CASE SyncClear(t)
  <2>1. t = "rl" => pc = "sync"
    BY <1>4 DEF SyncClear, TypeInv, Control, SyncWaits
  <2>2. SyncOK' /\ Control'
    BY <1>4, <2>1, SyncDoneType DEF SyncClear, noteVars
  <2>3. HoldOK'
    BY <1>4 DEF SyncClear, TypeInv, TypeOK, HoldOK, Skeletonize
  <2>4. NoteOK'
    BY <1>4 DEF SyncClear, TypeInv, TypeOK, NoteOK, SyncOK
  <2> QED BY <1>4, <2>2, <2>3, <2>4, Frame DEF SyncClear, TypeInv, TypeOK,
       Control
<1>5. CASE SyncWakeAgent(t)
  <2>1. t = "rl" => pc = "sync"
    BY <1>5 DEF SyncWakeAgent, TypeInv, Control, SyncWaits
  <2>2. sat' \in [Threads -> SyncSteps] /\ Control'
    BY <1>5, <2>1, SyncToType DEF SyncWakeAgent, SyncSteps, noteVars
  <2>3. SyncOK'
    BY <1>5, <2>2 DEF SyncWakeAgent, TypeInv, TypeOK, SyncOK
  <2>4. LifeOK'
    BY <1>5 DEF SyncWakeAgent, TypeInv, TypeOK, LifeOK, States
  <2> QED BY <1>5, <2>2, <2>3, <2>4, Frame DEF SyncWakeAgent, TypeInv, TypeOK,
       Control
<1>6. CASE SyncBranch(t)
  <2>1. t = "rl" => pc = "sync"
    BY <1>6 DEF SyncBranch, TypeInv, Control, SyncWaits
  <2>2. sat' \in [Threads -> SyncSteps] /\ Control'
    BY <1>6, <2>1, SyncToType DEF SyncBranch, SyncSteps, noteVars
  <2>3. SyncOK'
    BY <1>6, <2>2 DEF SyncBranch, TypeInv, TypeOK, SyncOK
  <2> QED BY <1>6, <2>2, <2>3, Frame DEF SyncBranch, TypeInv, TypeOK, Control
<1>7. CASE SyncInject(t)
  <2>1. t = "rl" => pc = "sync"
    BY <1>7 DEF SyncInject, TypeInv, Control, SyncWaits
  <2>2. sat' \in [Threads -> SyncSteps] /\ Control'
    BY <1>7, <2>1, SyncToType DEF SyncInject, SyncSteps, noteVars
  <2>3. SyncOK'
    BY <1>7, <2>2 DEF SyncInject, TypeInv, TypeOK, SyncOK
  <2> QED BY <1>7, <2>2, <2>3, Frame DEF SyncInject, TypeInv, TypeOK, Control
<1>8. CASE SyncInjectRefused(t)
  <2>1. t = "rl" => pc = "sync"
    BY <1>8 DEF SyncInjectRefused, TypeInv, Control, SyncWaits
  <2>2. sat' \in [Threads -> SyncSteps] /\ Control'
    BY <1>8, <2>1, SyncToType DEF SyncInjectRefused, SyncSteps, noteVars
  <2>3. SyncOK'
    BY <1>8, <2>2 DEF SyncInjectRefused, TypeInv, TypeOK, SyncOK
  <2> QED BY <1>8, <2>2, <2>3, Frame DEF SyncInjectRefused, TypeInv, TypeOK,
       Control
<1>9. CASE SyncAppend(t)
  <2>1. t = "rl" => pc = "sync"
    BY <1>9 DEF SyncAppend, TypeInv, Control, SyncWaits
  <2>2. sat' \in [Threads -> SyncSteps] /\ Control'
    BY <1>9, <2>1, SyncToType DEF SyncAppend, SyncSteps, noteVars
  <2>3. SyncOK'
    BY <1>9, <2>2 DEF SyncAppend, TypeInv, TypeOK, SyncOK
  <2>4. WireOK'
    BY <1>9 DEF SyncAppend, TypeInv, TypeOK, WireOK
  <2>5. HoldOK'
    BY <1>9 DEF SyncAppend, TypeInv, TypeOK, HoldOK, SyncOK
  <2> QED BY <1>9, <2>2, <2>3, <2>4, <2>5, Frame DEF SyncAppend, TypeInv,
       TypeOK, Control
<1>10. CASE SyncHeal(t)
  <2>1. t = "rl" => pc = "sync"
    BY <1>10 DEF SyncHeal, TypeInv, Control, SyncWaits
  <2>2. sat' \in [Threads -> SyncSteps] /\ Control'
    BY <1>10, <2>1, SyncToType DEF SyncHeal, SyncSteps, noteVars
  <2>3. SyncOK'
    BY <1>10, <2>2 DEF SyncHeal, TypeInv, TypeOK, SyncOK
  <2> QED BY <1>10, <2>2, <2>3, Frame DEF SyncHeal, TypeInv, TypeOK, Control
<1>11. CASE SyncClose(t)
  <2>1. t = "rl" => pc = "sync"
    BY <1>11 DEF SyncClose, TypeInv, Control, SyncWaits
  <2>2. sat' \in [Threads -> SyncSteps] /\ Control'
    BY <1>11, <2>1, SyncToType DEF SyncClose, SyncSteps, noteVars
  <2>3. SyncOK'
    BY <1>11, <2>2 DEF SyncClose, TypeInv, TypeOK, SyncOK
  <2>4. WireOK'
    BY <1>11 DEF SyncClose, TypeInv, TypeOK, WireOK, ClosePending,
         BatchAfterClose
  <2> QED BY <1>11, <2>2, <2>3, <2>4, Frame DEF SyncClose, TypeInv, TypeOK,
       Control
<1>12. CASE SyncPostWake(t)
  <2>1. t = "rl" => pc = "sync"
    BY <1>12 DEF SyncPostWake, TypeInv, Control, SyncWaits
  <2>2. sat' \in [Threads -> SyncSteps] /\ Control'
    BY <1>12, <2>1, SyncToType DEF SyncPostWake, SyncSteps, noteVars
  <2>3. SyncOK'
    BY <1>12, <2>2 DEF SyncPostWake, TypeInv, TypeOK, SyncOK
  <2>4. QueueOK'
    BY <1>12 DEF SyncPostWake, TypeInv, TypeOK, QueueOK
  <2> QED BY <1>12, <2>2, <2>3, <2>4, Frame DEF SyncPostWake, TypeInv, TypeOK,
       Control
<1>13. CASE SyncDegrade(t)
  <2>1. t = "rl" => pc = "sync"
    BY <1>13 DEF SyncDegrade, TypeInv, Control, SyncWaits
  <2>2. sat' \in [Threads -> SyncSteps] /\ Control'
    BY <1>13, <2>1, SyncToType DEF SyncDegrade, SyncSteps, noteVars
  <2>3. SyncOK'
    BY <1>13, <2>2 DEF SyncDegrade, TypeInv, TypeOK, SyncOK
  <2>4. QueueOK'
    BY <1>13 DEF SyncDegrade, TypeInv, TypeOK, QueueOK
  <2>5. NoteOK'
    BY <1>13 DEF SyncDegrade, TypeInv, TypeOK, NoteOK, SyncOK
  <2> QED BY <1>13, <2>2, <2>3, <2>4, <2>5, Frame DEF SyncDegrade, TypeInv,
       TypeOK, Control
<1>14. CASE SyncCommit(t)
  <2>1. t = "rl" => pc = "sync"
    BY <1>14 DEF SyncCommit, TypeInv, Control, SyncWaits
  <2>2. SyncOK' /\ Control'
    BY <1>14, <2>1, SyncDoneType DEF SyncCommit, noteVars
  <2>3. NoteOK'
    BY <1>14 DEF SyncCommit, TypeInv, TypeOK, NoteOK, SyncOK
  <2> QED BY <1>14, <2>2, <2>3, Frame DEF SyncCommit, TypeInv, TypeOK, Control
<1>15. CASE SyncSkipLater(t)
  BY <1>15, SkipType DEF SyncSkipLater, TypeInv, Control, SyncWaits
<1> QED BY <1>1, <1>2, <1>3, <1>4, <1>5, <1>6, <1>7, <1>8, <1>9, <1>10, <1>11,
     <1>12, <1>13, <1>14, <1>15 DEF Sync

\* The run loop asleep, awake, and taking a message.
LEMMA TakeType ==
  ASSUME TypeInv, Take
  PROVE  TypeInv'
<1>1. CASE LoopExit
  <2>1. Control'
    BY <1>1 DEF LoopExit, Goto, TypeInv, TypeOK, Control, PcOK, Labels,
         SyncWaits, AttemptLeft, StopLeft, Working, MayPublish, turnVars,
         noteVars, syncVars
  <2> QED BY <1>1, <2>1, Frame DEF LoopExit, TypeInv, TypeOK, Control
<1>2. CASE FallAsleep
  <2>1. WireOK'
    BY <1>2 DEF FallAsleep, ClosePending, BatchAfterClose, wireVars, TypeInv,
         TypeOK, WireOK
  <2>2. Control'
    BY <1>2 DEF FallAsleep, Goto, TypeInv, TypeOK, Control, PcOK, Labels,
         SyncWaits, AttemptLeft, StopLeft, Working, MayPublish, turnVars,
         noteVars, syncVars
  <2> QED BY <1>2, <2>1, <2>2, Frame DEF FallAsleep, TypeInv, TypeOK, Control
<1>3. CASE BecomeAwake
  <2>1. Control'
    BY <1>3 DEF BecomeAwake, Goto, TypeInv, TypeOK, Control, PcOK, Labels,
         SyncWaits, AttemptLeft, StopLeft, Working, MayPublish, turnVars,
         noteVars, syncVars
  <2> QED BY <1>3, <2>1, Frame DEF BecomeAwake, TypeInv, TypeOK, Control
<1>4. CASE TakeMessage
  <2>1. QueueOK'
    BY <1>4 DEF TakeMessage, TypeInv, TypeOK, QueueOK
  <2>2. TurnOK'
    BY <1>4 DEF TakeMessage, QueueOK, TypeInv, TypeOK, TurnOK
  <2>3. Control'
    BY <1>4 DEF TakeMessage, Goto, TypeInv, TypeOK, Control, PcOK, Labels,
         SyncWaits, AttemptLeft, StopLeft, Working, MayPublish, turnVars,
         noteVars, syncVars
  <2> QED BY <1>4, <2>1, <2>2, <2>3, Frame DEF TakeMessage, TypeInv, TypeOK,
       Control
<1>5. CASE TakeTimeout
  <2>1. Control'
    BY <1>5 DEF TakeTimeout, Goto, TypeInv, TypeOK, Control, PcOK, Labels,
         SyncWaits, AttemptLeft, StopLeft, Working, MayPublish, turnVars,
         noteVars, syncVars
  <2> QED BY <1>5, <2>1, Frame DEF TakeTimeout, TypeInv, TypeOK, Control
<1> QED BY <1>1, <1>2, <1>3, <1>4, <1>5 DEF Take

\* The start of a turn.
LEMMA BeginType ==
  ASSUME TypeInv, Begin
  PROVE  TypeInv'
<1>1. CASE StartTurn
  <2>1. LifeOK'
    BY <1>1 DEF StartTurn, States, TypeInv, TypeOK, LifeOK
  <2>2. QueueOK'
    BY <1>1, ConcatType DEF StartTurn, TypeInv, TypeOK, QueueOK
  <2>3. TurnOK'
    BY <1>1, BoundAssumption DEF StartTurn, TypeInv, TypeOK, TurnOK
  <2>4. Control'
    BY <1>1, BoundAssumption DEF StartTurn, Goto, TypeInv, TypeOK, Control,
         PcOK, Labels, SyncWaits, AttemptLeft, StopLeft, Working, MayPublish,
         turnVars, noteVars, syncVars
  <2> QED BY <1>1, <2>1, <2>2, <2>3, <2>4, Frame DEF StartTurn, TypeInv,
       TypeOK, Control
<1>2. CASE RefusePoisoned
  <2>1. LifeOK'
    BY <1>2 DEF RefusePoisoned, RequestRefresh, PerformRefresh, TypeInv,
         TypeOK, LifeOK
  <2>2. FlagOK'
    BY <1>2 DEF RefusePoisoned, RequestRefresh, PerformRefresh, TypeInv,
         TypeOK, FlagOK
  <2>3. TurnOK'
    BY <1>2 DEF RefusePoisoned, TypeInv, TypeOK, TurnOK
  <2>4. Control'
    BY <1>2 DEF RefusePoisoned, Goto, TypeInv, TypeOK, Control, PcOK, Labels,
         SyncWaits, AttemptLeft, StopLeft, Working, MayPublish, turnVars,
         noteVars, syncVars
  <2> QED BY <1>2, <2>1, <2>2, <2>3, <2>4, Frame DEF RefusePoisoned, TypeInv,
       TypeOK, Control
<1>3. CASE HandleRequest
  <2>1. TurnOK'
    BY <1>3, BoundAssumption DEF HandleRequest, TypeInv, TypeOK, TurnOK
  <2>2. Control'
    BY <1>3 DEF HandleRequest, Goto, BeginSync, TypeInv, TypeOK, Control,
         PcOK, Labels, SyncWaits, AttemptLeft, StopLeft, Working, MayPublish,
         turnVars, noteVars, syncVars
  <2> QED BY <1>3, <2>1, <2>2, Frame DEF HandleRequest, TypeInv, TypeOK,
       Control
<1>4. CASE HandleTcWake
  <2>1. TurnOK'
    BY <1>4, BoundAssumption DEF HandleTcWake, TypeInv, TypeOK, TurnOK
  <2>2. Control'
    BY <1>4 DEF HandleTcWake, Goto, TypeInv, TypeOK, Control, PcOK, Labels,
         SyncWaits, AttemptLeft, StopLeft, Working, MayPublish, turnVars,
         noteVars, syncVars
  <2> QED BY <1>4, <2>1, <2>2, Frame DEF HandleTcWake, TypeInv, TypeOK,
       Control
<1> QED BY <1>1, <1>2, <1>3, <1>4 DEF Begin

\* The three ways an LLM call is made.
LEMMA CallType ==
  ASSUME TypeInv, Call
  PROVE  TypeInv'
<1>1. CASE SendText
  <2>1. WireOK'
    BY <1>1 DEF SendText, BatchAfterClose, TypeInv, TypeOK, WireOK
  <2>2. HoldOK'
    BY <1>1 DEF SendText, Visible, TypeInv, TypeOK, HoldOK
  <2>3. TurnOK'
    BY <1>1 DEF SendText, TypeInv, TypeOK, TurnOK
  <2>4. Control'
    BY <1>1 DEF SendText, Goto, TypeInv, TypeOK, Control, PcOK, Labels,
         SyncWaits, AttemptLeft, StopLeft, Working, MayPublish, turnVars,
         noteVars, syncVars
  <2> QED BY <1>1, <2>1, <2>2, <2>3, <2>4, Frame DEF SendText, TypeInv,
       TypeOK, Control
<1>2. CASE SendResults
  <2>1. WireOK'
    BY <1>2 DEF SendResults, CommitResults, TypeInv, TypeOK, WireOK
  <2>2. HoldOK'
    BY <1>2 DEF SendResults, CommitResults, Visible, TypeInv, TypeOK, HoldOK
  <2>3. TurnOK'
    BY <1>2 DEF SendResults, TypeInv, TypeOK, TurnOK
  <2>4. Control'
    BY <1>2 DEF SendResults, Goto, TypeInv, TypeOK, Control, PcOK, Labels,
         SyncWaits, AttemptLeft, StopLeft, Working, MayPublish, turnVars,
         noteVars, syncVars
  <2> QED BY <1>2, <2>1, <2>2, <2>3, <2>4, Frame DEF SendResults, TypeInv,
       TypeOK, Control
<1>3. CASE SendNone
  <2>1. HoldOK'
    BY <1>3 DEF SendNone, Visible, TypeInv, TypeOK, HoldOK
  <2>2. TurnOK'
    BY <1>3 DEF SendNone, TypeInv, TypeOK, TurnOK
  <2>3. Control'
    BY <1>3 DEF SendNone, Goto, TypeInv, TypeOK, Control, PcOK, Labels,
         SyncWaits, AttemptLeft, StopLeft, Working, MayPublish, turnVars,
         noteVars, syncVars
  <2> QED BY <1>3, <2>1, <2>2, <2>3, Frame DEF SendNone, TypeInv, TypeOK,
       Control
<1> QED BY <1>1, <1>2, <1>3 DEF Call

\* What comes of an LLM call.
LEMMA AnswerType ==
  ASSUME TypeInv, Answer
  PROVE  TypeInv'
<1>1. ASSUME NEW kind \in {"reply", "calls"}, LlmAnswer(kind) PROVE TypeInv'
  <2>1. WireOK'
    BY <1>1 DEF LlmAnswer, AppendAssistant, TypeInv, TypeOK, WireOK
  <2>2. HoldOK'
    BY <1>1 DEF LlmAnswer, AppendAssistant, TypeInv, TypeOK, HoldOK
  <2>3. TurnOK'
    BY <1>1 DEF LlmAnswer, TypeInv, TypeOK, TurnOK
  <2>4. NoteOK'
    BY <1>1 DEF LlmAnswer, HoldOK, TypeInv, TypeOK, NoteOK
  <2>5. Control'
    BY <1>1, BoundAssumption DEF LlmAnswer, Goto, Answered, BeginSync, TurnOK,
         NoteOK, TypeInv, TypeOK, Control, PcOK, Labels, SyncWaits,
         AttemptLeft, StopLeft, Working, MayPublish, turnVars, noteVars,
         syncVars
  <2> QED BY <1>1, <2>1, <2>2, <2>3, <2>4, <2>5, Frame DEF LlmAnswer, TypeInv,
       TypeOK, Control
<1>2. CASE LlmEmpty
  <2>1. HoldOK'
    BY <1>2 DEF LlmEmpty, TypeInv, TypeOK, HoldOK
  <2>2. TurnOK'
    BY <1>2 DEF LlmEmpty, TypeInv, TypeOK, TurnOK
  <2>3. Control'
    BY <1>2 DEF LlmEmpty, Goto, Answered, BeginSync, TypeInv, TypeOK, Control,
         PcOK, Labels, SyncWaits, AttemptLeft, StopLeft, Working, MayPublish,
         turnVars, noteVars, syncVars
  <2> QED BY <1>2, <2>1, <2>2, <2>3, Frame DEF LlmEmpty, TypeInv, TypeOK,
       Control
<1>3. ASSUME NEW f \in {"transient", "hard"}, LlmFail(f) PROVE TypeInv'
  <2>1. WireOK'
    BY <1>3 DEF LlmFail, RollBack, CommitsAgain, DropTrailing, HolderDropped, ClosePending, BatchAfterClose,
                TypeInv, TypeOK, WireOK
  <2>2. HoldOK'
    BY <1>3 DEF LlmFail, RollBack, CommitsAgain, DropTrailing, HolderDropped, Skeletonize, TypeInv, TypeOK,
                HoldOK
  <2>3. TurnOK'
    BY <1>3 DEF LlmFail, TypeInv, TypeOK, TurnOK
  <2>4. Control'
    BY <1>3 DEF LlmFail, Goto, TypeInv, TypeOK, Control, PcOK, Labels,
         SyncWaits, AttemptLeft, StopLeft, Working, MayPublish, turnVars,
         noteVars, syncVars
  <2> QED BY <1>3, <2>1, <2>2, <2>3, <2>4, Frame DEF LlmFail, TypeInv, TypeOK,
       Control
<1>4. CASE LlmHang
  <2>1. HoldOK'
    BY <1>4 DEF LlmHang, TypeInv, TypeOK, HoldOK
  <2>2. Control'
    BY <1>4 DEF LlmHang, Goto, TypeInv, TypeOK, Control, PcOK, Labels,
         SyncWaits, AttemptLeft, StopLeft, Working, MayPublish, turnVars,
         noteVars, syncVars
  <2> QED BY <1>4, <2>1, <2>2, Frame DEF LlmHang, TypeInv, TypeOK, Control
<1> QED BY <1>1, <1>2, <1>3, <1>4 DEF Answer

\* The tool loop.
LEMMA ProcessType ==
  ASSUME TypeInv, Process
  PROVE  TypeInv'
<1>1. CASE EnterProcessing
  <2>1. LifeOK'
    BY <1>1 DEF EnterProcessing, TypeInv, TypeOK, LifeOK
  <2>2. Control'
    BY <1>1 DEF EnterProcessing, Goto, TypeInv, TypeOK, Control, PcOK, Labels,
         SyncWaits, AttemptLeft, StopLeft, Working, MayPublish, turnVars,
         noteVars, syncVars
  <2> QED BY <1>1, <2>1, <2>2, Frame DEF EnterProcessing, TypeInv, TypeOK,
       Control
<1>2. CASE RaiseEmpty
  <2>1. TurnOK'
    BY <1>2 DEF RaiseEmpty, TypeInv, TypeOK, TurnOK
  <2>2. Control'
    BY <1>2 DEF RaiseEmpty, Goto, TypeInv, TypeOK, Control, PcOK, Labels,
         SyncWaits, AttemptLeft, StopLeft, Working, MayPublish, turnVars,
         noteVars, syncVars
  <2> QED BY <1>2, <2>1, <2>2, Frame DEF RaiseEmpty, TypeInv, TypeOK, Control
<1>3. CASE FinalText
  <2>1. Control'
    BY <1>3 DEF FinalText, Goto, Finish, BeginSync, TypeInv, TypeOK, Control,
         PcOK, Labels, SyncWaits, AttemptLeft, StopLeft, Working, MayPublish,
         turnVars, noteVars, syncVars
  <2> QED BY <1>3, <2>1, Frame DEF FinalText, TypeInv, TypeOK, Control
<1>4. CASE CancelBeforeDispatch
  <2>1. LifeOK'
    BY <1>4 DEF CancelBeforeDispatch, TypeInv, TypeOK, LifeOK
  <2>2. WireOK'
    BY <1>4 DEF CancelBeforeDispatch, TypeInv, TypeOK, WireOK
  <2>3. Control'
    BY <1>4 DEF CancelBeforeDispatch, Goto, Finish, BeginSync, TypeInv,
         TypeOK, Control, PcOK, Labels, SyncWaits, AttemptLeft, StopLeft,
         Working, MayPublish, turnVars, noteVars, syncVars
  <2> QED BY <1>4, <2>1, <2>2, <2>3, Frame DEF CancelBeforeDispatch, TypeInv,
       TypeOK, Control
<1>5. CASE GuardStops
  <2>1. WireOK'
    BY <1>5 DEF GuardStops, TypeInv, TypeOK, WireOK
  <2>2. HoldOK'
    BY <1>5 DEF GuardStops, PublishKernelNote, TypeInv, TypeOK, HoldOK
  <2>3. NoteOK'
    BY <1>5, NotesAssumption, BoundAssumption DEF GuardStops,
         PublishKernelNote, StopLeft, Control, MayPublish, TypeInv, TypeOK,
         NoteOK
  <2>4. SyncOK'
    BY <1>5 DEF GuardStops, PublishKernelNote, TypeInv, TypeOK, SyncOK
  <2>5. Control'
    BY <1>5 DEF GuardStops, Goto, Finish, BeginSync, TypeInv, TypeOK, Control,
         PcOK, Labels, SyncWaits, AttemptLeft, StopLeft, Working, MayPublish,
         turnVars, noteVars, syncVars
  <2> QED BY <1>5, <2>1, <2>2, <2>3, <2>4, <2>5, Frame DEF GuardStops,
       TypeInv, TypeOK, Control
<1>6. ASSUME NEW e \in AllEffects, Dispatch(e) PROVE TypeInv'
  <2>1. TurnOK'
    BY <1>6, BoundAssumption DEF Dispatch, TypeInv, TypeOK, TurnOK
  <2>2. Control'
    BY <1>6 DEF Dispatch, Goto, TypeInv, TypeOK, Control, PcOK, Labels,
         SyncWaits, AttemptLeft, StopLeft, Working, MayPublish, turnVars,
         noteVars, syncVars
  <2> QED BY <1>6, <2>1, <2>2, Frame DEF Dispatch, TypeInv, TypeOK, Control
<1>7. CASE ExecuteTools
  <2>1. LifeOK' /\ WireOK' /\ SyncOK'
    BY <1>7 DEF ExecuteTools, ToolDismiss, ToolSleep, ToolMolt, ToolOther,
               TypeInv, TypeOK, LifeOK, States, WireOK, wireVars, SyncOK
  <2>2. HoldOK'
    BY <1>7 DEF ExecuteTools, ToolDismiss, ToolSleep, ToolMolt, ToolOther,
               TypeInv, TypeOK, HoldOK
  <2>3. NoteOK'
    BY <1>7, NotesAssumption, BoundAssumption
    DEF ExecuteTools, ToolDismiss, ToolSleep, ToolMolt, ToolOther, TypeInv,
        TypeOK, NoteOK, noteVars, Control, StopLeft, MayPublish
  <2>4. Control'
    BY <1>7 DEF ExecuteTools, Goto, TypeInv, TypeOK, Control, PcOK, Labels,
               SyncWaits, AttemptLeft, StopLeft, Working, turnVars
  <2> QED BY <1>7, <2>1, <2>2, <2>3, <2>4, Frame
             DEF ExecuteTools, TypeInv, TypeOK, Control
<1>8. CASE Attach
  <2>1. HoldOK'
    BY <1>8 DEF Attach, AttachCleared, AttachStamped, AttachKept,
         AttachNowhere, Skeletonize, NoteOK, TypeInv, TypeOK, HoldOK
  <2>2. Control'
    BY <1>8 DEF Attach, Goto, AttachCleared, AttachStamped, AttachKept,
         AttachNowhere, TypeInv, TypeOK, Control, PcOK, Labels, SyncWaits,
         AttemptLeft, StopLeft, Working, MayPublish, turnVars, noteVars,
         syncVars
  <2> QED BY <1>8, <2>1, <2>2, Frame DEF Attach, TypeInv, TypeOK, Control
<1>9. CASE CommitFingerprint
  <2>1. NoteOK'
    BY <1>9 DEF CommitFingerprint, TypeInv, TypeOK, NoteOK
  <2>2. Control'
    BY <1>9 DEF CommitFingerprint, Goto, TypeInv, TypeOK, Control, PcOK,
         Labels, SyncWaits, AttemptLeft, StopLeft, Working, MayPublish,
         turnVars, noteVars, syncVars
  <2> QED BY <1>9, <2>1, <2>2, Frame DEF CommitFingerprint, TypeInv, TypeOK,
       Control
<1>10. CASE StopAfterTools
  <2>1. LifeOK'
    BY <1>10 DEF StopAfterTools, TypeInv, TypeOK, LifeOK
  <2>2. WireOK'
    BY <1>10 DEF StopAfterTools, CommitResults, TypeInv, TypeOK, WireOK
  <2>3. HoldOK'
    BY <1>10 DEF StopAfterTools, CommitResults, TypeInv, TypeOK, HoldOK
  <2>4. Control'
    BY <1>10 DEF StopAfterTools, Goto, Finish, BeginSync, TypeInv, TypeOK,
         Control, PcOK, Labels, SyncWaits, AttemptLeft, StopLeft, Working,
         MayPublish, turnVars, noteVars, syncVars
  <2> QED BY <1>10, <2>1, <2>2, <2>3, <2>4, Frame DEF StopAfterTools, TypeInv,
       TypeOK, Control
<1>11. CASE ContinueAfterTools
  <2>1. Control'
    BY <1>11 DEF ContinueAfterTools, Goto, TypeInv, TypeOK, Control, PcOK,
         Labels, SyncWaits, AttemptLeft, StopLeft, Working, MayPublish,
         turnVars, noteVars, syncVars
  <2> QED BY <1>11, <2>1, Frame DEF ContinueAfterTools, TypeInv, TypeOK,
       Control
<1>12. CASE AbortTools
  <2>1. TurnOK'
    BY <1>12 DEF AbortTools, Aborted, TypeInv, TypeOK, TurnOK
  <2>2. Control'
    BY <1>12 DEF AbortTools, Goto, TypeInv, TypeOK, Control, PcOK, Labels,
         SyncWaits, AttemptLeft, StopLeft, Working, MayPublish, turnVars,
         noteVars, syncVars
  <2> QED BY <1>12, <2>1, <2>2, Frame DEF AbortTools, TypeInv, TypeOK, Control
<1> QED BY <1>1, <1>2, <1>3, <1>4, <1>5, <1>6, <1>7, <1>8, <1>9, <1>10, <1>11,
     <1>12 DEF Process

\* Automatic error detection.
LEMMA AedType ==
  ASSUME TypeInv, Aed
  PROVE  TypeInv'
<1>1. CASE RetryTransient
  <2>1. WireOK'
    BY <1>1 DEF RetryTransient, ClosePending, BatchAfterClose, TypeInv,
         TypeOK, WireOK
  <2>2. TurnOK'
    BY <1>1, BoundAssumption DEF RetryTransient, TypeInv, TypeOK, TurnOK
  <2>3. Control'
    BY <1>1 DEF RetryTransient, Goto, TypeInv, TypeOK, Control, PcOK, Labels,
         SyncWaits, AttemptLeft, StopLeft, Working, MayPublish, turnVars,
         noteVars, syncVars
  <2> QED BY <1>1, <2>1, <2>2, <2>3, Frame DEF RetryTransient, TypeInv,
       TypeOK, Control
<1>2. CASE CountAttempt
  <2>1. LifeOK'
    BY <1>2 DEF CountAttempt, States, TypeInv, TypeOK, LifeOK
  <2>2. WireOK'
    BY <1>2 DEF CountAttempt, ClosePending, BatchAfterClose, TypeInv, TypeOK,
         WireOK
  <2>3. TurnOK'
    BY <1>2, BoundAssumption DEF CountAttempt, AttemptLeft, Working, Control,
         TypeInv, TypeOK, TurnOK
  <2>4. Control'
    BY <1>2 DEF CountAttempt, Goto, TypeInv, TypeOK, Control, PcOK, Labels,
         SyncWaits, AttemptLeft, StopLeft, Working, MayPublish, turnVars,
         noteVars, syncVars
  <2> QED BY <1>2, <2>1, <2>2, <2>3, <2>4, Frame DEF CountAttempt, TypeInv,
       TypeOK, Control
<1>3. CASE Recover
  <2>1. LifeOK'
    BY <1>3 DEF Recover, States, TypeInv, TypeOK, LifeOK
  <2>2. TurnOK'
    BY <1>3 DEF Recover, TypeInv, TypeOK, TurnOK
  <2>3. Control'
    BY <1>3 DEF Recover, Goto, TurnOK, TypeInv, TypeOK, Control, PcOK, Labels,
         SyncWaits, AttemptLeft, StopLeft, Working, MayPublish, turnVars,
         noteVars, syncVars
  <2> QED BY <1>3, <2>1, <2>2, <2>3, Frame DEF Recover, TypeInv, TypeOK,
       Control
<1>4. CASE FallBack
  <2>1. LifeOK'
    BY <1>4 DEF FallBack, PerformRefresh, TypeInv, TypeOK, LifeOK
  <2>2. FlagOK'
    BY <1>4 DEF FallBack, TypeInv, TypeOK, FlagOK
  <2>3. Control'
    BY <1>4 DEF FallBack, Goto, TypeInv, TypeOK, Control, PcOK, Labels,
         SyncWaits, AttemptLeft, StopLeft, Working, MayPublish, turnVars,
         noteVars, syncVars
  <2> QED BY <1>4, <2>1, <2>2, <2>3, Frame DEF FallBack, TypeInv, TypeOK,
       Control
<1>5. CASE GiveUp
  <2>1. LifeOK'
    BY <1>5 DEF GiveUp, TypeInv, TypeOK, LifeOK
  <2>2. TurnOK'
    BY <1>5 DEF GiveUp, TypeInv, TypeOK, TurnOK
  <2>3. FlagOK'
    BY <1>5, BoundAssumption DEF GiveUp, TypeInv, TypeOK, FlagOK
  <2>4. Control'
    BY <1>5 DEF GiveUp, Goto, TypeInv, TypeOK, Control, PcOK, Labels,
         SyncWaits, AttemptLeft, StopLeft, Working, MayPublish, turnVars,
         noteVars, syncVars
  <2> QED BY <1>5, <2>1, <2>2, <2>3, <2>4, Frame DEF GiveUp, TypeInv, TypeOK,
       Control
<1>6. CASE MarkPoisoned
  <2>1. LifeOK'
    BY <1>6 DEF MarkPoisoned, States, TypeInv, TypeOK, LifeOK
  <2>2. HoldOK'
    BY <1>6 DEF MarkPoisoned, PublishKernelNote, TypeInv, TypeOK, HoldOK
  <2>3. FlagOK'
    BY <1>6 DEF MarkPoisoned, TypeInv, TypeOK, FlagOK
  <2>4. NoteOK'
    BY <1>6, NotesAssumption DEF MarkPoisoned, PublishKernelNote, TypeInv,
         TypeOK, NoteOK
  <2>5. SyncOK'
    BY <1>6 DEF MarkPoisoned, PublishKernelNote, TypeInv, TypeOK, SyncOK
  <2>6. Control'
    BY <1>6 DEF MarkPoisoned, Goto, TypeInv, TypeOK, Control, PcOK, Labels,
         SyncWaits, AttemptLeft, StopLeft, Working, MayPublish, turnVars,
         noteVars, syncVars
  <2> QED BY <1>6, <2>1, <2>2, <2>3, <2>4, <2>5, <2>6, Frame DEF MarkPoisoned,
       TypeInv, TypeOK, Control
<1>7. CASE SleepPoisoned
  <2>1. LifeOK'
    BY <1>7 DEF SleepPoisoned, States, RequestRefresh, PerformRefresh,
         TypeInv, TypeOK, LifeOK
  <2>2. FlagOK'
    BY <1>7 DEF SleepPoisoned, RequestRefresh, PerformRefresh, TypeInv,
         TypeOK, FlagOK
  <2>3. TurnOK'
    BY <1>7 DEF SleepPoisoned, TypeInv, TypeOK, TurnOK
  <2>4. Control'
    BY <1>7 DEF SleepPoisoned, Goto, TypeInv, TypeOK, Control, PcOK, Labels,
         SyncWaits, AttemptLeft, StopLeft, Working, MayPublish, turnVars,
         noteVars, syncVars
  <2> QED BY <1>7, <2>1, <2>2, <2>3, <2>4, Frame DEF SleepPoisoned, TypeInv,
       TypeOK, Control
<1> QED BY <1>1, <1>2, <1>3, <1>4, <1>5, <1>6, <1>7 DEF Aed

\* The end of a turn.
LEMMA EndType ==
  ASSUME TypeInv, End
  PROVE  TypeInv'
<1>1. CASE EndTurn
  <2>1. LifeOK'
    BY <1>1 DEF EndTurn, States, TurnOK, TypeInv, TypeOK, LifeOK
  <2>2. Control'
    BY <1>1 DEF EndTurn, Goto, TypeInv, TypeOK, Control, PcOK, Labels,
         SyncWaits, AttemptLeft, StopLeft, Working, MayPublish, turnVars,
         noteVars, syncVars
  <2> QED BY <1>1, <2>1, <2>2, Frame DEF EndTurn, TypeInv, TypeOK, Control
<1>2. CASE IdleCheck
  <2>1. TurnOK'
    BY <1>2, BoundAssumption DEF IdleCheck, TurnLocals, AllEffects, TypeInv,
         TypeOK, TurnOK
  <2>2. Control'
    BY <1>2, BoundAssumption DEF IdleCheck, Goto, BeginSync, TurnLocals,
         TypeInv, TypeOK, Control, PcOK, Labels, SyncWaits, AttemptLeft,
         StopLeft, Working, MayPublish, turnVars, noteVars, syncVars
  <2> QED BY <1>2, <2>1, <2>2, Frame DEF IdleCheck, TypeInv, TypeOK, Control
<1> QED BY <1>1, <1>2 DEF End

\* The heartbeat thread: it writes the lifecycle state, and nothing else.
LEMMA HeartbeatType ==
  ASSUME TypeInv, Heartbeat
  PROVE  TypeInv'
<1>1. LifeOK' /\ HbOK'
  BY DEF Heartbeat, HbInterrupt, HbSuspend, HbRefresh, HbSleep, HbIdleTimeout,
         HbAedTimeout, HbSetAsleep, Drop, TypeInv, TypeOK, LifeOK, States, HbOK
<1>2. UNCHANGED <<queueVars, pc, back, turnVars, wireVars, holdVars, flagVars,
                  noteVars, syncVars>>
  BY DEF Heartbeat, HbInterrupt, HbSuspend, HbRefresh, HbSleep, HbIdleTimeout,
         HbAedTimeout, HbSetAsleep
<1>3. Control'
  BY <1>2 DEF TypeInv, Control, PcOK, SyncWaits, AttemptLeft, StopLeft, Working,
              MayPublish, turnVars, noteVars, syncVars
<1> QED BY <1>1, <1>2, <1>3, Frame DEF TypeInv, TypeOK, Control

\* agent.send and the notification producers.
LEMMA EnvironmentType ==
  ASSUME TypeInv, PutRequest \/ \E n \in Notes : Publish(n)
  PROVE  TypeInv'
<1>1. QueueOK' /\ NoteOK'
  BY BoundAssumption DEF PutRequest, Publish, TypeInv, TypeOK, QueueOK, NoteOK,
                         queueVars, noteVars
<1>2. Control'
  BY DEF PutRequest, Publish, TypeInv, Control, PcOK, SyncWaits, AttemptLeft,
         StopLeft, Working, MayPublish, turnVars, noteVars, syncVars
<1> QED BY <1>1, <1>2, Frame DEF PutRequest, Publish, TypeInv, TypeOK, Control

\* Every step of every thread, and the stutter.
LEMMA TypeStep == TypeInv /\ [Next]_vars => TypeInv'
<1> SUFFICES ASSUME TypeInv, [Next]_vars PROVE TypeInv'
  OBVIOUS
<1>1. CASE RunLoop
  BY <1>1, TakeType, BeginType, CallType, AnswerType, ProcessType, AedType,
     EndType DEF RunLoop
<1>2. CASE \E t \in Threads : Sync(t)
  BY <1>2, SyncType
<1>3. CASE Heartbeat
  BY <1>3, HeartbeatType
<1>4. CASE PutRequest \/ \E n \in Notes : Publish(n)
  BY <1>4, EnvironmentType
<1>5. CASE UNCHANGED vars
  <2>1. Control'
    BY <1>5 DEF vars, TypeInv, Control, PcOK, SyncWaits, AttemptLeft, StopLeft,
                Working, MayPublish, turnVars, noteVars, syncVars
  <2> QED BY <1>5, <2>1, Frame DEF vars, TypeInv, TypeOK, Control
<1> QED BY <1>1, <1>2, <1>3, <1>4, <1>5 DEF Next

\* Every variable keeps its type, whatever the threads do: in particular the
\* counters of AED, of transient retries and of the LoopGuard never pass the
\* limits the run loop tests them against, although it tests them at one place
\* and increments them at another.
THEOREM TypeCorrect == Spec => []TypeOK
<1>1. TypeInv => TypeOK
  BY DEF TypeInv
<1> QED BY <1>1, TypeInit, TypeStep, PTL DEF Spec

-----------------------------------------------------------------------------
\* Where the run loop may be once the worker is marked: not where it would
\* write the history, nor in a pass that leads back there.
FrozenLabels == {"top", "block", "woken", "await", "taken", "turn", "sync", "hang",
                 "turn_end", "idle_check", "exit"}
FrozenInv ==
  poisoned => /\ pc \in FrozenLabels
              /\ pc = "sync" => back = "top"

\* The steps that leave both alone.
LEMMA FrozenKept ==
  ASSUME FrozenInv, UNCHANGED <<poisoned, pc, back>>
  PROVE  FrozenInv'
BY DEF FrozenInv

\* A pass hands the run loop back to the head of its loop, or does not move it.
LEMMA SyncFrozenInv ==
  ASSUME TypeInv, FrozenInv, NEW t \in Threads, Sync(t)
  PROVE  FrozenInv'
<1>1. CASE SyncDone(t) /\ UNCHANGED poisoned
  BY <1>1 DEF SyncDone, Sync, FrozenInv, FrozenLabels, SyncUnchanged,
     SyncSkipAtEntry, SyncClear, SyncCommit, SyncSkipLater, MayEnter, TypeInv,
     Control, SyncWaits, SyncCollect, SyncWakeAgent, SyncBranch, SyncInject,
     SyncInjectRefused, SyncAppend, SyncHeal, SyncClose, SyncPostWake,
     SyncDegrade, SkipPoisoned, SyncTo
<1>2. CASE UNCHANGED <<poisoned, pc, back>>
  BY <1>2, FrozenKept
<1>3. (SyncDone(t) /\ UNCHANGED poisoned) \/ UNCHANGED <<poisoned, pc, back>>
  BY DEF Sync, SyncUnchanged, SyncSkipAtEntry, SyncCollect, SyncClear,
     SyncWakeAgent, SyncBranch, SyncInject, SyncInjectRefused, SyncAppend,
     SyncHeal, SyncClose, SyncPostWake, SyncDegrade, SyncCommit, SyncSkipLater,
     SkipPoisoned, SyncTo, flagVars
<1> QED BY <1>1, <1>2, <1>3

\* A marked run loop stays among those labels; it is marked at one of them.
LEMMA RunLoopFrozenInv ==
  ASSUME FrozenInv, RunLoop
  PROVE  FrozenInv'
<1>1. CASE Take \/ Begin \/ End
  BY <1>1 DEF Take, LoopExit, FallAsleep, BecomeAwake, TakeMessage,
     TakeTimeout, Begin, StartTurn, RefusePoisoned, HandleRequest,
     HandleTcWake, End, EndTurn, IdleCheck, Goto, BeginSync, FrozenInv,
     FrozenLabels, flagVars
<1>2. CASE Aed
  BY <1>2 DEF Aed, RetryTransient, CountAttempt, Recover, FallBack, GiveUp,
     MarkPoisoned, SleepPoisoned, Goto, FrozenInv, FrozenLabels, flagVars
<1>3. CASE Call \/ Answer \/ Process
  <2>1. pc \notin FrozenLabels
    BY <1>3 DEF Call, SendText, SendResults, SendNone, Answer, LlmAnswer,
       LlmEmpty, LlmFail, LlmHang, Process, EnterProcessing, RaiseEmpty,
       FinalText, CancelBeforeDispatch, GuardStops, Dispatch, ExecuteTools,
       AbortTools, Attach, CommitFingerprint, StopAfterTools, ContinueAfterTools,
       FrozenLabels
  <2>2. UNCHANGED poisoned
    BY <1>3 DEF Call, SendText, SendResults, SendNone, Answer, LlmAnswer,
       LlmEmpty, LlmFail, LlmHang, Process, EnterProcessing, RaiseEmpty,
       FinalText, CancelBeforeDispatch, GuardStops, Dispatch, ExecuteTools,
       AbortTools, Attach, CommitFingerprint, StopAfterTools,
       ContinueAfterTools, flagVars
  <2> QED BY <2>1, <2>2 DEF FrozenInv
<1> QED BY <1>1, <1>2, <1>3 DEF RunLoop

\* Every step keeps a marked run loop where it cannot write.
LEMMA FrozenInvStep == TypeInv /\ FrozenInv /\ [Next]_vars => FrozenInv'
<1> SUFFICES ASSUME TypeInv, FrozenInv, [Next]_vars PROVE FrozenInv'
  OBVIOUS
<1>1. CASE RunLoop
  BY <1>1, RunLoopFrozenInv
<1>2. CASE \E t \in Threads : Sync(t)
  BY <1>2, SyncFrozenInv
<1>3. CASE Heartbeat
  BY <1>3, FrozenKept DEF Heartbeat, HbInterrupt, HbSuspend, HbRefresh, HbSleep,
     HbIdleTimeout, HbAedTimeout, HbSetAsleep, flagVars
<1>4. CASE PutRequest \/ (\E n \in Notes : Publish(n)) \/ UNCHANGED vars
  BY <1>4, FrozenKept DEF PutRequest, Publish, flagVars, vars
<1> QED BY <1>1, <1>2, <1>3, <1>4 DEF Next

\* A pass starts to write only where it has just read the poison flag, and
\* what it writes ends that step of it.
LEMMA SyncFrozenStep ==
  ASSUME TypeInv, NEW t \in Threads, Sync(t)
  PROVE  FrozenStep
<1> SUFFICES ASSUME poisoned
             PROVE  /\ PastCheck' \subseteq PastCheck
                    /\ \/ UNCHANGED <<wireVars, live, holderAt>>
                       \/ PastCheck' # PastCheck
  BY DEF FrozenStep
<1>1. sat \in [Threads -> SyncSteps]
  BY DEF TypeInv, TypeOK, SyncOK
<1>2. CASE sat[t] \in {"clear", "append", "close"}
  <2>1. t \in PastCheck
    BY <1>2 DEF PastCheck
  <2>2. t \notin PastCheck' /\ PastCheck' \subseteq PastCheck
    BY <1>1, <1>2 DEF Sync, SyncUnchanged, SyncSkipAtEntry, SyncCollect,
       SyncClear, SyncWakeAgent, SyncBranch, SyncInject, SyncInjectRefused,
       SyncAppend, SyncHeal, SyncClose, SyncPostWake, SyncDegrade, SyncCommit,
       SyncSkipLater, MayEnter, SyncTo, SyncDone, PastCheck
  <2> QED BY <2>1, <2>2
<1>3. CASE sat[t] \notin {"clear", "append", "close"}
  <2>1. PastCheck' \subseteq PastCheck
    BY <1>1, <1>3 DEF Sync, SyncUnchanged, SyncSkipAtEntry, SyncCollect,
       SyncClear, SyncWakeAgent, SyncBranch, SyncInject, SyncInjectRefused,
       SyncAppend, SyncHeal, SyncClose, SyncPostWake, SyncDegrade, SyncCommit,
       SyncSkipLater, SkipPoisoned, SyncTo, SyncDone, PastCheck
  <2>2. UNCHANGED <<wireVars, live, holderAt>>
    BY <1>3 DEF Sync, SyncUnchanged, SyncSkipAtEntry, SyncCollect, SyncClear,
       SyncWakeAgent, SyncBranch, SyncInject, SyncInjectRefused, SyncAppend,
       SyncHeal, SyncClose, SyncPostWake, SyncDegrade, SyncCommit,
       SyncSkipLater, SkipPoisoned, wireVars, holdVars
  <2> QED BY <2>1, <2>2
<1> QED BY <1>2, <1>3

\* The steps that write no history and move no pass.
LEMMA NothingWritten ==
  ASSUME UNCHANGED <<wireVars, live, holderAt, sat>>
  PROVE  FrozenStep
BY DEF FrozenStep, PastCheck

\* The run loop, once marked, only takes messages and turns them away.
LEMMA RunLoopFrozenStep ==
  ASSUME FrozenInv, RunLoop
  PROVE  FrozenStep
<1>1. CASE ~poisoned
  BY <1>1 DEF FrozenStep
<1>2. CASE poisoned
  <2>1. pc \in FrozenLabels
    BY <1>2 DEF FrozenInv
  <2>2. UNCHANGED <<wireVars, live, holderAt, sat>>
    <3>1. CASE Take \/ Begin \/ End
      BY <1>2, <3>1 DEF Take, LoopExit, FallAsleep, BecomeAwake, TakeMessage,
         TakeTimeout, Begin, StartTurn, RefusePoisoned, HandleRequest,
         HandleTcWake, End, EndTurn, IdleCheck, wireVars, holdVars, syncVars
    <3>2. CASE Aed
      BY <1>2, <2>1, <3>2 DEF Aed, RetryTransient, CountAttempt, Recover,
         FallBack, GiveUp, MarkPoisoned, SleepPoisoned, FrozenLabels, wireVars,
         holdVars, syncVars
    <3>3. CASE Call \/ Answer \/ Process
      BY <2>1, <3>3 DEF Call, SendText, SendResults, SendNone, Answer,
         LlmAnswer, LlmEmpty, LlmFail, LlmHang, Process, EnterProcessing,
         RaiseEmpty, FinalText, CancelBeforeDispatch, GuardStops, Dispatch,
         ExecuteTools, AbortTools, Attach, CommitFingerprint,
         StopAfterTools,
         ContinueAfterTools, FrozenLabels
    <3> QED BY <3>1, <3>2, <3>3 DEF RunLoop
  <2> QED BY <2>2, NothingWritten
<1> QED BY <1>1, <1>2

\* Every step is one a marked history allows.
LEMMA FrozenStepHolds == TypeInv /\ FrozenInv /\ [Next]_vars => FrozenStep
<1> SUFFICES ASSUME TypeInv, FrozenInv, [Next]_vars PROVE FrozenStep
  OBVIOUS
<1>1. CASE RunLoop
  BY <1>1, RunLoopFrozenStep
<1>2. CASE \E t \in Threads : Sync(t)
  BY <1>2, SyncFrozenStep
<1>3. CASE Heartbeat
  BY <1>3, NothingWritten DEF Heartbeat, HbInterrupt, HbSuspend, HbRefresh,
     HbSleep, HbIdleTimeout, HbAedTimeout, HbSetAsleep, wireVars, holdVars,
     syncVars
<1>4. CASE PutRequest \/ (\E n \in Notes : Publish(n)) \/ UNCHANGED vars
  BY <1>4, NothingWritten DEF PutRequest, Publish, wireVars, holdVars, syncVars,
     vars
<1> QED BY <1>1, <1>2, <1>3, <1>4 DEF Next

\* Once a hung worker is marked no thread of the agent starts to change the
\* history the worker may still be writing, however many threads sync and
\* however their passes overlap: only a pass that had read the flag before
\* the mark finishes the one write it was about to make.
THEOREM PoisonFreezes == Spec => PoisonFrozen
<1>1. Init => FrozenInv
  BY DEF Init, FrozenInv
<1>2. TypeInv /\ FrozenInv /\ [Next]_vars => [FrozenStep]_vars
  BY FrozenStepHolds
<1> QED BY <1>1, <1>2, TypeInit, TypeStep, FrozenInvStep, PTL
        DEF Spec, PoisonFrozen

-----------------------------------------------------------------------------
\* The heal the run loop makes before it blocks asleep is not undone: nobody
\* but the run loop appends a turn with calls of the model's.
LEMMA SleepStep ==
  TypeInv /\ SleepWireAppendable /\ [Next]_vars => SleepWireAppendable'
<1> SUFFICES ASSUME TypeInv, SleepWireAppendable, [Next]_vars
             PROVE  SleepWireAppendable'
  OBVIOUS
<1>1. CASE RunLoop
  <2>1. CASE FallAsleep
    BY <2>1 DEF FallAsleep, ClosePending, Pending, SleepWireAppendable, Goto,
       flagVars
  <2>2. CASE ~FallAsleep
    <3>1. pc' # "block"
      BY <1>1, <2>2 DEF RunLoop, Take, LoopExit, BecomeAwake, TakeMessage,
         TakeTimeout, Begin, StartTurn, RefusePoisoned, HandleRequest,
         HandleTcWake, Call, SendText, SendResults, SendNone, Answer,
         LlmAnswer, Answered, LlmEmpty, LlmFail, LlmHang, Process,
         EnterProcessing, RaiseEmpty, FinalText, CancelBeforeDispatch,
         GuardStops, Dispatch, ExecuteTools, AbortTools, Attach, AttachCleared,
         AttachStamped, AttachKept, AttachNowhere, CommitFingerprint,
         StopAfterTools, ContinueAfterTools, Aed, RetryTransient, CountAttempt,
         Recover, FallBack, GiveUp, MarkPoisoned, SleepPoisoned, End, EndTurn,
         IdleCheck, Finish, Goto, BeginSync
    <3> QED BY <3>1 DEF SleepWireAppendable
  <2> QED BY <2>1, <2>2
<1>2. CASE \E t \in Threads : Sync(t)
  <2>1. PICK t \in Threads : Sync(t)
    BY <1>2
  <2>2. pc' = "block" => pc = "block"
    BY <2>1 DEF Sync, SyncUnchanged, SyncSkipAtEntry, SyncCollect, SyncClear,
       SyncWakeAgent, SyncBranch, SyncInject, SyncInjectRefused, SyncAppend,
       SyncHeal, SyncClose, SyncPostWake, SyncDegrade, SyncCommit,
       SyncSkipLater, SkipPoisoned, SyncTo, SyncDone, TypeInv, Control, PcOK
  <2>3. UNCHANGED poisoned
    BY <2>1 DEF Sync, SyncUnchanged, SyncSkipAtEntry, SyncCollect, SyncClear,
       SyncWakeAgent, SyncBranch, SyncInject, SyncInjectRefused, SyncAppend,
       SyncHeal, SyncClose, SyncPostWake, SyncDegrade, SyncCommit,
       SyncSkipLater, SkipPoisoned, flagVars
  <2>4. Pending' => Pending
    BY <2>1 DEF Sync, SyncUnchanged, SyncSkipAtEntry, SyncCollect, SyncClear,
       SyncWakeAgent, SyncBranch, SyncInject, SyncInjectRefused, SyncAppend,
       SyncHeal, SyncClose, SyncPostWake, SyncDegrade, SyncCommit,
       SyncSkipLater, SkipPoisoned, ClosePending, Pending, wireVars
  <2> QED BY <2>2, <2>3, <2>4 DEF SleepWireAppendable
<1>3. CASE Heartbeat
  BY <1>3 DEF Heartbeat, HbInterrupt, HbSuspend, HbRefresh, HbSleep,
     HbIdleTimeout, HbAedTimeout, HbSetAsleep, SleepWireAppendable, Pending,
     wireVars, flagVars
<1>4. CASE PutRequest \/ (\E n \in Notes : Publish(n)) \/ UNCHANGED vars
  BY <1>4 DEF PutRequest, Publish, SleepWireAppendable, Pending, wireVars,
     flagVars, vars
<1> QED BY <1>1, <1>2, <1>3, <1>4 DEF Next

\* The history a sleeping agent saves can be appended to after a relaunch:
\* the heal before the wait covers every way a turn may end, the cancel that
\* leaves its calls dangling included, and no pass of another thread undoes
\* it while the agent sleeps.
THEOREM SleepAppendable == Spec => []SleepWireAppendable
<1>1. Init => SleepWireAppendable
  BY DEF Init, SleepWireAppendable
<1> QED BY <1>1, TypeInit, TypeStep, SleepStep, PTL DEF Spec

-----------------------------------------------------------------------------
(* What becomes of a notification: both arguments start from PassInv, which *)
(* says what a pass knows of the files and of the payload from the moment  *)
(* it reads the channels to the moment it commits their fingerprint.       *)

\* What the theorems below are about: passes outside the two windows, and no call
\* that fails (a worker may hang, and a refresh fail).
Apart     == Windows = {}
NoFailure == Faults \subseteq {"hang", "refresh"}

\* Notifications that count as told: committed, or recorded as shown by a batch.
Told == fp \cup sig

\* One pass at a time, and none while a batch commits.
OnePass  == \A t, u \in Threads : sat[t] # "idle" /\ sat[u] # "idle" => t = u
PassAway == pc = "commit" => \A t \in Threads : sat[t] = "idle"

\* What is known of a notification is known of one that was written.
Known == /\ files \subseteq published /\ fp \subseteq published /\ sig \subseteq published
         /\ \A t \in Threads : snap[t] \subseteq published

\* A pass has read what was told and is still there; one that has appended what
\* it read finds it in the live payload.
ReadOnEntry ==
  \A t \in Threads : /\ sat[t] # "idle" => Told \cap files \subseteq snap[t]
                     /\ sat[t] = "clear" => snap[t] = {}
Appended == \A t \in Threads : sat[t] \in {"wake", "commit_ok"} => snap[t] \subseteq live

\* The payload is in the history, but between a batch that carries it and the
\* commit of the batch's results; no failed call took its holder out.
Placed == /\ holderAt = "batch" => pc \in {"commit", "after", "send_results"} /\ HasResults
          /\ holderAt = "none" => live = {}
          /\ holderAt # "gone"

\* No call failed, and nothing closed the calls a pass has healed.
Sound == /\ state \notin {"STUCK", "SUSPENDED"} /\ pc \notin {"error", "aed"}
         /\ outcome \in {"reply", "calls"}
NeverDegrades ==
  \A t \in Threads : sat[t] # "degrade" /\ (sat[t] = "reinject" => ~Pending)

PassInv == OnePass /\ PassAway /\ Known /\ ReadOnEntry /\ Appended /\ Placed
           /\ Sound /\ NeverDegrades

\* What the two arguments below add: a pass that has healed, or appended, is not in
\* the way of an answer or of a molt.
OutOfTheWay ==
  /\ pc = "llm" => \A t \in Threads : sat[t] # "reinject"
  /\ pc = "exec" /\ effect = "molt" =>
       \A t \in Threads : sat[t] \notin {"wake", "commit_ok", "reinject"}

-----------------------------------------------------------------------------
\* Neither flag of the process is ever taken back.
LEMMA AliveBefore == [Next]_vars /\ Alive' => Alive
<1> SUFFICES ASSUME [Next]_vars, Alive' PROVE Alive
  OBVIOUS
<1>1. CASE RunLoop
  <2>1. CASE Take \/ Begin \/ Call \/ Answer \/ End
    BY <2>1 DEF Alive, Take, LoopExit, FallAsleep, BecomeAwake, TakeMessage,
       TakeTimeout, Begin, StartTurn, RefusePoisoned, RequestRefresh,
       PerformRefresh, HandleRequest, HandleTcWake, Call, SendText, SendResults,
       SendNone, Answer, LlmAnswer, LlmEmpty, LlmFail, LlmHang, End, EndTurn,
       IdleCheck, lifeVars, flagVars
  <2>2. CASE Process
    BY <2>2 DEF Alive, Process, EnterProcessing, RaiseEmpty, FinalText,
       CancelBeforeDispatch, GuardStops, Dispatch, ExecuteTools, AbortTools,
       Attach, CommitFingerprint, StopAfterTools, ContinueAfterTools, lifeVars,
       flagVars
  <2>3. CASE Aed
    BY <2>3 DEF Alive, Aed, RetryTransient, CountAttempt, Recover, FallBack,
       GiveUp, MarkPoisoned, SleepPoisoned, RequestRefresh, PerformRefresh,
       lifeVars, flagVars
  <2> QED BY <1>1, <2>1, <2>2, <2>3 DEF RunLoop
<1>2. CASE \E t \in Threads : Sync(t)
  BY <1>2 DEF Alive, Sync, SyncUnchanged, SyncSkipAtEntry, SyncCollect, SyncClear,
     SyncWakeAgent, SyncBranch, SyncInject, SyncInjectRefused, SyncAppend,
     SyncHeal, SyncClose, SyncPostWake, SyncDegrade, SyncCommit, SyncSkipLater,
     SkipPoisoned, RequestRefresh, PerformRefresh, lifeVars, flagVars
<1>3. CASE Heartbeat
  BY <1>3 DEF Alive, Heartbeat, HbInterrupt, HbSuspend, HbRefresh, HbSleep,
     HbIdleTimeout, HbAedTimeout, HbSetAsleep, Drop, lifeVars, flagVars
<1>4. CASE PutRequest \/ (\E n \in Notes : Publish(n)) \/ UNCHANGED vars
  BY <1>4 DEF Alive, PutRequest, Publish, lifeVars, flagVars, vars
<1> QED BY <1>1, <1>2, <1>3, <1>4 DEF Next

\* A step that leaves passes, notifications and payload alone.
LEMMA PassFrame ==
  ASSUME PassInv, UNCHANGED <<sat, snap, files, fp, sig, published, live, holderAt>>,
         pc' # "commit", pc' \notin {"error", "aed"},
         holderAt = "batch" => pc' \in {"after", "send_results"} /\ HasResults',
         state' \notin {"STUCK", "SUSPENDED"}, outcome' \in {"reply", "calls"},
         \A t \in Threads : sat[t] = "reinject" => ~Pending'
  PROVE  PassInv'
<1>1. OnePass' /\ PassAway'
  BY DEF PassInv, OnePass, PassAway
<1>2. Known' /\ ReadOnEntry' /\ Appended'
  BY DEF PassInv, Known, ReadOnEntry, Appended, Told
<1>3. Placed'
  BY DEF PassInv, Placed
<1>4. Sound' /\ NeverDegrades'
  BY DEF PassInv, Sound, NeverDegrades
<1> QED BY <1>1, <1>2, <1>3, <1>4 DEF PassInv

\* The steps of the run loop that only move it, or write the history but not the
\* payload.
LEMMA QuietPass ==
  ASSUME TypeInv, PassInv, OutOfTheWay, Alive, Alive', NoFailure,
         \/ Take \/ Begin \/ End \/ SendText \/ SendNone \/ LlmHang
         \/ EnterProcessing \/ FinalText \/ CancelBeforeDispatch
         \/ (\E e \in AllEffects : Dispatch(e)) \/ AbortTools \/ ContinueAfterTools
  PROVE  PassInv'
<1>1. UNCHANGED <<sat, snap, files, fp, sig, published, live, holderAt>>
  BY DEF Take, LoopExit, FallAsleep, BecomeAwake, TakeMessage, TakeTimeout, Begin,
     StartTurn, RefusePoisoned, HandleRequest, HandleTcWake, End, EndTurn,
     IdleCheck, SendText, SendNone, LlmHang, EnterProcessing, FinalText,
     CancelBeforeDispatch, Dispatch, AbortTools, ContinueAfterTools, syncVars,
     noteVars, holdVars
<1>2. pc' # "commit" /\ pc' \notin {"error", "aed"}
  BY DEF Take, LoopExit, FallAsleep, BecomeAwake, TakeMessage, TakeTimeout, Begin,
     StartTurn, RefusePoisoned, HandleRequest, HandleTcWake, End, EndTurn,
     IdleCheck, SendText, SendNone, LlmHang, EnterProcessing, FinalText,
     CancelBeforeDispatch, Dispatch, AbortTools, ContinueAfterTools, Goto,
     BeginSync, Finish
<1>3. holderAt = "batch" => pc' \in {"after", "send_results"} /\ HasResults'
  <2> SUFFICES ASSUME holderAt = "batch"
               PROVE  pc' \in {"after", "send_results"} /\ HasResults'
    OBVIOUS
  <2>1. pc \in {"commit", "after", "send_results"} /\ HasResults
    BY DEF PassInv, Placed
  <2> QED BY <2>1 DEF Take, LoopExit, FallAsleep, BecomeAwake, TakeMessage,
             TakeTimeout, Begin, StartTurn, RefusePoisoned, HandleRequest,
             HandleTcWake, End, EndTurn, IdleCheck, SendText, SendNone, LlmHang,
             EnterProcessing, FinalText, CancelBeforeDispatch, Dispatch,
             AbortTools, ContinueAfterTools, Goto, HasResults, turnVars
<1>4. state' \notin {"STUCK", "SUSPENDED"} /\ outcome' \in {"reply", "calls"}
  <2>1. state' \in {state, "ACTIVE", sleepState} /\ outcome' \in {outcome, "reply"}
    BY DEF Take, LoopExit, FallAsleep, BecomeAwake, TakeMessage, TakeTimeout,
       Begin, StartTurn, RefusePoisoned, HandleRequest, HandleTcWake, End,
       EndTurn, IdleCheck, TurnLocals, SendText, SendNone, LlmHang,
       EnterProcessing, FinalText, CancelBeforeDispatch, Dispatch, AbortTools,
       ContinueAfterTools, lifeVars, turnVars, Alive
  <2> QED BY <2>1 DEF PassInv, Sound, TypeInv, TypeOK, TurnOK
<1>5. Pending' => Pending
  BY DEF Take, LoopExit, FallAsleep, BecomeAwake, TakeMessage, TakeTimeout, Begin,
     StartTurn, RefusePoisoned, HandleRequest, HandleTcWake, End, EndTurn,
     IdleCheck, SendText, SendNone, LlmHang, EnterProcessing, FinalText,
     CancelBeforeDispatch, Dispatch, AbortTools, ContinueAfterTools, ClosePending,
     Pending, wireVars
<1> QED BY <1>1, <1>2, <1>3, <1>4, <1>5, PassFrame DEF PassInv, NeverDegrades

\* The steps of the run loop that move the payload, or write the notifications.
LEMMA BusyPass ==
  ASSUME TypeInv, PassInv, OutOfTheWay, Alive, Apart,
         \/ SendResults \/ (\E kind \in {"reply", "calls"} : LlmAnswer(kind)) \/ GuardStops
         \/ ExecuteTools \/ Attach \/ CommitFingerprint \/ StopAfterTools
  PROVE  PassInv'
<1>0. /\ OnePass /\ PassAway /\ Known /\ ReadOnEntry /\ Appended /\ Placed /\ Sound
      /\ NeverDegrades
      /\ sat \in [Threads -> SyncSteps] /\ snap \in [Threads -> SUBSET Notes]
      /\ state \in States /\ (sat["rl"] # "idle" => pc = "sync")
  BY DEF PassInv, TypeInv, TypeOK, SyncOK, LifeOK, Control, SyncWaits
<1>1. CASE SendResults \/ StopAfterTools
  <2>1. /\ UNCHANGED <<sat, snap, files, fp, sig, published, live, state>>
        /\ UNCHANGED <<outcome, effect>>
        /\ pc' \notin {"commit", "error", "aed"}
    BY <1>1 DEF SendResults, StopAfterTools, CommitResults, syncVars, noteVars,
       turnVars, lifeVars, Goto, Finish, BeginSync
  <2>2. holderAt' \notin {"batch", "gone"} /\ (holderAt' = "none" => holderAt = "none")
    BY <1>0, <1>1 DEF SendResults, StopAfterTools, CommitResults, Placed
  <2>3. Pending' => Pending
    BY <1>1 DEF SendResults, StopAfterTools, CommitResults, Pending
  <2>4. OnePass' /\ PassAway' /\ Known' /\ ReadOnEntry' /\ Appended'
    BY <1>0, <2>1 DEF OnePass, PassAway, Known, ReadOnEntry, Appended, Told
  <2>5. Placed' /\ Sound' /\ NeverDegrades'
    BY <1>0, <2>1, <2>2, <2>3 DEF Placed, Sound, NeverDegrades
  <2> QED BY <2>4, <2>5 DEF PassInv
<1>2. CASE \E kind \in {"reply", "calls"} : LlmAnswer(kind)
  <2>1. /\ UNCHANGED <<sat, snap, files, fp, sig, published, live, state>>
        /\ pc' \notin {"commit", "error", "aed"}
        /\ outcome' \in {"reply", "calls"} /\ pc = "llm"
    BY <1>2 DEF LlmAnswer, AppendAssistant, syncVars, lifeVars, Answered, Goto,
       BeginSync
  <2>2. holderAt' \notin {"batch", "gone"} /\ (holderAt' = "none" => holderAt = "none")
    BY <1>0, <1>2 DEF LlmAnswer, AppendAssistant, Placed
  <2>3. OnePass' /\ PassAway' /\ Known' /\ ReadOnEntry' /\ Appended'
    BY <1>0, <2>1 DEF OnePass, PassAway, Known, ReadOnEntry, Appended, Told
  <2>4. Placed' /\ Sound' /\ NeverDegrades'
    BY <1>0, <2>1, <2>2 DEF Placed, Sound, NeverDegrades, OutOfTheWay
  <2> QED BY <2>3, <2>4 DEF PassInv
<1>3. CASE GuardStops
  <2>1. /\ files' = files \cup {KernelNote}
        /\ published' = published \cup {KernelNote}
        /\ fp' = fp \ {KernelNote} /\ sig' = sig \ {KernelNote}
        /\ live' = live \ {KernelNote}
        /\ \A t \in Threads : snap'[t] = snap[t] \ {KernelNote}
        /\ UNCHANGED <<sat, state, outcome, holderAt>> /\ pc = "loop"
        /\ pc' \notin {"commit", "error", "aed"}
    BY <1>3 DEF GuardStops, PublishKernelNote, lifeVars, turnVars, Finish, Goto,
       BeginSync
  <2>2. Pending' => Pending
    BY <1>3 DEF GuardStops, Pending
  <2>3. OnePass' /\ PassAway' /\ Known' /\ ReadOnEntry' /\ Appended'
    BY <1>0, <2>1 DEF OnePass, PassAway, Known, ReadOnEntry, Appended, Told
  <2>4. Placed' /\ Sound' /\ NeverDegrades'
    BY <1>0, <2>1, <2>2 DEF Placed, Sound, NeverDegrades
  <2> QED BY <2>3, <2>4 DEF PassInv
<1>4. CASE ExecuteTools
  <2>0. /\ pc = "exec" /\ pc' = "attach" /\ UNCHANGED <<sat, outcome, effect>>
        /\ state' \in {state, "ASLEEP"}
        /\ holderAt # "batch"
    BY <1>0, <1>4 DEF ExecuteTools, ToolDismiss, ToolSleep, ToolMolt, ToolOther,
       Goto, turnVars, Placed
  <2>1. CASE ToolMolt
    <3>1. /\ files' = files \cup {KernelNote}
          /\ published' = published \cup {KernelNote}
          /\ fp' = {} /\ sig' = sig \ {KernelNote} /\ live' = {}
          /\ holderAt' = "none"
          /\ \A t \in Threads : snap'[t] = snap[t] \ {KernelNote}
          /\ \A t \in Threads : sat[t] \notin {"wake", "commit_ok", "reinject"}
      BY <2>0, <2>1 DEF ToolMolt, OutOfTheWay
    <3>2. OnePass' /\ PassAway' /\ Known' /\ ReadOnEntry' /\ Appended'
      BY <1>0, <2>0, <3>1 DEF OnePass, PassAway, Known, ReadOnEntry, Appended,
         Told
    <3>3. Placed' /\ Sound' /\ NeverDegrades'
      BY <1>0, <2>0, <3>1 DEF Placed, Sound, NeverDegrades
    <3> QED BY <3>2, <3>3 DEF PassInv
  <2>2. CASE ToolDismiss \/ ToolSleep \/ ToolOther
    <3>1. /\ files' \subseteq files
          /\ UNCHANGED <<snap, fp, sig, published, live, holderAt, wireVars>>
      BY <2>2 DEF ToolDismiss, ToolSleep, ToolOther, noteVars
    <3>2. Pending' = Pending
      BY <3>1 DEF Pending, wireVars
    <3>3. OnePass' /\ PassAway' /\ Known' /\ ReadOnEntry' /\ Appended'
      BY <1>0, <2>0, <3>1 DEF OnePass, PassAway, Known, ReadOnEntry, Appended,
         Told
    <3>4. Placed' /\ Sound' /\ NeverDegrades'
      BY <1>0, <2>0, <3>1, <3>2 DEF Placed, Sound, NeverDegrades
    <3> QED BY <3>3, <3>4 DEF PassInv
  <2> QED BY <1>4, <2>1, <2>2 DEF ExecuteTools
<1>5. CASE Attach
  <2>1. /\ \A t \in Threads : sat[t] = "idle"
        /\ UNCHANGED <<sat, snap, files, fp, published, state, outcome, effect, wireVars>>
        /\ pc = "attach"
    BY <1>0, <1>5 DEF Attach, Apart, Threads, syncVars, noteVars, turnVars,
       lifeVars
  <2>2. /\ pc' \in {"commit", "after"} /\ sig' \in {sig, {}, files}
        /\ holderAt' = "batch" => HasResults
        /\ holderAt' = "none" => live' = {}
        /\ holderAt' # "gone"
    BY <1>0, <1>5, <2>1 DEF Attach, AttachCleared, AttachStamped, AttachKept,
       AttachNowhere, Goto, Skeletonize, Placed
  <2>3. Pending' = Pending /\ HasResults' = HasResults
    BY <2>1 DEF Pending, wireVars, HasResults
  <2>4. OnePass' /\ PassAway' /\ Known' /\ ReadOnEntry' /\ Appended'
    BY <1>0, <2>1, <2>2 DEF OnePass, PassAway, Known, ReadOnEntry, Appended, Told
  <2>5. Placed' /\ Sound' /\ NeverDegrades'
    BY <1>0, <2>1, <2>2, <2>3 DEF Placed, Sound, NeverDegrades
  <2> QED BY <2>4, <2>5 DEF PassInv
<1>6. CASE CommitFingerprint
  <2>1. /\ UNCHANGED <<sat, snap, files, sig, published, live, holderAt>>
        /\ UNCHANGED <<state, outcome, effect, wireVars>>
        /\ fp' = files /\ pc = "commit" /\ pc' = "after"
    BY <1>6 DEF CommitFingerprint, syncVars, turnVars, lifeVars, holdVars, Goto
  <2>2. Pending' = Pending /\ HasResults' = HasResults
    BY <2>1 DEF Pending, wireVars, HasResults
  <2>3. OnePass' /\ PassAway' /\ Known' /\ ReadOnEntry' /\ Appended'
    BY <1>0, <2>1 DEF OnePass, PassAway, Known, ReadOnEntry, Appended, Told
  <2>4. Placed' /\ Sound' /\ NeverDegrades'
    BY <1>0, <2>1, <2>2 DEF Placed, Sound, NeverDegrades
  <2> QED BY <2>3, <2>4 DEF PassInv
<1> QED BY <1>1, <1>2, <1>3, <1>4, <1>5, <1>6

\* The run loop, as long as no call fails.
LEMMA RunLoopPass ==
  ASSUME TypeInv, PassInv, OutOfTheWay, Alive, Alive', Apart, NoFailure, RunLoop
  PROVE  PassInv'
<1>1. ~LlmEmpty /\ \A f \in {"transient", "hard"} : ~LlmFail(f)
  BY DEF LlmEmpty, LlmFail, NoFailure
<1>2. ~RaiseEmpty
  BY DEF RaiseEmpty, PassInv, Sound
<1>3. ~Aed
  BY DEF Aed, RetryTransient, CountAttempt, Recover, FallBack, GiveUp,
     MarkPoisoned, SleepPoisoned, PassInv, Sound, Alive
<1> QED BY <1>1, <1>2, <1>3, QuietPass, BusyPass DEF RunLoop, Call, Answer,
           Process

-----------------------------------------------------------------------------
\* Where a pass of thread t may be in the way of nobody else.
LEMMA PassAlone ==
  ASSUME TypeInv, PassInv, Apart, NEW t \in Threads, Sync(t)
  PROVE  /\ pc # "commit" /\ (t = "rl" => pc = "sync")
         /\ \A u \in Threads : u # t => sat[u] = "idle"
         /\ sat[t] = "idle" => \A u \in Threads : sat[u] = "idle"
<1>1. pc # "commit"
  BY DEF Sync, CommitWindow, Apart
<1>2. MayEnter(t) \/ sat[t] # "idle"
  BY DEF Sync, SyncUnchanged, SyncSkipAtEntry, SyncCollect, SyncClear,
     SyncWakeAgent, SyncBranch, SyncInject, SyncInjectRefused, SyncAppend,
     SyncHeal, SyncClose, SyncPostWake, SyncDegrade, SyncCommit, SyncSkipLater
<1>3. t = "rl" => pc = "sync"
  BY <1>2 DEF MayEnter, TypeInv, Control, SyncWaits
<1>4. CASE sat[t] # "idle"
  BY <1>1, <1>3, <1>4 DEF PassInv, OnePass
<1>5. CASE sat[t] = "idle" /\ MayEnter(t)
  BY <1>1, <1>3, <1>5 DEF MayEnter, Alone, Apart
<1> QED BY <1>2, <1>4, <1>5

\* A pass that goes on: what it has read, and what it has appended.
LEMMA PassGoesOn ==
  ASSUME TypeInv, PassInv, Apart, NEW t \in Threads, Sync(t), NEW step \in SyncSteps,
         SyncTo(t, step), step # "degrade",
         UNCHANGED <<files, fp, sig, published, outcome>>,
         state' \notin {"STUCK", "SUSPENDED"},
         snap'[t] \subseteq published, \A u \in Threads : u # t => snap'[u] = snap[u],
         step # "idle" => Told \cap files \subseteq snap'[t],
         step = "clear" => snap'[t] = {},
         step \in {"wake", "commit_ok"} => snap'[t] \subseteq live',
         holderAt' = "batch" => holderAt = "batch" /\ UNCHANGED effect,
         holderAt' = "none" => live' = {}, holderAt' # "gone",
         step = "reinject" => ~Pending'
  PROVE  PassInv'
<1>0. /\ OnePass /\ PassAway /\ Known /\ ReadOnEntry /\ Appended /\ Placed /\ Sound
      /\ NeverDegrades
      /\ sat \in [Threads -> SyncSteps]
  BY DEF PassInv, TypeInv, TypeOK, SyncOK
<1>1. sat' = [sat EXCEPT ![t] = step] /\ pc' = pc
  BY DEF SyncTo
<1>2. pc # "commit" /\ \A u \in Threads : u # t => sat[u] = "idle"
  BY PassAlone
<1>3. OnePass' /\ PassAway' /\ Known'
  BY <1>0, <1>1, <1>2 DEF OnePass, PassAway, Known
<1>4. ReadOnEntry' /\ Appended'
  BY <1>0, <1>1, <1>2 DEF ReadOnEntry, Appended, Told
<1>5. Placed'
  BY <1>0, <1>1 DEF Placed, HasResults
<1>6. Sound' /\ NeverDegrades'
  BY <1>0, <1>1, <1>2 DEF Sound, NeverDegrades
<1> QED BY <1>3, <1>4, <1>5, <1>6 DEF PassInv

\* A pass that is over, and what it has committed.
LEMMA PassOver ==
  ASSUME TypeInv, PassInv, Apart, NEW t \in Threads, Sync(t), SyncDone(t),
         UNCHANGED <<files, sig, published, outcome, state, effect>>,
         fp' \in {fp, snap[t]},
         holderAt' = "batch" => holderAt = "batch",
         holderAt' = "none" => live' = {}, holderAt' # "gone"
  PROVE  PassInv'
<1>0. /\ OnePass /\ PassAway /\ Known /\ ReadOnEntry /\ Appended /\ Placed /\ Sound
      /\ NeverDegrades
      /\ sat \in [Threads -> SyncSteps] /\ snap \in [Threads -> SUBSET Notes]
      /\ back \in {"send_text", "loop", "turn_end", "top"}
  BY DEF PassInv, TypeInv, TypeOK, SyncOK, Control, PcOK
<1>1. sat' = [sat EXCEPT ![t] = "idle"] /\ snap' = [snap EXCEPT ![t] = {}]
      /\ pc' = IF t = "rl" THEN back ELSE pc
  BY DEF SyncDone
<1>2. /\ pc # "commit" /\ (t = "rl" => pc = "sync")
      /\ \A u \in Threads : u # t => sat[u] = "idle"
  BY PassAlone
<1>3. \A u \in Threads : sat'[u] = "idle" /\ snap'[u] \subseteq published
  BY <1>0, <1>1, <1>2 DEF Known
<1>4. OnePass' /\ PassAway' /\ Known' /\ ReadOnEntry' /\ Appended'
  BY <1>0, <1>3 DEF OnePass, PassAway, Known, ReadOnEntry, Appended
<1>5. Placed'
  BY <1>0, <1>1, <1>2 DEF Placed, HasResults
<1>6. Sound' /\ NeverDegrades'
  BY <1>0, <1>1, <1>2, <1>3 DEF Sound, NeverDegrades
<1> QED BY <1>4, <1>5, <1>6 DEF PassInv

\* A pass of any thread.
LEMMA SyncPass ==
  ASSUME TypeInv, PassInv, Apart, Alive, NEW t \in Threads, Sync(t)
  PROVE  PassInv'
<1>0. /\ OnePass /\ PassAway /\ Known /\ ReadOnEntry /\ Appended /\ Placed /\ Sound
      /\ NeverDegrades
      /\ sat \in [Threads -> SyncSteps] /\ snap \in [Threads -> SUBSET Notes]
  BY DEF PassInv, TypeInv, TypeOK, SyncOK
<1>1. CASE SyncUnchanged(t)
  BY <1>0, <1>1, PassOver DEF SyncUnchanged, noteVars, turnVars, lifeVars,
     holdVars, Placed
<1>2. CASE SyncCollect(t)
  <2>1. /\ SyncTo(t, IF files = {} THEN "clear" ELSE "branch")
        /\ snap' = [snap EXCEPT ![t] = files]
        /\ UNCHANGED <<files, fp, sig, published, outcome, state, live, holderAt, effect>>
    BY <1>2 DEF SyncCollect, lifeVars, noteVars, turnVars, holdVars
  <2> DEFINE step == IF files = {} THEN "clear" ELSE "branch"
  <2>2. step \in SyncSteps /\ step \in {"clear", "branch"} /\ (step = "clear" => files = {})
    BY DEF SyncSteps
  <2>3. snap'[t] = files /\ \A u \in Threads : u # t => snap'[u] = snap[u]
    BY <1>0, <2>1
  <2> HIDE DEF step
  <2> QED BY <1>0, <2>1, <2>2, <2>3, PassGoesOn DEF step, Placed, Sound, Known
<1>3. CASE SyncClear(t)
  BY <1>0, <1>3, PassOver DEF SyncClear, Skeletonize, lifeVars, turnVars
<1>4. CASE SyncWakeAgent(t)
  <2>1. /\ SyncTo(t, "inject") /\ sat[t] = "branch" /\ state' = "IDLE"
        /\ UNCHANGED <<files, fp, sig, published, outcome, live, holderAt, effect, snap>>
    BY <1>4 DEF SyncWakeAgent, noteVars, turnVars, holdVars
  <2> QED BY <1>0, <2>1, PassGoesOn DEF SyncSteps, Placed, Known, ReadOnEntry
<1>5. CASE SyncBranch(t)
  <2>1. PICK step \in {"inject", "commit_no"} : SyncTo(t, step)
    BY <1>5 DEF SyncBranch
  <2>2. /\ sat[t] = "branch"
        /\ UNCHANGED <<files, fp, sig, published, outcome, live, holderAt>>
        /\ UNCHANGED <<effect, snap, state>>
    BY <1>5 DEF SyncBranch, noteVars, turnVars, holdVars, lifeVars
  <2> QED BY <1>0, <2>1, <2>2, PassGoesOn DEF SyncSteps, Placed, Known,
             ReadOnEntry, Sound
<1>6. CASE SyncInject(t) \/ SyncHeal(t) \/ SyncPostWake(t)
  <2>1. PICK step \in {"append", "close", "commit_ok"} :
          SyncTo(t, step) /\ (step = "commit_ok" => sat[t] = "wake")
    BY <1>6 DEF SyncInject, SyncHeal, SyncPostWake
  <2>2. /\ sat[t] # "idle"
        /\ UNCHANGED <<files, fp, sig, published, outcome, live, holderAt>>
        /\ UNCHANGED <<effect, snap, state>>
    BY <1>6 DEF SyncInject, SyncHeal, SyncPostWake, noteVars, turnVars, holdVars,
       lifeVars
  <2> QED BY <1>0, <2>1, <2>2, PassGoesOn DEF SyncSteps, Placed, Known,
             ReadOnEntry, Sound, Appended
<1>7. CASE SyncInjectRefused(t)
  <2>1. SyncTo(t, "heal") /\ sat[t] # "idle"
    BY <1>0, <1>7 DEF SyncInjectRefused, NeverDegrades
  <2>2. UNCHANGED <<files, fp, sig, published, outcome, live, holderAt, effect, snap, state>>
    BY <1>7 DEF SyncInjectRefused, noteVars, turnVars, holdVars, lifeVars
  <2> QED BY <1>0, <2>1, <2>2, PassGoesOn DEF SyncSteps, Placed, Known,
             ReadOnEntry, Sound
<1>8. CASE SyncAppend(t)
  <2>1. /\ SyncTo(t, "wake") /\ sat[t] # "idle" /\ live' = snap[t]
        /\ holderAt' = "top"
        /\ UNCHANGED <<files, fp, sig, published, outcome, effect, snap, state>>
    BY <1>8 DEF SyncAppend, noteVars, turnVars, holdVars, lifeVars
  <2> QED BY <1>0, <2>1, PassGoesOn DEF SyncSteps, Known, ReadOnEntry, Sound
<1>9. CASE SyncClose(t)
  <2>1. SyncTo(t, "reinject") /\ sat[t] # "idle" /\ ~Pending'
        /\ UNCHANGED <<files, fp, sig, published, outcome, live, holderAt>>
        /\ UNCHANGED <<effect, snap, state>>
    BY <1>9 DEF SyncClose, ClosePending, Pending, noteVars, turnVars, holdVars,
       lifeVars
  <2> QED BY <1>0, <2>1, PassGoesOn DEF SyncSteps, Placed, Known, ReadOnEntry,
             Sound
<1>10. CASE SyncDegrade(t)
  BY <1>0, <1>10 DEF SyncDegrade, NeverDegrades
<1>11. CASE SyncCommit(t)
  BY <1>0, <1>11, PassOver DEF SyncCommit, lifeVars, turnVars, holdVars, Placed
<1>12. CASE SyncSkipAtEntry(t) \/ SyncSkipLater(t)
  BY <1>12 DEF SyncSkipAtEntry, SyncSkipLater, SkipPoisoned, Alive
<1> QED BY <1>1, <1>2, <1>3, <1>4, <1>5, <1>6, <1>7, <1>8, <1>9, <1>10, <1>11,
           <1>12 DEF Sync

\* The heartbeat thread, and the environment.
OtherStep == \/ Heartbeat \/ PutRequest \/ (\E n \in Notes : Publish(n))
             \/ UNCHANGED vars

\* None of them moves a pass.
LEMMA OthersPass ==
  ASSUME TypeInv, PassInv, Apart, Alive, Alive', OtherStep
  PROVE  PassInv'
<1>0. /\ OnePass /\ PassAway /\ Known /\ ReadOnEntry /\ Appended /\ Placed /\ Sound
      /\ NeverDegrades
  BY DEF PassInv
<1>1. CASE \E n \in Notes : Publish(n)
  <2>1. PICK n : /\ n \notin published
                 /\ files' = files \cup {n} /\ published' = published \cup {n}
                 /\ UNCHANGED <<lifeVars, pc, turnVars, wireVars, holdVars, fp, syncVars>>
    BY <1>1 DEF Publish
  <2>2. OnePass' /\ PassAway' /\ Known' /\ Appended'
    BY <1>0, <2>1 DEF OnePass, PassAway, Known, Appended, syncVars, holdVars
  <2>3. ReadOnEntry'
    BY <1>0, <2>1 DEF ReadOnEntry, Told, Known, syncVars, holdVars
  <2>4. Placed' /\ Sound'
    BY <1>0, <2>1 DEF Placed, HasResults, Sound, lifeVars, turnVars, holdVars
  <2>5. NeverDegrades'
    BY <1>0, <2>1 DEF NeverDegrades, Pending, wireVars, syncVars
  <2> QED BY <2>2, <2>3, <2>4, <2>5 DEF PassInv
<1>2. CASE Heartbeat \/ PutRequest \/ UNCHANGED vars
  <2>1. UNCHANGED <<pc, turnVars, wireVars, holdVars, noteVars, syncVars>>
    BY <1>2 DEF OtherStep, Heartbeat, HbInterrupt, HbSuspend, HbRefresh, HbSleep,
       HbIdleTimeout, HbAedTimeout, HbSetAsleep, PutRequest, vars
  <2>2. state' \in {state, "ASLEEP"}
    BY <1>2 DEF OtherStep, Heartbeat, HbInterrupt, HbSuspend, HbRefresh, HbSleep,
       HbIdleTimeout, HbAedTimeout, HbSetAsleep, PutRequest, vars, lifeVars, Alive
  <2>3. OnePass' /\ PassAway' /\ Known' /\ ReadOnEntry' /\ Appended'
    BY <1>0, <2>1 DEF OnePass, PassAway, Known, ReadOnEntry, Appended, Told,
       noteVars, syncVars, holdVars
  <2>4. Placed' /\ Sound'
    BY <1>0, <2>1, <2>2 DEF Placed, HasResults, Sound, turnVars, holdVars
  <2>5. NeverDegrades'
    BY <1>0, <2>1 DEF NeverDegrades, Pending, wireVars, syncVars
  <2> QED BY <2>3, <2>4, <2>5 DEF PassInv
<1> QED BY <1>1, <1>2 DEF OtherStep

LEMMA PassInit == Init => PassInv
<1> SUFFICES ASSUME Init PROVE PassInv
  OBVIOUS
<1>1. OnePass /\ PassAway /\ Known /\ ReadOnEntry /\ Appended
  BY DEF Init, OnePass, PassAway, Known, ReadOnEntry, Appended, Told
<1>2. Placed /\ Sound /\ NeverDegrades
  BY DEF Init, Placed, Sound, NeverDegrades
<1> QED BY <1>1, <1>2 DEF PassInv

\* Every step, as long as a pass that has healed or appended is out of the way.
LEMMA PassStep ==
  ASSUME TypeInv, PassInv, OutOfTheWay, Apart, NoFailure, [Next]_vars, Alive'
  PROVE  PassInv'
<1>1. Alive
  BY AliveBefore
<1> QED BY <1>1, RunLoopPass, SyncPass, OthersPass DEF Next, OtherStep

-----------------------------------------------------------------------------
\* What is told and still there is in the live payload; a batch is about to commit
\* no more than it carries.
Kept == /\ Told \cap files \subseteq live
        /\ pc = "commit" => files \subseteq live
        /\ effect \notin {"molt", "aborted_molt"}

\* No answer is awaited over a dangling history, nor while a pass is healing one:
\* an abandoned batch goes on only if its calls are answered, or about to be.
At(labels, backs) == pc \in labels \/ (pc = "sync" /\ back \in backs)
Healing == \E t \in Threads : sat[t] \in {"inject", "heal", "close"}
WireInv ==
  /\ pc \in {"send_none", "llm"} => ~Pending
  /\ pc = "llm" => \A t \in Threads : sat[t] \notin {"heal", "close", "reinject"}
  /\ At({"entered", "loop", "exec", "attach", "commit", "after", "send_results"}, {"loop"})
     /\ Pending => batch = "open"
  /\ pc \in {"attach", "commit", "after"} /\ ~HasResults /\ Pending => cancel \/ Healing
  /\ pc = "send_results" /\ ~HasResults /\ Pending => Healing

KeepInv == Kept /\ WireInv

NoMolt == "molt" \notin ToolEffects

LEMMA KeepOutOfTheWay == KeepInv => OutOfTheWay
BY DEF KeepInv, Kept, WireInv, OutOfTheWay

LEMMA KeepInit == Init => KeepInv
<1> SUFFICES ASSUME Init PROVE KeepInv
  OBVIOUS
<1> QED BY DEF Init, KeepInv, Kept, Told, WireInv, At

\* The run loop as long as it makes no call and runs no tools.
LEMMA QuietWire ==
  ASSUME TypeInv, PassInv, WireInv, Alive, Alive',
         \/ Take \/ Begin \/ End \/ LlmHang \/ EnterProcessing \/ FinalText
         \/ CancelBeforeDispatch \/ GuardStops \/ StopAfterTools
  PROVE  WireInv'
<1>1. pc' \notin {"llm", "entered", "exec", "attach", "commit", "after", "send_results"}
      /\ (pc' = "sync" => back' # "loop")
  BY DEF Take, LoopExit, FallAsleep, BecomeAwake, TakeMessage, TakeTimeout, Begin,
     StartTurn, RefusePoisoned, HandleRequest, HandleTcWake, End, EndTurn,
     IdleCheck, LlmHang, EnterProcessing, FinalText, CancelBeforeDispatch,
     GuardStops, StopAfterTools, Goto, BeginSync, Finish
<1>2. pc' = "send_none" => ~Pending'
  BY DEF Take, LoopExit, FallAsleep, BecomeAwake, TakeMessage, TakeTimeout, Begin,
     StartTurn, RefusePoisoned, HandleRequest, HandleTcWake, End, EndTurn,
     IdleCheck, LlmHang, EnterProcessing, FinalText, CancelBeforeDispatch,
     GuardStops, StopAfterTools, Goto, BeginSync, Finish, Pending, wireVars
<1>3. pc' = "loop" => EnterProcessing
  BY DEF Take, LoopExit, FallAsleep, BecomeAwake, TakeMessage, TakeTimeout, Begin,
     StartTurn, RefusePoisoned, HandleRequest, HandleTcWake, End, EndTurn,
     IdleCheck, LlmHang, FinalText, CancelBeforeDispatch, GuardStops,
     StopAfterTools, Goto, BeginSync, Finish
<1>4. pc' = "loop" => pc = "entered" /\ UNCHANGED wireVars
  BY <1>3 DEF EnterProcessing
<1> QED BY <1>1, <1>2, <1>4 DEF WireInv, At, Pending, wireVars

\* A call is made over a history that is not dangling.
LEMMA CallWire ==
  ASSUME TypeInv, PassInv, WireInv, Alive, Apart, Call
  PROVE  WireInv'
<1>1. pc' = "llm" /\ UNCHANGED sat /\ pc \in {"send_text", "send_none", "send_results"}
      /\ \A t \in Pollers : sat[t] \in {"idle", "branch", "commit_no"}
  BY DEF Call, SendText, SendNone, SendResults, Goto, syncVars, Undisturbed, Apart
<1>2. \A t \in Threads : sat[t] \in {"idle", "branch", "commit_no"}
  BY <1>1 DEF TypeInv, Control, SyncWaits, Threads
<1>3. ~Pending'
  <2>1. CASE SendText
    BY <2>1 DEF SendText, Pending
  <2>2. CASE SendNone
    BY <2>2 DEF SendNone, Pending, WireInv, wireVars
  <2>3. CASE SendResults
    BY <1>2, <2>3 DEF SendResults, CommitResults, Pending, WireInv, At, Healing
  <2> QED BY <2>1, <2>2, <2>3 DEF Call
<1> QED BY <1>1, <1>2, <1>3 DEF WireInv, At

\* An answer, and the tools it asks for.
LEMMA ToolWire ==
  ASSUME TypeInv, PassInv, Kept, WireInv, Alive,
         \/ \E kind \in {"reply", "calls"} : LlmAnswer(kind)
         \/ \E e \in AllEffects : Dispatch(e)
         \/ ExecuteTools \/ AbortTools \/ Attach \/ CommitFingerprint \/ ContinueAfterTools
  PROVE  WireInv'
<1>1. CASE \E kind \in {"reply", "calls"} : LlmAnswer(kind)
  <2>1. /\ pc' = "entered" \/ (pc' = "sync" /\ back' = "loop")
        /\ Pending' => batch' = "open"
    BY <1>1 DEF LlmAnswer, AppendAssistant, Answered, Goto, BeginSync, Pending
  <2> QED BY <2>1 DEF WireInv, At
<1>2. CASE \E e \in AllEffects : Dispatch(e)
  BY <1>2 DEF Dispatch, Goto, WireInv, At, Pending, wireVars
<1>3. CASE ExecuteTools
  BY <1>3 DEF ExecuteTools, ToolDismiss, ToolSleep, ToolMolt, ToolOther, Goto,
     WireInv, At, Pending, wireVars, turnVars, HasResults, Aborted, Kept
<1>4. CASE AbortTools
  BY <1>4 DEF AbortTools, Goto, WireInv, At, Pending, wireVars, lifeVars
<1>5. CASE Attach \/ CommitFingerprint \/ ContinueAfterTools
  <2>1. /\ UNCHANGED <<wireVars, cancel, sat, effect>>
        /\ pc \in {"attach", "commit", "after"}
        /\ pc' \in {"commit", "after", "send_results"}
        /\ pc' = "send_results" => ~cancel
    BY <1>5 DEF Attach, AttachCleared, AttachStamped, AttachKept, AttachNowhere,
       CommitFingerprint, ContinueAfterTools, Goto, lifeVars, turnVars, syncVars
  <2>2. Pending' = Pending /\ Healing' = Healing /\ HasResults' = HasResults /\ batch' = batch
    BY <2>1 DEF Pending, Healing, HasResults, wireVars
  <2> QED BY <2>1, <2>2 DEF WireInv, At
<1> QED BY <1>1, <1>2, <1>3, <1>4, <1>5

LEMMA RunLoopWire ==
  ASSUME TypeInv, PassInv, Kept, WireInv, Alive, Alive', Apart, NoFailure, RunLoop
  PROVE  WireInv'
<1>1. ~LlmEmpty /\ \A f \in {"transient", "hard"} : ~LlmFail(f)
  BY DEF LlmEmpty, LlmFail, NoFailure
<1>2. ~RaiseEmpty
  BY DEF RaiseEmpty, PassInv, Sound
<1>3. ~Aed
  BY DEF Aed, RetryTransient, CountAttempt, Recover, FallBack, GiveUp,
     MarkPoisoned, SleepPoisoned, PassInv, Sound, Alive
<1> QED BY <1>1, <1>2, <1>3, QuietWire, CallWire, ToolWire DEF RunLoop, Answer,
           Process

\* A pass never leaves a history dangling that was not, and heals one that is.
LEMMA SyncWire ==
  ASSUME TypeInv, PassInv, WireInv, Alive, Apart, NEW t \in Threads, Sync(t)
  PROVE  WireInv'
<1>0. sat \in [Threads -> SyncSteps] /\ NeverDegrades
  BY DEF TypeInv, TypeOK, SyncOK, PassInv
<1>1. /\ \/ pc' = pc /\ (t # "rl" => back' = back)
         \/ t = "rl" /\ pc = "sync" /\ pc' = back
      /\ back' \in {back, "top"}
      /\ back \in {"send_text", "loop", "turn_end", "top"}
      /\ UNCHANGED effect
  <2>1. t = "rl" => pc = "sync"
    BY PassAlone
  <2>2. SyncDone(t) \/ (pc' = pc /\ back' = back)
    BY DEF Sync, SyncUnchanged, SyncSkipAtEntry, SyncCollect, SyncClear,
       SyncWakeAgent, SyncBranch, SyncInject, SyncInjectRefused, SyncAppend,
       SyncHeal, SyncClose, SyncPostWake, SyncDegrade, SyncCommit, SyncSkipLater,
       SkipPoisoned, SyncTo
  <2>3. UNCHANGED effect
    BY DEF Sync, SyncUnchanged, SyncSkipAtEntry, SyncCollect, SyncClear,
       SyncWakeAgent, SyncBranch, SyncInject, SyncInjectRefused, SyncAppend,
       SyncHeal, SyncClose, SyncPostWake, SyncDegrade, SyncCommit, SyncSkipLater,
       SkipPoisoned, turnVars
  <2> QED BY <2>1, <2>2, <2>3 DEF SyncDone, TypeInv, Control, PcOK
<1>2. Pending' => Pending /\ batch' = batch
  BY DEF Sync, SyncUnchanged, SyncSkipAtEntry, SyncCollect, SyncClear,
     SyncWakeAgent, SyncBranch, SyncInject, SyncInjectRefused, SyncAppend,
     SyncHeal, SyncClose, SyncPostWake, SyncDegrade, SyncCommit, SyncSkipLater,
     SkipPoisoned, ClosePending, Pending, wireVars
<1>3. \A u \in Threads : u # t => sat'[u] = sat[u]
  BY <1>0 DEF Sync, SyncUnchanged, SyncSkipAtEntry, SyncCollect, SyncClear,
     SyncWakeAgent, SyncBranch, SyncInject, SyncInjectRefused, SyncAppend,
     SyncHeal, SyncClose, SyncPostWake, SyncDegrade, SyncCommit, SyncSkipLater,
     SkipPoisoned, SyncTo, SyncDone
<1>4. sat'[t] \in {"heal", "close", "reinject"} =>
        Pending \/ sat[t] \in {"heal", "close", "reinject"}
  BY <1>0 DEF Sync, SyncUnchanged, SyncSkipAtEntry, SyncCollect, SyncClear,
     SyncWakeAgent, SyncBranch, SyncInject, SyncInjectRefused, SyncAppend,
     SyncHeal, SyncClose, SyncPostWake, SyncDegrade, SyncCommit, SyncSkipLater,
     SkipPoisoned, SyncTo, SyncDone
<1>5. Pending' => \/ /\ cancel' = cancel
                     /\ sat[t] \in {"inject", "heal", "close"} =>
                          sat'[t] \in {"inject", "heal", "close"}
                  \/ sat'[t] = "inject"
  <2>1. CASE SyncWakeAgent(t)
    BY <1>0, <2>1 DEF SyncWakeAgent, SyncTo
  <2>2. CASE SyncInject(t) \/ SyncAppend(t) \/ SyncPostWake(t) \/ SyncClear(t)
    BY <2>2 DEF SyncInject, SyncAppend, SyncPostWake, SyncClear, Pending,
       wireVars, lifeVars
  <2>3. CASE SyncInjectRefused(t)
    BY <1>0, <2>3 DEF SyncInjectRefused, SyncTo, NeverDegrades, lifeVars
  <2>4. CASE SyncHeal(t)
    BY <1>0, <2>4 DEF SyncHeal, SyncTo, lifeVars
  <2>5. CASE SyncClose(t)
    BY <2>5 DEF SyncClose, ClosePending, Pending
  <2>6. CASE SyncUnchanged(t) \/ SyncCollect(t)
    BY <2>6 DEF SyncUnchanged, SyncCollect, MayEnter, lifeVars
  <2>7. CASE SyncBranch(t) \/ SyncDegrade(t) \/ SyncCommit(t)
    BY <2>7 DEF SyncBranch, SyncDegrade, SyncCommit, lifeVars
  <2>8. CASE SyncSkipAtEntry(t) \/ SyncSkipLater(t)
    BY <2>8 DEF SyncSkipAtEntry, SyncSkipLater, SkipPoisoned, Alive
  <2> QED BY <2>1, <2>2, <2>3, <2>4, <2>5, <2>6, <2>7, <2>8 DEF Sync
<1>6. Pending' => (Healing => Healing') /\ (cancel => cancel' \/ Healing')
  BY <1>3, <1>5 DEF Healing
<1>7. \A u \in Threads : pc = "llm" => sat'[u] \notin {"heal", "close", "reinject"}
  BY <1>3, <1>4 DEF WireInv
<1>8. HasResults' = HasResults
  BY <1>1 DEF HasResults
<1> QED BY <1>1, <1>2, <1>6, <1>7, <1>8 DEF WireInv, At

LEMMA OthersWire ==
  ASSUME WireInv, OtherStep
  PROVE  WireInv'
<1>1. UNCHANGED <<pc, back, wireVars, sat, effect>> /\ cancel' \in {cancel, TRUE}
  BY DEF OtherStep, Heartbeat, HbInterrupt, HbSuspend, HbRefresh, HbSleep,
     HbIdleTimeout, HbAedTimeout, HbSetAsleep, PutRequest, Publish, vars, syncVars,
     turnVars, lifeVars
<1>2. Pending' = Pending /\ Healing' = Healing /\ HasResults' = HasResults /\ batch' = batch
  BY <1>1 DEF Pending, Healing, HasResults, wireVars
<1> QED BY <1>1, <1>2 DEF WireInv, At

-----------------------------------------------------------------------------
\* What is told stays in the payload, whatever the run loop does.
LEMMA RunLoopKept ==
  ASSUME TypeInv, PassInv, Kept, Alive, Alive', Apart, NoFailure, NoMolt, RunLoop
  PROVE  Kept'
<1>0. Placed /\ PassAway /\ Sound
  BY DEF PassInv
<1>1. ~LlmEmpty /\ (\A f \in {"transient", "hard"} : ~LlmFail(f)) /\ ~RaiseEmpty
  BY <1>0 DEF LlmEmpty, LlmFail, NoFailure, RaiseEmpty, Sound
<1>2. ~Aed
  BY <1>0 DEF Aed, RetryTransient, CountAttempt, Recover, FallBack, GiveUp,
     MarkPoisoned, SleepPoisoned, Sound, Alive
<1>3. CASE \/ Take \/ Begin \/ End \/ Call \/ LlmHang
           \/ (\E kind \in {"reply", "calls"} : LlmAnswer(kind))
           \/ EnterProcessing \/ FinalText \/ CancelBeforeDispatch
           \/ (\E e \in AllEffects : Dispatch(e))
           \/ AbortTools \/ StopAfterTools \/ ContinueAfterTools
  <2>1. UNCHANGED <<files, fp, sig, live>> /\ pc' # "commit"
    BY <1>3 DEF Take, LoopExit, FallAsleep, BecomeAwake, TakeMessage, TakeTimeout,
       Begin, StartTurn, RefusePoisoned, HandleRequest, HandleTcWake, End,
       EndTurn, IdleCheck, Call, SendText, SendNone, SendResults, LlmAnswer,
       AppendAssistant, Answered, CommitResults, LlmHang, EnterProcessing,
       FinalText, CancelBeforeDispatch, Dispatch, AbortTools, StopAfterTools,
       ContinueAfterTools, Goto, BeginSync, Finish, noteVars, holdVars
  <2>2. effect' \in {effect, "plain", "aborted"} \cup (ToolEffects \ {"molt"})
    BY <1>3 DEF Take, LoopExit, FallAsleep, BecomeAwake, TakeMessage, TakeTimeout,
       Begin, StartTurn, RefusePoisoned, HandleRequest, HandleTcWake, End,
       EndTurn, IdleCheck, TurnLocals, Call, SendText, SendNone, SendResults,
       LlmAnswer, LlmHang, EnterProcessing, FinalText, CancelBeforeDispatch,
       Dispatch, AbortTools, StopAfterTools, ContinueAfterTools, turnVars, Kept,
       NoMolt
  <2>3. effect' \notin {"molt", "aborted_molt"}
    BY <2>2, EventAssumption DEF Kept, AllEffects
  <2> QED BY <2>1, <2>3 DEF Kept, Told
<1>4. CASE GuardStops
  <2>1. /\ files' = files \cup {KernelNote} /\ fp' = fp \ {KernelNote}
        /\ sig' = sig \ {KernelNote}
        /\ live' = live \ {KernelNote} /\ effect' = effect /\ pc' # "commit"
    BY <1>4 DEF GuardStops, PublishKernelNote, turnVars, Finish, Goto, BeginSync
  <2> QED BY <2>1 DEF Kept, Told
<1>5. CASE ExecuteTools
  <2>1. files' \subseteq files /\ UNCHANGED <<fp, sig, live, effect>> /\ pc' = "attach"
    BY <1>5 DEF ExecuteTools, ToolDismiss, ToolSleep, ToolMolt, ToolOther, Goto,
       turnVars, noteVars, Kept
  <2> QED BY <2>1 DEF Kept, Told
<1>6. CASE Attach
  <2>1. UNCHANGED <<files, fp, effect>>
    BY <1>6 DEF Attach, noteVars, turnVars
  <2> QED BY <1>0, <1>6, <2>1 DEF Attach, AttachCleared, AttachStamped,
             AttachKept, AttachNowhere, Goto, Skeletonize, HasMolt, Kept, Told
<1>7. CASE CommitFingerprint
  BY <1>7 DEF CommitFingerprint, Goto, Kept, Told, holdVars, turnVars
<1> QED BY <1>1, <1>2, <1>3, <1>4, <1>5, <1>6, <1>7 DEF RunLoop, Answer, Process

\* A pass appends what was told and is still there, and commits what it appended.
LEMMA SyncKept ==
  ASSUME TypeInv, PassInv, Kept, Alive, Apart, NEW t \in Threads, Sync(t)
  PROVE  Kept'
<1>0. Placed /\ ReadOnEntry /\ Appended /\ Sound /\ NeverDegrades /\ pc # "commit"
      /\ back # "commit" /\ (t = "rl" => pc = "sync")
  BY PassAlone DEF PassInv, TypeInv, Control, PcOK
<1>1. UNCHANGED <<files, sig, effect>> /\ pc' # "commit"
  BY <1>0 DEF Sync, SyncUnchanged, SyncSkipAtEntry, SyncCollect, SyncClear,
     SyncWakeAgent, SyncBranch, SyncInject, SyncInjectRefused, SyncAppend,
     SyncHeal, SyncClose, SyncPostWake, SyncDegrade, SyncCommit, SyncSkipLater,
     SkipPoisoned, SyncTo, SyncDone, noteVars, turnVars, holdVars
<1>2. CASE SyncClear(t)
  BY <1>0, <1>1, <1>2 DEF SyncClear, ReadOnEntry, Kept, Told
<1>3. CASE SyncAppend(t)
  BY <1>0, <1>1, <1>3 DEF SyncAppend, ReadOnEntry, Kept, Told, noteVars
<1>4. CASE SyncCommit(t)
  <2>1. live' = live /\ (fp' = fp \/ (fp' = snap[t] /\ sat[t] = "commit_ok"))
    BY <1>0, <1>4 DEF SyncCommit, Sound, holdVars
  <2> QED BY <1>0, <1>1, <2>1 DEF Appended, Kept, Told
<1>5. CASE ~(SyncClear(t) \/ SyncAppend(t) \/ SyncCommit(t))
  <2>1. UNCHANGED <<fp, live>>
    BY <1>0, <1>5 DEF Sync, SyncUnchanged, SyncSkipAtEntry, SyncCollect,
       SyncWakeAgent, SyncBranch, SyncInject, SyncInjectRefused, SyncHeal,
       SyncClose, SyncPostWake, SyncDegrade, NeverDegrades, SyncSkipLater,
       SkipPoisoned, noteVars, holdVars
  <2> QED BY <1>1, <2>1 DEF Kept, Told
<1> QED BY <1>2, <1>3, <1>4, <1>5

LEMMA OthersKept ==
  ASSUME PassInv, Kept, Apart, OtherStep
  PROVE  Kept'
<1>1. CASE \E n \in Notes : Publish(n)
  <2>1. PICK n : /\ n \notin published /\ files' = files \cup {n} /\ pc # "commit"
                 /\ UNCHANGED <<pc, turnVars, holdVars, fp>>
    BY <1>1 DEF Publish, CommitWindow, Apart
  <2> QED BY <2>1 DEF Kept, Told, PassInv, Known, holdVars, turnVars
<1>2. CASE Heartbeat \/ PutRequest \/ UNCHANGED vars
  <2>1. UNCHANGED <<pc, turnVars, holdVars, noteVars>>
    BY <1>2 DEF OtherStep, Heartbeat, HbInterrupt, HbSuspend, HbRefresh, HbSleep,
       HbIdleTimeout, HbAedTimeout, HbSetAsleep, PutRequest, vars
  <2> QED BY <2>1 DEF Kept, Told, turnVars, holdVars, noteVars
<1> QED BY <1>1, <1>2 DEF OtherStep

\* The first inductive invariant.
DropInv == Alive => PassInv /\ KeepInv

LEMMA DropStep ==
  ASSUME TypeInv, DropInv, [Next]_vars, Apart, NoFailure, NoMolt
  PROVE  DropInv'
<1> SUFFICES ASSUME Alive' PROVE PassInv' /\ KeepInv'
  BY DEF DropInv
<1>1. Alive
  BY AliveBefore
<1>2. PassInv /\ Kept /\ WireInv /\ OutOfTheWay
  BY <1>1, KeepOutOfTheWay DEF DropInv, KeepInv
<1>3. PassInv'
  BY <1>2, PassStep
<1>4. Kept'
  BY <1>1, <1>2, RunLoopKept, SyncKept, OthersKept DEF Next, OtherStep
<1>5. WireInv'
  BY <1>1, <1>2, RunLoopWire, SyncWire, OthersWire DEF Next, OtherStep
<1> QED BY <1>3, <1>4, <1>5 DEF KeepInv

-----------------------------------------------------------------------------
\* No turn is cut short: nothing interrupts the agent or sends it to sleep, and no
\* batch ends the turn.
Calm == /\ Signals \subseteq {"suspend", "refresh", "idle_timeout"}
        /\ ToolEffects \subseteq {"plain", "dismiss", "molt"}

\* From the first step of a turn to the last the agent is ACTIVE ...
Busy == At({"turn", "send_text", "send_none", "send_results", "llm", "entered", "loop",
            "exec", "attach", "commit", "after", "hang", "turn_end"},
           {"send_text", "loop", "turn_end"})
Steady == /\ cancel = FALSE /\ sleepState = "IDLE"
          /\ effect \in {"plain", "dismiss", "molt"}
          /\ Busy => state = "ACTIVE"

\* ... so a pass made meanwhile only looks, clears or defers.
Deferring == At({"send_text", "send_results", "llm", "entered", "loop", "exec",
                 "attach", "commit", "after", "hang"}, {"loop"})
Looks == {"idle", "branch", "commit_no", "clear"}
Deferred == /\ Deferring => \A t \in Pollers : sat[t] \in Looks
            /\ pc = "sync" /\ back # "top" => sat["rl"] \in Looks

\* Where the run loop is between a turn and the next call, and where a message is
\* waiting or being handled.
Between == At({"top", "block", "await", "woken", "taken", "turn", "turn_end",
               "idle_check", "exit", "send_none", "send_text"},
              {"top", "send_text", "turn_end"})
Attended == \/ inbox # <<>>
            \/ At({"woken", "taken", "turn", "send_none", "send_text"}, {"send_text"})

\* What is told and still there, but not yet read.
Unread     == (fp \cap files) \ seen
ToldUnread == (Told \cap files) \ seen

\* Between turns it is in the payload of the last results, and attended to.
AtRest ==
  Between => /\ sig \cap files \subseteq seen
             /\ Unread \subseteq live
             /\ Unread # {} => holderAt = "top" /\ top = "results" /\ Attended
\* A pass that has appended keeps it so until it commits.
AtWake ==
  \A t \in Threads : sat[t] \in {"wake", "commit_ok"} =>
    /\ Between /\ pc # "send_text" /\ holderAt = "top" /\ top = "results"
    /\ sat[t] = "commit_ok" => Attended
\* During a turn the call in flight carries it, the answer has read all of it, and
\* a batch of tools brings more only with the results the next call carries.
InTurn ==
  /\ pc = "llm" => ToldUnread \subseteq inflight
  /\ At({"entered", "loop", "exec", "attach"}, {"loop"}) => ToldUnread = {}
  /\ pc \in {"commit", "after", "send_results"} => ToldUnread \subseteq live
  /\ pc = "commit" => files \subseteq seen \cup live

Heard   == AtRest /\ AtWake /\ InTurn
HearInv == Steady /\ Deferred /\ Heard

LEMMA HearOutOfTheWay == TypeInv /\ HearInv => OutOfTheWay
BY DEF HearInv, Deferred, Deferring, At, Looks, OutOfTheWay, TypeInv, Control,
   SyncWaits, Threads

LEMMA HearInit == Init => HearInv
<1> SUFFICES ASSUME Init PROVE HearInv
  OBVIOUS
<1>1. Steady /\ Deferred
  BY DEF Init, Steady, Busy, Deferred, Deferring, At, Looks, Threads
<1>2. AtRest /\ AtWake /\ InTurn
  BY DEF Init, AtRest, AtWake, InTurn, Unread, ToldUnread, Told, At
<1> QED BY <1>1, <1>2 DEF HearInv, Heard

-----------------------------------------------------------------------------
\* What is left of the run loop when no call fails and nothing cuts a turn short.
RestStep == \/ FallAsleep \/ BecomeAwake \/ TakeMessage \/ TakeTimeout \/ StartTurn
            \/ HandleRequest \/ HandleTcWake \/ EndTurn \/ IdleCheck
WorkStep == \/ EnterProcessing \/ FinalText \/ GuardStops
            \/ (\E e \in AllEffects : Dispatch(e))
            \/ ExecuteTools \/ Attach \/ CommitFingerprint \/ ContinueAfterTools
CallStep == Call \/ LlmHang \/ \E kind \in {"reply", "calls"} : LlmAnswer(kind)

LEMMA CalmLoop ==
  ASSUME TypeInv, PassInv, Steady, Alive, Alive', NoFailure, RunLoop
  PROVE  RestStep \/ WorkStep \/ CallStep
<1>1. ~LlmEmpty /\ \A f \in {"transient", "hard"} : ~LlmFail(f)
  BY DEF LlmEmpty, LlmFail, NoFailure
<1>2. ~RaiseEmpty
  BY DEF RaiseEmpty, PassInv, Sound
<1>3. ~Aed
  BY DEF Aed, RetryTransient, CountAttempt, Recover, FallBack, GiveUp,
     MarkPoisoned, SleepPoisoned, PassInv, Sound, Alive
<1>4. ~LoopExit /\ ~RefusePoisoned
  BY DEF Alive, LoopExit, RefusePoisoned
<1>5. ~CancelBeforeDispatch /\ ~AbortTools /\ ~StopAfterTools
  BY DEF Steady, CancelBeforeDispatch, AbortTools, StopAfterTools
<1> QED BY <1>1, <1>2, <1>3, <1>4, <1>5 DEF RestStep, WorkStep, CallStep, RunLoop,
           Take, Begin, Answer, Process, End

\* The agent stays ACTIVE through a turn, whatever the run loop does.
LEMMA SteadyRun ==
  ASSUME TypeInv, Steady, Calm, Alive, Alive', RestStep \/ WorkStep \/ CallStep
  PROVE  Steady'
<1>1. CASE RestStep
  <2>1. cancel' = FALSE /\ sleepState' = "IDLE" /\ effect' \in {effect, "plain"}
    BY <1>1 DEF RestStep, FallAsleep, BecomeAwake, TakeMessage, TakeTimeout,
       StartTurn, HandleRequest, HandleTcWake, EndTurn, IdleCheck, TurnLocals,
       lifeVars, turnVars, Steady
  <2>2. Busy' => state' = "ACTIVE"
    BY <1>1 DEF RestStep, FallAsleep, BecomeAwake, TakeMessage, TakeTimeout,
       StartTurn, HandleRequest, HandleTcWake, EndTurn, IdleCheck, Goto,
       BeginSync, Busy, At, lifeVars, Steady, Alive
  <2> QED BY <2>1, <2>2 DEF Steady
<1>2. CASE WorkStep
  <2>1. cancel' = FALSE /\ sleepState' = "IDLE" /\ effect' \in {"plain", "dismiss", "molt"}
        /\ state' = state
    BY <1>2 DEF WorkStep, EnterProcessing, FinalText, GuardStops, Dispatch,
       ExecuteTools, ToolDismiss, ToolSleep, ToolMolt, ToolOther, Attach,
       CommitFingerprint, ContinueAfterTools, lifeVars, turnVars, Steady, Calm
  <2>2. Busy
    BY <1>2 DEF WorkStep, EnterProcessing, FinalText, GuardStops, Dispatch,
       ExecuteTools, Attach, CommitFingerprint, ContinueAfterTools, Busy, At
  <2> QED BY <2>1, <2>2 DEF Steady
<1>3. CASE CallStep
  <2>1. UNCHANGED <<cancel, sleepState, effect, state>> /\ Busy
    BY <1>3 DEF CallStep, Call, SendText, SendNone, SendResults, LlmHang,
       LlmAnswer, lifeVars, turnVars, Busy, At
  <2> QED BY <2>1 DEF Steady
<1> QED BY <1>1, <1>2, <1>3

\* A call starts while the passes defer, and they still do when it ends.
LEMMA DeferredRun ==
  ASSUME TypeInv, Deferred, Apart, RestStep \/ WorkStep \/ CallStep
  PROVE  Deferred'
<1>0. SyncWaits /\ Threads = {"rl"} \cup Pollers
  BY DEF TypeInv, Control, Threads
<1>1. UNCHANGED sat
  BY DEF RestStep, FallAsleep, BecomeAwake, TakeMessage, TakeTimeout, StartTurn,
     HandleRequest, HandleTcWake, EndTurn, IdleCheck, WorkStep, EnterProcessing,
     FinalText, GuardStops, Dispatch, ExecuteTools, Attach, CommitFingerprint,
     ContinueAfterTools, CallStep, Call, SendText, SendNone, SendResults, LlmHang,
     LlmAnswer, syncVars
<1>2. pc # "sync"
  BY DEF RestStep, FallAsleep, BecomeAwake, TakeMessage, TakeTimeout, StartTurn,
     HandleRequest, HandleTcWake, EndTurn, IdleCheck, WorkStep, EnterProcessing,
     FinalText, GuardStops, Dispatch, ExecuteTools, Attach, CommitFingerprint,
     ContinueAfterTools, CallStep, Call, SendText, SendNone, SendResults, LlmHang,
     LlmAnswer
<1>3. Deferring' => \A t \in Pollers : sat[t] \in Looks
  <2>1. CASE RestStep
    BY <2>1 DEF RestStep, FallAsleep, BecomeAwake, TakeMessage, TakeTimeout,
       StartTurn, HandleRequest, HandleTcWake, EndTurn, IdleCheck, Goto,
       BeginSync, Deferring, At
  <2>2. CASE WorkStep
    <3>1. Deferring
      BY <2>2 DEF WorkStep, EnterProcessing, FinalText, GuardStops, Dispatch,
         ExecuteTools, Attach, CommitFingerprint, ContinueAfterTools, Deferring,
         At
    <3> QED BY <3>1 DEF Deferred
  <2>3. CASE Call
    BY <2>3 DEF Call, SendText, SendNone, SendResults, Undisturbed, Apart, Looks
  <2>4. CASE LlmHang \/ \E kind \in {"reply", "calls"} : LlmAnswer(kind)
    BY <2>4 DEF LlmHang, LlmAnswer, Deferred, Deferring, At
  <2> QED BY <2>1, <2>2, <2>3, <2>4 DEF CallStep
<1>4. sat["rl"] = "idle"
  BY <1>0, <1>2 DEF SyncWaits
<1> QED BY <1>1, <1>3, <1>4 DEF Deferred, Looks

-----------------------------------------------------------------------------
\* The run loop between turns: it may close the dangling calls, and nothing else of
\* what the payload depends on.
LEMMA RestHeard ==
  ASSUME TypeInv, Steady, Heard, Alive, Alive', RestStep
  PROVE  Heard'
<1>1. Between /\ Between' /\ pc \notin {"send_text", "sync"} /\ pc' # "send_text"
      /\ UNCHANGED <<files, fp, seen, sig, live, holderAt, sat>>
  BY DEF RestStep, FallAsleep, BecomeAwake, TakeMessage, TakeTimeout, StartTurn,
     HandleRequest, HandleTcWake, EndTurn, IdleCheck, Goto, BeginSync, Between,
     At, noteVars, holdVars, syncVars
<1>2. top = "results" => top' = "results"
  BY DEF RestStep, FallAsleep, BecomeAwake, TakeMessage, TakeTimeout, StartTurn,
     HandleRequest, HandleTcWake, EndTurn, IdleCheck, ClosePending, Pending,
     wireVars
<1>3. top = "results" /\ Attended => Attended'
  BY DEF RestStep, FallAsleep, BecomeAwake, TakeMessage, TakeTimeout, StartTurn,
     HandleRequest, HandleTcWake, EndTurn, IdleCheck, Goto, BeginSync, Pending,
     TailIsToolResult, Attended, At, queueVars
<1>4. AtRest'
  BY <1>1, <1>2, <1>3 DEF Heard, AtRest, Unread
<1>5. AtWake'
  BY <1>1, <1>2, <1>3 DEF Heard, AtWake
<1>6. InTurn'
  BY <1>1 DEF InTurn, Between, At
<1> QED BY <1>4, <1>5, <1>6 DEF Heard

\* A call carries what is told, and its answer has read it.
LEMMA CallHeard ==
  ASSUME TypeInv, PassInv, Steady, Deferred, Heard, Alive, Apart, CallStep
  PROVE  Heard'
<1>0. /\ UNCHANGED <<sat, files, fp, sig>>
      /\ pc \in {"send_text", "send_none", "send_results", "llm"}
      /\ pc' \in {"llm", "hang", "entered", "sync"}
      /\ (pc' = "sync" => back' = "loop")
  BY DEF CallStep, Call, SendText, SendNone, SendResults, LlmHang, LlmAnswer,
     Answered, Goto, BeginSync, noteVars, holdVars, syncVars
<1>1. \A t \in Threads : sat[t] \in Looks
  <2>1. \A t \in Pollers : sat[t] \in Looks
    BY DEF CallStep, Call, SendText, SendNone, SendResults, LlmHang, LlmAnswer,
       Undisturbed, Apart, Looks, Deferred, Deferring, At
  <2> QED BY <1>0, <2>1 DEF TypeInv, Control, SyncWaits, Threads, Looks
<1>2. AtRest' /\ AtWake'
  BY <1>0, <1>1 DEF AtRest, AtWake, Between, At, Looks
<1>3. CASE SendText \/ SendNone
  <2>1. Between /\ pc' = "llm" /\ UNCHANGED seen /\ inflight' = Visible(holderAt)
    BY <1>3 DEF SendText, SendNone, Between, At, Goto, noteVars
  <2>2. ToldUnread \subseteq Visible(holderAt)
    BY <2>1 DEF Heard, AtRest, Unread, ToldUnread, Told, Visible
  <2>3. InTurn'
    BY <1>0, <2>1, <2>2 DEF InTurn, At, ToldUnread, Told
  <2> QED BY <1>2, <2>3 DEF Heard
<1>4. CASE SendResults
  <2>1. pc = "send_results" /\ pc' = "llm" /\ UNCHANGED seen /\ live' = live
        /\ inflight' = IF holderAt' \in {"top", "deep"} THEN live ELSE {}
    BY <1>4 DEF SendResults, CommitResults, Goto, noteVars, Visible
  <2>2. holderAt' \in {"top", "deep"} \/ live = {}
    BY <1>4 DEF SendResults, CommitResults, HasResults, Aborted, Steady, PassInv,
       Placed, TypeInv, TypeOK, HoldOK
  <2>3. ToldUnread \subseteq live
    BY <2>1 DEF Heard, InTurn
  <2>4. InTurn'
    BY <1>0, <2>1, <2>2, <2>3 DEF InTurn, At, ToldUnread, Told, Visible
  <2> QED BY <1>2, <2>4 DEF Heard
<1>5. CASE LlmHang
  BY <1>2, <1>5 DEF LlmHang, Goto, Heard, InTurn, At
<1>6. CASE \E kind \in {"reply", "calls"} : LlmAnswer(kind)
  <2>1. pc = "llm" /\ pc' \in {"entered", "sync"} /\ seen' = seen \cup inflight
    BY <1>6 DEF LlmAnswer, Answered, Goto, BeginSync
  <2>2. ToldUnread' = {}
    BY <1>0, <2>1 DEF Heard, InTurn, ToldUnread, Told
  <2> QED BY <1>2, <2>1, <2>2 DEF Heard, InTurn
<1> QED BY <1>3, <1>4, <1>5, <1>6 DEF CallStep, Call

\* A batch stamps what it shows, and the next call carries it.
LEMMA WorkHeard ==
  ASSUME TypeInv, PassInv, Steady, Deferred, Heard, Alive, Apart, WorkStep
  PROVE  Heard'
<1>0. \A t \in Threads : sat[t] \in Looks
  <2>1. Deferring /\ pc # "sync"
    BY DEF WorkStep, EnterProcessing, FinalText, GuardStops, Dispatch,
       ExecuteTools, Attach, CommitFingerprint, ContinueAfterTools, Deferring, At
  <2> QED BY <2>1 DEF Deferred, TypeInv, Control, SyncWaits, Threads, Looks
<1>1. UNCHANGED sat
  BY DEF WorkStep, EnterProcessing, FinalText, GuardStops, Dispatch, ExecuteTools,
     Attach, CommitFingerprint, ContinueAfterTools, syncVars
<1>2. AtWake'
  BY <1>0, <1>1 DEF AtWake, Looks
<1>3. CASE EnterProcessing \/ FinalText \/ \E e \in AllEffects : Dispatch(e)
  <2>1. ToldUnread = {} /\ UNCHANGED <<files, fp, sig, seen>>
    BY <1>3 DEF EnterProcessing, FinalText, Dispatch, Heard, InTurn, At, noteVars,
       holdVars
  <2>2. pc' \in {"loop", "exec", "sync", "turn_end"}
    BY <1>3 DEF EnterProcessing, FinalText, Dispatch, Goto, Finish, BeginSync
  <2>3. AtRest' /\ InTurn'
    BY <2>1, <2>2 DEF AtRest, InTurn, Unread, ToldUnread, Told
  <2> QED BY <1>2, <2>3 DEF Heard
<1>4. CASE GuardStops
  <2>1. ToldUnread = {} /\ pc' \in {"sync", "turn_end"}
    BY <1>4 DEF GuardStops, Goto, Finish, BeginSync, Heard, InTurn, At
  <2>2. /\ files' = files \cup {KernelNote} /\ fp' = fp \ {KernelNote}
        /\ sig' = sig \ {KernelNote} /\ seen' = seen \ {KernelNote}
    BY <1>4 DEF GuardStops, PublishKernelNote
  <2>3. ToldUnread' = {} /\ Unread' = {} /\ (sig \cap files \subseteq seen)'
    BY <2>1, <2>2 DEF ToldUnread, Unread, Told
  <2>4. AtRest' /\ InTurn'
    BY <2>1, <2>3 DEF AtRest, InTurn
  <2> QED BY <1>2, <2>4 DEF Heard
<1>5. CASE ExecuteTools
  <2>1. ToldUnread = {} /\ pc' = "attach"
    BY <1>5 DEF ExecuteTools, Goto, Heard, InTurn, At
  <2>2. ToldUnread' = {}
    <3>1. CASE ToolMolt
      BY <2>1, <3>1 DEF ToolMolt, ToldUnread, Told
    <3>2. CASE ~ToolMolt
      <4>1. files' \subseteq files /\ UNCHANGED <<fp, sig, seen>>
        BY <1>5, <3>2 DEF ExecuteTools, ToolDismiss, ToolSleep, ToolOther,
           noteVars
      <4> QED BY <2>1, <4>1 DEF ToldUnread, Told
    <3> QED BY <3>1, <3>2
  <2>3. AtRest' /\ InTurn'
    BY <2>1, <2>2 DEF AtRest, InTurn, Between, At
  <2> QED BY <1>2, <2>3 DEF Heard
<1>6. CASE Attach
  <2>1. ToldUnread = {} /\ pc' \in {"commit", "after"} /\ UNCHANGED <<files, fp, seen>>
    BY <1>6 DEF Attach, AttachCleared, AttachStamped, AttachKept, AttachNowhere,
       Goto, Heard, InTurn, At, noteVars
  <2>2. \/ sig' \in {sig, {}} /\ (pc' = "commit" => sig = files)
        \/ sig' = files /\ live' = files
    BY <1>6 DEF Attach, AttachCleared, AttachStamped, AttachKept, AttachNowhere,
       Goto
  <2>3. ToldUnread' \subseteq live' /\ (pc' = "commit" => files' \subseteq seen' \cup live')
    BY <2>1, <2>2 DEF ToldUnread, Told
  <2>4. AtRest' /\ InTurn'
    BY <2>1, <2>3 DEF AtRest, InTurn, Between, At
  <2> QED BY <1>2, <2>4 DEF Heard
<1>7. CASE CommitFingerprint \/ ContinueAfterTools
  <2>1. ToldUnread' \subseteq live' /\ pc' \in {"after", "send_results"}
    BY <1>7 DEF CommitFingerprint, ContinueAfterTools, Goto, Heard, InTurn,
       ToldUnread, Told, noteVars, holdVars
  <2>2. AtRest' /\ InTurn'
    BY <2>1 DEF AtRest, InTurn, Between, At
  <2> QED BY <1>2, <2>2 DEF Heard
<1> QED BY <1>3, <1>4, <1>5, <1>6, <1>7 DEF WorkStep

-----------------------------------------------------------------------------
\* The steps of a pass over a process that is alive, when no call fails.
PassStepOf(t) ==
  \/ SyncUnchanged(t) \/ SyncCollect(t) \/ SyncClear(t) \/ SyncWakeAgent(t) \/ SyncBranch(t)
  \/ SyncInject(t) \/ SyncInjectRefused(t) \/ SyncAppend(t) \/ SyncHeal(t) \/ SyncClose(t)
  \/ SyncPostWake(t) \/ SyncCommit(t)

LEMMA CalmPass ==
  ASSUME PassInv, Alive, NEW t \in Threads, Sync(t)
  PROVE  PassStepOf(t)
<1>1. ~SyncDegrade(t)
  BY DEF SyncDegrade, PassInv, NeverDegrades
<1>2. ~SyncSkipAtEntry(t) /\ ~SyncSkipLater(t)
  BY DEF Alive, SyncSkipAtEntry, SyncSkipLater, SkipPoisoned
<1> QED BY <1>1, <1>2 DEF Sync, PassStepOf

\* Where the run loop is while a pass goes on, and after its own.
LEMMA PassMoves ==
  ASSUME TypeInv, PassInv, Apart, Alive, NEW t \in Threads, Sync(t)
  PROVE  /\ \/ pc' = pc /\ back' = back
            \/ t = "rl" /\ pc = "sync" /\ pc' = back /\ (\A u \in Threads : sat'[u] = "idle")
         /\ \A u \in Threads : u # t => sat'[u] = sat[u]
         /\ back \in {"send_text", "loop", "turn_end", "top"}
         /\ UNCHANGED turnVars
<1>0. /\ sat \in [Threads -> SyncSteps]
      /\ back \in {"send_text", "loop", "turn_end", "top"}
      /\ PassStepOf(t) /\ (\A u \in Threads : u # t => sat[u] = "idle")
      /\ (t = "rl" => pc = "sync")
  BY CalmPass, PassAlone DEF TypeInv, TypeOK, SyncOK, Control, PcOK
<1>1. SyncDone(t) \/ \E step \in SyncSteps : SyncTo(t, step) /\ back' = back
  BY <1>0 DEF PassStepOf, SyncUnchanged, SyncCollect, SyncClear, SyncWakeAgent,
     SyncBranch, SyncInject, SyncInjectRefused, SyncAppend, SyncHeal, SyncClose,
     SyncPostWake, SyncCommit, SyncSteps
<1>2. UNCHANGED turnVars
  BY <1>0 DEF PassStepOf, SyncUnchanged, SyncCollect, SyncClear, SyncWakeAgent,
     SyncBranch, SyncInject, SyncInjectRefused, SyncAppend, SyncHeal, SyncClose,
     SyncPostWake, SyncCommit
<1> QED BY <1>0, <1>1, <1>2 DEF SyncDone, SyncTo

LEMMA SteadySync ==
  ASSUME TypeInv, PassInv, Steady, Apart, Alive, NEW t \in Threads, Sync(t)
  PROVE  Steady'
<1>1. PassStepOf(t)
  BY CalmPass
<1>2. /\ cancel' \in {cancel, FALSE}
      /\ state' = state \/ (state = "ASLEEP" /\ pc' = pc /\ back' = back)
  BY <1>1 DEF PassStepOf, SyncUnchanged, SyncCollect, SyncClear, SyncWakeAgent,
     SyncBranch, SyncInject, SyncInjectRefused, SyncAppend, SyncHeal, SyncClose,
     SyncPostWake, SyncCommit, SyncTo, lifeVars
<1>3. Busy' => Busy
  BY PassMoves DEF Busy, At
<1>4. Busy' => state' = state
  BY <1>2, <1>3 DEF Steady
<1> QED BY <1>2, <1>3, <1>4, PassMoves DEF Steady, turnVars

\* A pass of an ACTIVE agent looks on, and defers what it finds.
LEMMA LooksOn ==
  ASSUME TypeInv, PassInv, Alive, NEW t \in Threads, Sync(t),
         state = "ACTIVE", sat[t] \in Looks
  PROVE  sat'[t] \in Looks
<1>0. sat \in [Threads -> SyncSteps] /\ PassStepOf(t)
  BY CalmPass DEF TypeInv, TypeOK, SyncOK
<1>1. CASE SyncUnchanged(t) \/ SyncClear(t) \/ SyncCommit(t)
  BY <1>0, <1>1 DEF SyncUnchanged, SyncClear, SyncCommit, SyncDone, Looks
<1>2. CASE SyncCollect(t) \/ SyncBranch(t)
  BY <1>0, <1>2 DEF SyncCollect, SyncBranch, SyncTo, Looks
<1>3. ~ \/ SyncWakeAgent(t) \/ SyncInject(t) \/ SyncInjectRefused(t)
        \/ SyncAppend(t) \/ SyncHeal(t) \/ SyncClose(t) \/ SyncPostWake(t)
  BY DEF SyncWakeAgent, SyncInject, SyncInjectRefused, SyncAppend, SyncHeal,
     SyncClose, SyncPostWake, Looks
<1> QED BY <1>0, <1>1, <1>2, <1>3 DEF PassStepOf

LEMMA DeferredSync ==
  ASSUME TypeInv, PassInv, Steady, Deferred, Apart, Alive, NEW t \in Threads, Sync(t)
  PROVE  Deferred'
<1>1. CASE pc' = pc /\ back' = back
  <2>1. Deferring' => \A u \in Pollers : sat'[u] \in Looks
    <3> SUFFICES ASSUME Deferring, NEW u \in Pollers PROVE sat'[u] \in Looks
      BY <1>1 DEF Deferring, At
    <3>1. state = "ACTIVE" /\ sat[u] \in Looks
      BY DEF Deferring, At, Deferred, Steady, Busy
    <3> QED BY <3>1, LooksOn, PassMoves DEF Threads
  <2>2. pc' = "sync" /\ back' # "top" => sat'["rl"] \in Looks
    <3> SUFFICES ASSUME pc = "sync", back # "top" PROVE sat'["rl"] \in Looks
      BY <1>1
    <3>1. state = "ACTIVE" /\ sat["rl"] \in Looks
      BY DEF At, Deferred, Steady, Busy, TypeInv, Control, PcOK
    <3> QED BY <3>1, LooksOn, PassMoves DEF Threads
  <2> QED BY <2>1, <2>2 DEF Deferred
<1>2. CASE \A u \in Threads : sat'[u] = "idle"
  BY <1>2 DEF Deferred, Looks, Threads
<1> QED BY <1>1, <1>2, PassMoves

\* A pass that writes the history does so between turns.
LEMMA WritesBetween ==
  ASSUME TypeInv, PassInv, Deferred, NEW t \in Threads, sat[t] \notin Looks
  PROVE  Between /\ pc # "send_text"
<1>1. CASE t = "rl"
  BY <1>1 DEF Deferred, Looks, TypeInv, Control, SyncWaits, Between, At
<1>2. CASE t \in Pollers
  BY <1>2 DEF Deferred, Deferring, TypeInv, Control, PcOK, Labels, PassInv, Sound,
     Between, At
<1> QED BY <1>1, <1>2 DEF Threads

\* What the payload depends on, when a pass moves none of it.
LEMMA SameHeard ==
  ASSUME TypeInv, PassInv, Deferred, Heard, Apart, Alive, NEW t \in Threads, Sync(t),
         UNCHANGED <<files, fp, sig, seen, live, holderAt, inflight>>,
         top = "results" => top' = "results", inbox # <<>> => inbox' # <<>>,
         sat'[t] \in {"wake", "commit_ok"} => sat[t] = "wake" /\ inbox' # <<>>
  PROVE  Heard'
<1>0. pc' # "commit"
  BY PassAlone, PassMoves
<1>1. /\ Between' => Between
      /\ Attended => Attended'
      /\ At({"entered", "loop", "exec", "attach"}, {"loop"})' =>
           At({"entered", "loop", "exec", "attach"}, {"loop"})
  BY PassMoves DEF Between, Attended, At
<1>2. pc' \in {"llm", "commit", "after", "send_results"} => pc' = pc
  BY PassMoves
<1>3. AtRest' /\ InTurn'
  BY <1>0, <1>1, <1>2 DEF Heard, AtRest, InTurn, Unread, ToldUnread, Told
<1>4. AtWake'
  <2> SUFFICES ASSUME NEW u \in Threads, sat'[u] \in {"wake", "commit_ok"}
               PROVE  /\ Between' /\ pc' # "send_text"
                      /\ holderAt' = "top" /\ top' = "results"
                      /\ sat'[u] = "commit_ok" => Attended'
    BY DEF AtWake
  <2>1. pc' = pc /\ back' = back
    BY PassMoves
  <2>2. CASE u = t
    BY <2>1, <2>2 DEF Heard, AtWake, Between, Attended, At
  <2>3. CASE u # t
    BY <2>1, <2>3, PassAlone, PassMoves
  <2> QED BY <2>2, <2>3
<1> QED BY <1>3, <1>4 DEF Heard

\* A pass of any thread.
LEMMA SyncHeard ==
  ASSUME TypeInv, PassInv, Steady, Deferred, Heard, Apart, Alive, NEW t \in Threads, Sync(t)
  PROVE  Heard'
<1>0. /\ PassStepOf(t) /\ sat \in [Threads -> SyncSteps] /\ pc # "commit"
      /\ (\A u \in Threads : u # t => sat[u] = "idle")
      /\ ReadOnEntry /\ Appended /\ Sound /\ NeverDegrades
      /\ \A u \in Threads : u # t => sat'[u] = sat[u]
  BY CalmPass, PassAlone, PassMoves DEF TypeInv, TypeOK, SyncOK, PassInv
<1>1. CASE \/ SyncUnchanged(t) \/ SyncCollect(t) \/ SyncWakeAgent(t)
           \/ SyncBranch(t) \/ SyncInject(t)
           \/ SyncInjectRefused(t) \/ SyncHeal(t)
  <2>1. /\ UNCHANGED <<files, fp, sig, seen, live, holderAt, inflight, top, inbox>>
        /\ sat'[t] \notin {"wake", "commit_ok"}
    BY <1>0, <1>1 DEF SyncUnchanged, SyncCollect, SyncWakeAgent, SyncBranch,
       SyncInject, SyncInjectRefused, SyncHeal, SyncTo, SyncDone, noteVars,
       holdVars, wireVars, queueVars
  <2> QED BY <2>1, SameHeard
<1>2. CASE SyncClose(t)
  <2>1. /\ UNCHANGED <<files, fp, sig, seen, live, holderAt, inflight, inbox>>
        /\ top = "results" => top' = "results"
        /\ sat'[t] \notin {"wake", "commit_ok"}
    BY <1>0, <1>2 DEF SyncClose, ClosePending, Pending, SyncTo, noteVars,
       holdVars, queueVars
  <2> QED BY <2>1, SameHeard
<1>3. CASE SyncPostWake(t)
  <2>1. inbox' # <<>>
    BY <1>3 DEF SyncPostWake, TypeInv, TypeOK, QueueOK
  <2>2. UNCHANGED <<files, fp, sig, seen, live, holderAt, inflight, top>> /\ sat[t] = "wake"
    BY <1>3 DEF SyncPostWake, noteVars, holdVars, wireVars
  <2> QED BY <2>1, <2>2, SameHeard
<1>4. CASE SyncClear(t)
  <2>1. /\ Told \cap files = {} /\ fp' \in {fp, {}}
        /\ UNCHANGED <<files, sig, seen, inflight, inbox>>
        /\ sat'[t] = "idle"
    BY <1>0, <1>4 DEF SyncClear, SyncDone, ReadOnEntry, queueVars
  <2>2. (Told \cap files)' = {}
    BY <2>1 DEF Told
  <2>3. pc' # "commit"
    BY <1>0, PassMoves
  <2>4. AtRest' /\ InTurn'
    BY <2>2, <2>3 DEF AtRest, InTurn, Unread, ToldUnread, Told
  <2>5. AtWake'
    BY <1>0, <2>1 DEF AtWake
  <2> QED BY <2>4, <2>5 DEF Heard
<1>5. CASE SyncAppend(t)
  <2>1. /\ UNCHANGED <<files, fp, sig, seen, inflight, inbox, pc, back>>
        /\ live' = snap[t] /\ holderAt' = "top" /\ top' = "results"
        /\ sat'[t] = "wake" /\ sat[t] = "append"
    BY <1>0, <1>5 DEF SyncAppend, SyncTo, noteVars, queueVars
  <2>2. Between /\ pc # "send_text"
    BY <2>1, WritesBetween DEF Looks
  <2>3. Between' /\ (Attended => Attended')
    BY <2>1, <2>2 DEF Between, Attended, At
  <2>4. AtRest'
    BY <1>0, <2>1, <2>2, <2>3 DEF Heard, AtRest, Unread, Told, ReadOnEntry
  <2>5. AtWake'
    BY <1>0, <2>1, <2>2, <2>3 DEF AtWake
  <2>6. InTurn'
    BY <2>3, <2>1, <2>2 DEF InTurn, Between, At
  <2> QED BY <2>4, <2>5, <2>6 DEF Heard
<1>6. CASE SyncCommit(t)
  <2>1. /\ UNCHANGED <<files, sig, seen, live, holderAt, inflight, top, inbox>>
        /\ sat'[t] = "idle"
    BY <1>0, <1>6 DEF SyncCommit, SyncDone, noteVars, holdVars, wireVars,
       queueVars
  <2>2. CASE sat[t] = "commit_ok"
    <3>1. /\ fp' = snap[t] /\ snap[t] \subseteq live
          /\ Between /\ holderAt = "top" /\ top = "results" /\ Attended
      BY <1>0, <1>6, <2>2 DEF SyncCommit, Appended, Heard, AtWake
    <3>2. Between' /\ Attended'
      BY <2>1, <3>1, PassMoves DEF Between, Attended, At
    <3>3. AtRest'
      BY <2>1, <3>1, <3>2 DEF Heard, AtRest, Unread
    <3>4. AtWake'
      BY <1>0, <2>1 DEF AtWake
    <3>5. InTurn'
      BY <3>2 DEF InTurn, Between, At
    <3> QED BY <3>3, <3>4, <3>5 DEF Heard
  <2>3. CASE sat[t] # "commit_ok"
    <3>1. fp' = fp
      BY <1>6, <2>3, <1>0 DEF SyncCommit, Sound
    <3> QED BY <2>1, <3>1, SameHeard
  <2> QED BY <2>2, <2>3
<1> QED BY <1>0, <1>1, <1>2, <1>3, <1>4, <1>5, <1>6 DEF PassStepOf

\* The heartbeat thread, and the environment.
LEMMA OthersHear ==
  ASSUME TypeInv, PassInv, HearInv, Calm, Apart, Alive, Alive',
         OtherStep
  PROVE  HearInv'
<1>1. /\ UNCHANGED <<pc, back, turnVars, wireVars, holdVars, seen, fp, syncVars>>
      /\ inbox # <<>> => inbox' # <<>>
  BY DEF OtherStep, Heartbeat, HbInterrupt, HbSuspend, HbRefresh, HbSleep,
     HbIdleTimeout, HbAedTimeout, HbSetAsleep, PutRequest, Publish, vars, noteVars,
     queueVars, TypeInv, TypeOK, QueueOK
<1>2. cancel' = cancel /\ (state' = state \/ state = "IDLE")
  BY DEF OtherStep, Heartbeat, HbInterrupt, HbSuspend, HbRefresh, HbSleep,
     HbIdleTimeout, HbAedTimeout, HbSetAsleep, PutRequest, Publish, Drop, vars,
     lifeVars, Alive, Calm, TypeInv, TypeOK, HbOK, PassInv, Sound
<1>3. Steady'
  BY <1>1, <1>2 DEF HearInv, Steady, Busy, At, turnVars
<1>4. Deferred'
  BY <1>1 DEF HearInv, Deferred, Deferring, At, syncVars
<1>5. \/ files' = files
      \/ pc # "commit" /\ \E n \in Notes \ published : files' = files \cup {n}
  BY DEF OtherStep, Heartbeat, HbInterrupt, HbSuspend, HbRefresh, HbSleep,
     HbIdleTimeout, HbAedTimeout, HbSetAsleep, PutRequest, Publish, vars, noteVars,
     CommitWindow, Apart
<1>6. /\ (Told \cap files)' = Told \cap files
      /\ (sig \cap files)' = sig \cap files
      /\ (fp \cap files)' = fp \cap files
  BY <1>1, <1>5 DEF Told, PassInv, Known, holdVars
<1>7. AtRest'
  BY <1>1, <1>6 DEF HearInv, Heard, AtRest, Between, At, Unread, Attended,
     holdVars, wireVars
<1>8. AtWake'
  BY <1>1 DEF HearInv, Heard, AtWake, Between, At, Attended, holdVars, wireVars,
     syncVars
<1>9. InTurn'
  BY <1>1, <1>5, <1>6 DEF HearInv, Heard, InTurn, ToldUnread, At, holdVars
<1> QED BY <1>3, <1>4, <1>7, <1>8, <1>9 DEF HearInv, Heard

\* The second inductive invariant.
WakeInv == Alive => PassInv /\ HearInv

LEMMA WakeStep ==
  ASSUME TypeInv, WakeInv, [Next]_vars, Apart, NoFailure, Calm
  PROVE  WakeInv'
<1> SUFFICES ASSUME Alive' PROVE PassInv' /\ HearInv'
  BY DEF WakeInv
<1>1. Alive
  BY AliveBefore
<1>2. PassInv /\ HearInv /\ Steady /\ Deferred /\ Heard /\ OutOfTheWay
  BY <1>1, HearOutOfTheWay DEF WakeInv, HearInv
<1>3. PassInv'
  BY <1>2, PassStep
<1>4. CASE RunLoop
  <2>1. RestStep \/ WorkStep \/ CallStep
    BY <1>1, <1>2, <1>4, CalmLoop
  <2> QED BY <1>1, <1>2, <1>3, <2>1, SteadyRun, DeferredRun, RestHeard, CallHeard,
             WorkHeard DEF HearInv
<1>5. CASE \E t \in Threads : Sync(t)
  BY <1>1, <1>2, <1>3, <1>5, SteadySync, DeferredSync, SyncHeard DEF HearInv
<1>6. CASE OtherStep
  BY <1>1, <1>2, <1>3, <1>6, OthersHear
<1> QED BY <1>4, <1>5, <1>6 DEF Next, OtherStep

-----------------------------------------------------------------------------
\* A notification is never left lying: one that is committed and that the model
\* has not read leaves a message in the inbox, so the loop does not rest on it.
\* This holds however many threads make passes and whatever is published,
\* dismissed, molted, hung, suspended or refreshed, as long as no call fails, no
\* turn is cut short and passes keep out of the two windows
\* (_sync_notifications, attach_active_notifications, _handle_tc_wake).
THEOREM NoWakeIsLost == Apart /\ NoFailure /\ Calm /\ Spec => []NoLostWake
<1> SUFFICES ASSUME Apart, NoFailure, Calm PROVE Spec => []NoLostWake
  BY DEF Apart, NoFailure, Calm
<1>1. Init => WakeInv
  BY PassInit, HearInit DEF WakeInv
<1>2. TypeInv /\ WakeInv /\ [Next]_vars => WakeInv'
  BY WakeStep
<1>3. WakeInv => NoLostWake
  <2> SUFFICES ASSUME WakeInv, Alive, Resting, inbox = <<>>
               PROVE  Committed \subseteq seen
    BY DEF NoLostWake
  <2>1. AtRest
    BY DEF WakeInv, HearInv, Heard
  <2>2. Between /\ ~Attended
    BY DEF Resting, Between, Attended, At
  <2> QED BY <2>1, <2>2 DEF AtRest, Unread, Committed
<1> QED BY <1>1, <1>2, <1>3, TypeInit, TypeStep, PTL DEF Spec

\* A notification whose fingerprint is committed is one the model has read or can
\* read with the next call.  Without molts this needs no more than calls that do
\* not fail: turns may be interrupted, put to sleep, polled away or hung at any
\* step.  A molt resets the history, and then no turn may be cut short
\* (_sync_notifications, attach_active_notifications, _commit_notification_fp).
THEOREM NothingIsDropped ==
  Apart /\ NoFailure /\ (NoMolt \/ Calm) /\ Spec => []NothingDropped
<1>1. ASSUME Apart, NoFailure, NoMolt PROVE Spec => []NothingDropped
  <2>1. Init => DropInv
    BY PassInit, KeepInit DEF DropInv
  <2>2. TypeInv /\ DropInv /\ [Next]_vars => DropInv'
    BY <1>1, DropStep
  <2>3. TypeInv /\ DropInv => NothingDropped
    <3> SUFFICES ASSUME TypeInv, DropInv, Alive, Resting
                 PROVE  Committed \subseteq seen \cup Visible(holderAt)
      BY DEF NothingDropped
    <3>1. Placed /\ Kept /\ holderAt \in {"none", "batch", "top", "deep"}
      BY DEF DropInv, PassInv, Placed, KeepInv, TypeInv, TypeOK, HoldOK
    <3>2. live \subseteq Visible(holderAt)
      BY <3>1 DEF Placed, Resting, Visible
    <3> QED BY <3>1, <3>2 DEF Committed, Kept, Told
  <2> QED BY <2>1, <2>2, <2>3, TypeInit, TypeStep, PTL DEF Spec
<1>2. ASSUME Apart, NoFailure, Calm PROVE Spec => []NothingDropped
  <2>1. Init => WakeInv
    BY PassInit, HearInit DEF WakeInv
  <2>2. TypeInv /\ WakeInv /\ [Next]_vars => WakeInv'
    BY <1>2, WakeStep
  <2>3. WakeInv => NothingDropped
    <3> SUFFICES ASSUME WakeInv, Alive, Resting
                 PROVE  Committed \subseteq seen \cup Visible(holderAt)
      BY DEF NothingDropped
    <3>1. AtRest /\ Between
      BY DEF WakeInv, HearInv, Heard, Resting, Between, At
    <3> QED BY <3>1 DEF AtRest, Unread, Committed, Visible
  <2> QED BY <2>1, <2>2, <2>3, TypeInit, TypeStep, PTL DEF Spec
<1> QED BY <1>1, <1>2 DEF Apart, NoFailure, NoMolt, Calm
=============================================================================
