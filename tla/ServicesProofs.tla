---------------------------- MODULE ServicesProofs ----------------------------
(***************************************************************************)
(* Theorems about BashJobs and NotificationStore, for any jobs, restarts,  *)
(* producers, goals and sizes of the channel.  Of the jobs: their types,   *)
(* and that one said to be over is over.  Of the merged system channel:    *)
(* its types, that no goal is reminded of twice, and who may take an event *)
(* out of the file.                                                        *)
(***************************************************************************)
EXTENDS MCServices, WellFoundedInduction, FiniteSetTheorems, TLAPS

----------------------------------------------------------------------------
(* The jobs                                                                *)

BjInv == BjTypeOK /\ OverIsOver

LEMMA BjInitInv == BjInit => BjInv
BY JobsAssumption DEF BjInit, BjInv, BjTypeOK, OverIsOver

\* A job is started, or ends; its watcher announces the end.
LEMMA BjProcessInv ==
  ASSUME BjInv, NEW j \in Jobs, BjStart(j) \/ BjStartFails(j) \/ BjExit(j) \/ BjWatch(j)
  PROVE  BjInv'
<1> USE DEF BjInv, BjTypeOK, OverIsOver, BjSet, announceVars
<1>1. CASE BjStart(j)
  BY <1>1 DEF BjStart
<1>2. CASE BjStartFails(j)
  BY <1>2 DEF BjStartFails
<1>3. CASE BjExit(j)
  BY <1>3 DEF BjExit
<1>4. CASE BjReap(j)
  BY <1>4 DEF BjReap
<1>5. CASE BjOpenTmp(j)
  BY <1>5 DEF BjOpenTmp
<1>6. CASE BjWriteTmp(j)
  <2>1. PICK text \in {j, "mixed"} : bjContent' = [bjContent EXCEPT ![bjFd[j]] = text]
    BY <1>6 DEF BjWriteTmp
  <2>2. bjContent' \in [Jobs -> Jobs \cup {"empty", "mixed"}]
    BY <2>1
  <2>3. bjWatcher' = [bjWatcher EXCEPT ![j] = "wrote"] /\ bjFd' = [bjFd EXCEPT ![j] = "none"]
    BY <1>6 DEF BjWriteTmp
  <2>4. UNCHANGED <<bjProc, bjDir, bjHandle, bjTmp, bjFile, bjCancel, bjAnswer, bjShown,
                    bjRestarts>>
    BY <1>6 DEF BjWriteTmp
  <2> QED BY <2>2, <2>3, <2>4
<1>7. CASE BjRenameTmp(j)
  BY <1>7 DEF BjRenameTmp
<1> QED BY <1>1, <1>2, <1>3, <1>4, <1>5, <1>6, <1>7 DEF BjWatch

\* The run loop polls and cancels: "done" is told of a process that is known to
\* have ended, "cancelled" after the wait that only a handle allows.
LEMMA BjCallInv ==
  ASSUME BjInv, NEW j \in Jobs, BjPoll(j) \/ BjTerminate(j) \/ BjCancelled(j)
  PROVE  BjInv'
<1> USE DEF BjInv, BjTypeOK, OverIsOver, BjSet, announceVars
<1>1. CASE BjPollDone(j)
  <2>1. bjProc'[j] = "reaped" /\ \A k \in Jobs \ {j} : bjProc'[k] = bjProc[k]
    BY <1>1 DEF BjPollDone, BjKnownEnded
  <2> QED BY <1>1, <2>1 DEF BjPollDone
<1>2. CASE BjPollRunning(j)
  BY <1>2 DEF BjPollRunning
<1>3. CASE BjTerminate(j)
  BY <1>3 DEF BjTerminate
<1>4. CASE BjCancelled(j)
  BY <1>4 DEF BjCancelled
<1> QED BY <1>1, <1>2, <1>3, <1>4 DEF BjPoll

\* A notification pass, a dismissal, a restart of the agent.
LEMMA BjAroundInv ==
  ASSUME BjInv, BjPass \/ BjDismiss \/ BjRestart
  PROVE  BjInv'
<1> USE DEF BjInv, BjTypeOK, OverIsOver, announceVars
<1>1. CASE BjPass
  BY <1>1 DEF BjPass
<1>2. CASE BjDismiss
  BY <1>2 DEF BjDismiss
<1>3. CASE BjRestart
  BY <1>3, JobsAssumption DEF BjRestart
<1> QED BY <1>1, <1>2, <1>3

LEMMA BjNextInv == BjInv /\ [BjNext]_bjVars => BjInv'
<1> SUFFICES ASSUME BjInv, [BjNext]_bjVars PROVE BjInv'
  OBVIOUS
<1>1. CASE UNCHANGED bjVars
  BY <1>1 DEF bjVars, BjInv, BjTypeOK, OverIsOver
<1>2. CASE BjNext
  BY <1>2, BjProcessInv, BjCallInv, BjAroundInv DEF BjNext
<1> QED BY <1>1, <1>2

LEMMA BjSpecInv == BjSpec => []BjInv
BY BjInitInv, BjNextInv, PTL DEF BjSpec

\* Every value of the jobs is of its type, and a handle is kept only for a job
\* that has its directory.
THEOREM JobsTyped == BjSpec => []BjTypeOK
<1>1. BjInv => BjTypeOK
  BY DEF BjInv
<1> QED BY <1>1, BjSpecInv, PTL

\* A poll says "done" and a cancel says "cancelled" only of a process that has
\* ended, for any number of jobs and restarts of the agent (_handle_poll,
\* _handle_cancel).
THEOREM OverWhenTold == BjSpec => []OverIsOver
<1>1. BjInv => OverIsOver
  BY DEF BjInv
<1> QED BY <1>1, BjSpecInv, PTL

----------------------------------------------------------------------------
(* Lists of events: what StUnder and StCapped return                       *)

Below == {ss \in Nat \X Nat : ss[1] < ss[2]}

\* A set of numbers that is not empty has a least one: what is proved below of
\* every prefix of a sequence is proved of the first for which it would fail.
LEMMA First ==
  ASSUME NEW T \in SUBSET Nat, T # {}
  PROVE  \E x \in T : \A y \in T : x <= y
<1>1. IsWellFoundedOn(Below, Nat)
  BY NatLessThanWellFounded DEF Below, OpToRel
<1>2. PICK x \in T : \A y \in T : ~(<<y, x>> \in Below)
  BY <1>1, WFMin
<1>3. ASSUME NEW y \in T PROVE x <= y
  <2>1. x \in Nat /\ y \in Nat
    OBVIOUS
  <2>2. <<y, x>> \notin Below
    BY <1>2
  <2>3. ~(y < x)
    BY <2>1, <2>2 DEF Below
  <2> QED BY <2>1, <2>3
<1> QED BY <1>3

\* Prefix by prefix, what is kept of a sequence of events.
Keeps(f, events, refs, n) ==
  f = [i \in 0..n |->
         IF i = 0 THEN <<>>
         ELSE IF events[i].ref \in refs THEN Append(f[i - 1], events[i]) ELSE f[i - 1]]

\* Such a function exists, so that StUnder chooses it.
LEMMA KeepsExists ==
  ASSUME NEW events, NEW refs, NEW n \in Nat
  PROVE  \E f : Keeps(f, events, refs, n)
<1> DEFINE Bad == {m \in Nat : ~\E f : Keeps(f, events, refs, m)}
<1> SUFFICES ASSUME Bad # {} PROVE FALSE
  OBVIOUS
<1>1. PICK m \in Bad : \A k \in Bad : m <= k
  BY First
<1>2. CASE m = 0
  <2> DEFINE f == [i \in 0..0 |-> <<>>]
  <2>1. Keeps(f, events, refs, 0)
    BY DEF Keeps
  <2> QED BY <1>1, <1>2, <2>1
<1>3. CASE m # 0
  <2>1. m - 1 \in Nat /\ m - 1 \notin Bad /\ m \in Nat
    BY <1>1, <1>3
  <2>2. PICK g : Keeps(g, events, refs, m - 1)
    BY <2>1
  <2> DEFINE step == IF events[m].ref \in refs THEN Append(g[m - 1], events[m]) ELSE g[m - 1]
             f == [i \in 0..m |-> IF i = m THEN step ELSE g[i]]
             h == [i \in 0..m |->
                     IF i = 0 THEN <<>>
                     ELSE IF events[i].ref \in refs THEN Append(f[i - 1], events[i])
                     ELSE f[i - 1]]
  <2>3. \A i \in 0..m - 1 :
          g[i] = IF i = 0 THEN <<>>
                 ELSE IF events[i].ref \in refs THEN Append(g[i - 1], events[i]) ELSE g[i - 1]
    BY <2>2 DEF Keeps
  <2>4. ASSUME NEW i \in 0..m PROVE f[i] = h[i]
    <3>1. CASE i = m
      <4>1. f[m - 1] = g[m - 1]
        BY <2>1
      <4> QED BY <1>3, <2>1, <3>1, <4>1
    <3>2. CASE i # m
      <4>1. i \in 0..m - 1 /\ f[i] = g[i]
        BY <2>1, <3>2
      <4>2. i # 0 => f[i - 1] = g[i - 1]
        BY <2>1, <4>1
      <4> QED BY <2>3, <4>1, <4>2
    <3> QED BY <3>1, <3>2
  <2>5. f = h
    BY <2>4
  <2>6. Keeps(f, events, refs, m)
    BY <2>5 DEF Keeps
  <2> QED BY <1>1, <2>6
<1> QED BY <1>2, <1>3

\* Where each event that is kept was: no place is named twice.
Places(kept, events, h, n) ==
  /\ h \in [1..Len(kept) -> 1..n]
  /\ \A i \in 1..Len(kept) : kept[i] = events[h[i]]
  /\ \A i, j \in 1..Len(kept) : h[i] = h[j] => i = j
Picked(kept, events, refs, n) ==
  /\ kept \in Seq(StEvent) /\ Len(kept) <= n
  /\ \E h : Places(kept, events, h, n)
  /\ \A i \in 1..Len(kept) : kept[i].ref \in refs
  /\ \A j \in 1..n : events[j].ref \in refs => \E i \in 1..Len(kept) : kept[i] = events[j]

\* One more event is looked at.
LEMMA PickedStep ==
  ASSUME NEW events \in Seq(StEvent), NEW refs, NEW n \in 1..Len(events), NEW kept,
         Picked(kept, events, refs, n - 1)
  PROVE  Picked(IF events[n].ref \in refs THEN Append(kept, events[n]) ELSE kept,
                events, refs, n)
<1> DEFINE e == events[n]
           L == Len(kept)
<1>1. /\ Len(events) \in Nat /\ n \in Nat /\ n > 0 /\ e \in StEvent
      /\ kept \in Seq(StEvent) /\ L \in Nat /\ L <= n - 1
  BY DEF Picked
<1>2. PICK h : Places(kept, events, h, n - 1)
  BY DEF Picked
<1>3. CASE e.ref \in refs
  <2> DEFINE new == Append(kept, e)
             g == [i \in 1..L + 1 |-> IF i = L + 1 THEN n ELSE h[i]]
  <2>1. /\ new \in Seq(StEvent) /\ Len(new) = L + 1 /\ new[L + 1] = e
        /\ \A i \in 1..L : new[i] = kept[i]
    BY <1>1
  <2>2. Places(new, events, g, n)
    <3>1. \A i \in 1..L + 1 : i = L + 1 \/ i \in 1..L
      BY <1>1
    <3>2. \A i \in 1..L : g[i] = h[i] /\ h[i] \in 1..n - 1 /\ h[i] # n
      BY <1>1, <1>2 DEF Places
    <3>3. g[L + 1] = n
      BY <1>1
    <3> HIDE DEF g
    <3>4. \A i \in 1..L + 1 : g[i] \in 1..n /\ new[i] = events[g[i]]
      BY <1>1, <1>2, <2>1, <3>1, <3>2, <3>3 DEF Places
    <3>5. \A i, j \in 1..L + 1 : g[i] = g[j] => i = j
      BY <1>2, <3>1, <3>2, <3>3 DEF Places
    <3>6. g \in [1..L + 1 -> 1..n]
      BY <3>4 DEF g
    <3> QED BY <2>1, <3>4, <3>5, <3>6 DEF Places
  <2>3. \A i \in 1..L + 1 : new[i].ref \in refs
    BY <1>1, <1>3, <2>1 DEF Picked
  <2>4. ASSUME NEW j \in 1..n, events[j].ref \in refs
        PROVE  \E i \in 1..L + 1 : new[i] = events[j]
    <3>1. CASE j = n
      BY <1>1, <2>1, <3>1
    <3>2. CASE j # n
      <4>1. j \in 1..n - 1
        BY <1>1, <3>2
      <4>2. PICK i \in 1..L : kept[i] = events[j]
        BY <2>4, <4>1 DEF Picked
      <4> QED BY <1>1, <2>1, <4>2
    <3> QED BY <3>1, <3>2
  <2> HIDE DEF new, g
  <2>5. Picked(new, events, refs, n)
    <3>1. new \in Seq(StEvent) /\ Len(new) <= n /\ Len(new) = L + 1
      BY <1>1, <2>1
    <3> QED BY <2>2, <2>3, <2>4, <3>1 DEF Picked
  <2> QED BY <1>3, <2>5 DEF new
<1>4. CASE e.ref \notin refs
  <2>1. Places(kept, events, h, n)
    BY <1>1, <1>2 DEF Places
  <2>2. ASSUME NEW j \in 1..n, events[j].ref \in refs
        PROVE  \E i \in 1..L : kept[i] = events[j]
    <3>1. j \in 1..n - 1
      BY <1>1, <1>4, <2>2
    <3> QED BY <2>2, <3>1 DEF Picked
  <2> QED BY <1>1, <1>4, <2>1, <2>2 DEF Picked
<1> QED BY <1>3, <1>4

\* What StUnder leaves is picked from the events in this sense.
LEMMA UnderIsPicked ==
  ASSUME NEW events \in Seq(StEvent), NEW refs
  PROVE  Picked(StUnder(events, refs), events, refs, Len(events))
<1> DEFINE F == CHOOSE f : Keeps(f, events, refs, Len(events))
           Bad == {m \in 0..Len(events) : ~Picked(F[m], events, refs, m)}
<1>0. Len(events) \in Nat
  OBVIOUS
<1>1. Keeps(F, events, refs, Len(events))
  BY <1>0, KeepsExists
<1>2. StUnder(events, refs) = F[Len(events)]
  BY DEF StUnder, Keeps
<1>3. \A i \in 0..Len(events) :
        F[i] = IF i = 0 THEN <<>>
               ELSE IF events[i].ref \in refs THEN Append(F[i - 1], events[i]) ELSE F[i - 1]
  <2> HIDE DEF F
  <2> QED BY <1>1 DEF Keeps
<1> HIDE DEF F
<1> SUFFICES ASSUME Bad # {} PROVE FALSE
  BY <1>0, <1>2
<1>4. PICK m \in Bad : \A k \in Bad : m <= k
  <2>1. Bad \in SUBSET Nat
    OBVIOUS
  <2> QED BY <2>1, First
<1>5. CASE m = 0
  <2>1. F[0] = <<>>
    BY <1>0, <1>3
  <2>2. Places(<<>>, events, <<>>, 0)
    BY DEF Places
  <2>3. Picked(<<>>, events, refs, 0)
    BY <2>2 DEF Picked
  <2> QED BY <1>4, <1>5, <2>1, <2>3
<1>6. CASE m # 0
  <2>1. m \in 1..Len(events) /\ m - 1 \in 0..Len(events) /\ m - 1 \notin Bad
    BY <1>0, <1>4, <1>6
  <2>2. Picked(F[m - 1], events, refs, m - 1)
    BY <2>1
  <2>3. F[m] = IF events[m].ref \in refs THEN Append(F[m - 1], events[m]) ELSE F[m - 1]
    BY <1>3, <2>1
  <2>4. Picked(F[m], events, refs, m)
    BY <2>1, <2>2, <2>3, PickedStep
  <2> QED BY <1>4, <2>4
<1> QED BY <1>5, <1>6

\* No two events of a list are reminders of one goal.
Once(events) ==
  \A i, j \in DOMAIN events : events[i].ref = events[j].ref /\ events[i].ref \in Goals => i = j

\* What becomes of a list of events from which some are picked.
LEMMA UnderKeeps ==
  ASSUME NEW events \in Seq(StEvent), NEW refs
  PROVE  LET kept == StUnder(events, refs)
         IN /\ kept \in Seq(StEvent) /\ Len(kept) <= Len(events)
            /\ StIds(kept) \subseteq StIds(events)
            /\ \A r : StHasRef(kept, r) => StHasRef(events, r) /\ r \in refs
            /\ Once(events) => Once(kept)
            /\ \A j \in DOMAIN events : events[j].ref \in refs => events[j].id \in StIds(kept)
<1> DEFINE kept == StUnder(events, refs)
<1>1. Picked(kept, events, refs, Len(events))
  BY UnderIsPicked
<1> HIDE DEF kept
<1>2. PICK h : Places(kept, events, h, Len(events))
  BY <1>1 DEF Picked
<1>3. kept \in Seq(StEvent) /\ Len(kept) <= Len(events) /\ Len(events) \in Nat
      /\ DOMAIN kept = 1..Len(kept) /\ DOMAIN events = 1..Len(events)
  BY <1>1 DEF Picked
<1>4. StIds(kept) \subseteq StIds(events)
  BY <1>2, <1>3 DEF Places, StIds
<1>5. \A r : StHasRef(kept, r) => StHasRef(events, r) /\ r \in refs
  BY <1>1, <1>2, <1>3 DEF Places, StHasRef, Picked
<1>6. Once(events) => Once(kept)
  BY <1>2, <1>3 DEF Places, Once
<1>7. \A j \in DOMAIN events : events[j].ref \in refs => events[j].id \in StIds(kept)
  BY <1>1, <1>3 DEF Picked, StIds
<1> QED BY <1>3, <1>4, <1>5, <1>6, <1>7 DEF kept

\* And of one to which an event is added, which may push out the oldest.
LEMMA CappedKeeps ==
  ASSUME NEW events \in Seq(StEvent), Len(events) <= MaxEvents, NEW e \in StEvent
  PROVE  LET capped == StCapped(Append(events, e))
         IN /\ capped \in Seq(StEvent) /\ Len(capped) <= MaxEvents
            /\ StIds(capped) \subseteq StIds(events) \cup {e.id}
            /\ \A r : StHasRef(capped, r) => StHasRef(events, r) \/ r = e.ref
            /\ Once(events) /\ (e.ref \in Goals => ~StHasRef(events, e.ref)) => Once(capped)
            /\ \A i \in DOMAIN events :
                 events[i].id \in StIds(capped) \/ (Len(events) = MaxEvents /\ i = 1)
<1> DEFINE L == Len(events)
           d == IF L + 1 > MaxEvents THEN L + 1 - MaxEvents ELSE 0
           all == Append(events, e)
           capped == StCapped(all)
<1>1. L \in Nat /\ MaxEvents \in Nat \ {0} /\ L <= MaxEvents
  BY StoreAssumption
<1>2. /\ all \in Seq(StEvent) /\ Len(all) = L + 1 /\ all[L + 1] = e
      /\ \A i \in 1..L : all[i] = events[i]
  BY <1>1
<1>3. d \in {0, 1} /\ (d = 1 <=> L = MaxEvents) /\ L + 1 - d <= MaxEvents /\ L + 1 - d \in Nat
  BY <1>1
<1>4. capped = SubSeq(all, 1 + d, L + 1)
  <2>1. Len(all) = L + 1
    BY <1>2
  <2> HIDE DEF all, L
  <2> DEFINE c == IF Len(all) > MaxEvents THEN Len(all) - MaxEvents ELSE 0
  <2>2. capped = SubSeq(all, 1 + c, Len(all))
    BY DEF StCapped
  <2>3. c = d
    BY <1>1, <2>1
  <2> HIDE DEF capped, c, d
  <2> QED BY <2>1, <2>2, <2>3
<1> HIDE DEF d, all, L
<1>5. /\ capped \in Seq(StEvent) /\ Len(capped) = L + 1 - d
      /\ \A i \in 1..L + 1 - d : capped[i] = all[i + d]
  BY <1>1, <1>2, <1>3, <1>4
<1> HIDE DEF capped
<1>6. DOMAIN capped = 1..L + 1 - d /\ DOMAIN events = 1..L
  BY <1>5 DEF L
\* An entry of the new list is the new event or stood one place further, or there.
<1>7. \A i \in DOMAIN capped : \/ i + d = L + 1 /\ capped[i] = e
                               \/ i + d \in DOMAIN events /\ capped[i] = events[i + d]
  <2> SUFFICES ASSUME NEW i \in 1..L + 1 - d
               PROVE  \/ i + d = L + 1 /\ capped[i] = e
                      \/ i + d \in 1..L /\ capped[i] = events[i + d]
    BY <1>6
  <2>1. i + d \in 1..L + 1
    BY <1>1, <1>3
  <2> QED BY <1>1, <1>2, <1>5, <2>1
<1>8. StIds(capped) \subseteq StIds(events) \cup {e.id}
  BY <1>7 DEF StIds
<1>9. \A r : StHasRef(capped, r) => StHasRef(events, r) \/ r = e.ref
  BY <1>7 DEF StHasRef
<1>10. ASSUME Once(events), e.ref \in Goals => ~StHasRef(events, e.ref)
       PROVE  Once(capped)
  <2> SUFFICES ASSUME NEW i \in DOMAIN capped, NEW j \in DOMAIN capped,
                      capped[i].ref = capped[j].ref, capped[i].ref \in Goals
               PROVE  i = j
    BY DEF Once
  <2>1. i \in Int /\ j \in Int /\ d \in Int /\ (i + d = j + d => i = j)
    BY <1>3, <1>6
  <2>2. i + d = j + d
    BY <1>7, <1>10 DEF Once, StHasRef
  <2> QED BY <2>1, <2>2
<1>11. ASSUME NEW i \in DOMAIN events, ~(L = MaxEvents /\ i = 1)
       PROVE  events[i].id \in StIds(capped)
  <2>1. i - d \in DOMAIN capped /\ i - d + d = i /\ i \in 1..L
    BY <1>1, <1>3, <1>6, <1>11
  <2>2. capped[i - d] = events[i]
    BY <1>2, <1>5, <1>6, <2>1
  <2> QED BY <2>1, <2>2 DEF StIds
<1> QED BY <1>1, <1>3, <1>5, <1>8, <1>9, <1>10, <1>11 DEF capped, all, L

----------------------------------------------------------------------------
(* The system channel                                                      *)

Owning == {"append", "goal_cleared", "dismissing"}

\* Whoever holds the lock has the file in memory as it is on disk.
HasRead == \A t \in StThreads : stAt[t] \in Owning => stBuf[t] = stEvents

\* Which thread is in which operation, and the ref it has.
InPlace ==
  /\ \A t \in StThreads :
       /\ stAt[t] \in {"enqueue", "goal_clear", "goal_cleared", "goal_scan", "sync"} => t = "hb"
       /\ stAt[t] = "dismissing" => t = "rl"
       /\ stAt[t] = "append" => stRef[t] \in PostRefs \/ (t = "hb" /\ stRef[t] \in Goals)
  /\ stAt["hb"] \in {"goal_clear", "goal_cleared"} => stRef["hb"] \in Goals \cup {"none"}
  /\ stAt["hb"] \in {"goal_scan", "enqueue"} => stRef["hb"] \in Goals

\* From the scan to the section that adds the reminder none is there: only the
\* goal check adds one.
Absent ==
  stAt["hb"] \in {"enqueue", "append"} /\ stRef["hb"] \in Goals =>
    ~StHasRef(stEvents, stRef["hb"])

\* No id is given twice, and what a committed fingerprint held is known.
IdsPast ==
  /\ \A n \in StIds(stEvents) \cup StIds(stFp) : n <= stPosted
  /\ \A t \in StThreads : \A n \in StIds(stBuf[t]) : n <= stPosted
Shown ==
  /\ StIds(stFp) \cap StIds(stEvents) \subseteq stKnown
  /\ stAt["rl"] = "dismissing" /\ ~stSkip["rl"] => StIds(stEvents) \subseteq stKnown

Safe  == HasRead /\ InPlace /\ Absent /\ IdsPast /\ Shown /\ Once(stEvents)
StInv == StTypeOK /\ Safe

\* Ids are numbers.
LEMMA Numbered ==
  ASSUME StTypeOK
  PROVE  /\ stPosted \in Int /\ StIds(stEvents) \subseteq Int /\ StIds(stFp) \subseteq Int
         /\ \A t \in StThreads : StIds(stBuf[t]) \subseteq Int
<1>1. ASSUME NEW s \in Seq(StEvent) PROVE StIds(s) \subseteq Int
  <2>1. \A i \in DOMAIN s : s[i] \in StEvent
    OBVIOUS
  <2>2. \A i \in DOMAIN s : s[i].id \in Int
    BY <2>1 DEF StEvent
  <2> QED BY <2>2 DEF StIds
<1> QED BY <1>1 DEF StTypeOK

LEMMA StStart == StInit => StInv
<1> SUFFICES ASSUME StInit PROVE StInv
  OBVIOUS
<1>1. <<>> \in Seq(StEvent) /\ Len(<<>>) = 0 /\ StIds(<<>>) = {}
  BY DEF StIds
<1>2. StTypeOK
  <2>1. stEvents \in Seq(StEvent) /\ Len(stEvents) <= MaxEvents
    BY <1>1, StoreAssumption DEF StInit
  <2>2. \A t \in StThreads :
          stOwner = t <=> stAt[t] \in {"append", "goal_cleared", "dismissing"}
    BY StoreAssumption DEF StInit, StThreads
  <2>3. stBuf \in [StThreads -> Seq(StEvent)] /\ stFp \in Seq(StEvent)
    BY <1>1 DEF StInit
  <2>4. stKnown \subseteq 1..MaxPosts /\ stPosted \in 0..MaxPosts /\ stMoves \in 0..MaxGoalMoves
    BY StoreAssumption DEF StInit
  <2> QED BY <2>1, <2>2, <2>3, <2>4 DEF StInit, StTypeOK
<1>3. HasRead /\ InPlace /\ Absent /\ IdsPast /\ Shown /\ Once(stEvents)
  BY <1>1 DEF StInit, HasRead, InPlace, Absent, IdsPast, Shown, Once, Owning, StThreads
<1> QED BY <1>2, <1>3 DEF StInv, Safe

\* What one thread does to the four maps leaves them typed and the others alone.
LEMMA Went ==
  ASSUME StTypeOK, NEW t \in StThreads, NEW at, StGoto(t, at),
         at \in {"idle", "enqueue", "append", "goal_clear", "goal_cleared", "goal_scan",
                 "sync", "dismissing"}
  PROVE  /\ stAt' \in [StThreads -> {"idle", "enqueue", "append", "goal_clear",
                                     "goal_cleared", "goal_scan", "sync", "dismissing"}]
         /\ stAt'[t] = at /\ \A u \in StThreads \ {t} : stAt'[u] = stAt[u]
BY DEF StTypeOK, StGoto

LEMMA HasReadIn ==
  ASSUME StTypeOK, NEW t \in StThreads, StRead(t)
  PROVE  /\ stBuf' \in [StThreads -> Seq(StEvent)]
         /\ stBuf'[t] = stEvents /\ \A u \in StThreads \ {t} : stBuf'[u] = stBuf[u]
BY DEF StTypeOK, StRead

LEMMA Returned ==
  ASSUME StTypeOK, NEW t \in StThreads, StReturn(t)
  PROVE  /\ stAt' \in [StThreads -> {"idle", "enqueue", "append", "goal_clear",
                                     "goal_cleared", "goal_scan", "sync", "dismissing"}]
         /\ stBuf' \in [StThreads -> Seq(StEvent)]
         /\ stRef' \in [StThreads -> StRefs \cup {"none", "all"}]
         /\ stSkip' \in [StThreads -> BOOLEAN]
         /\ stAt'[t] = "idle" /\ StIds(stBuf'[t]) = {}
         /\ \A u \in StThreads \ {t} : /\ stAt'[u] = stAt[u] /\ stBuf'[u] = stBuf[u]
                                       /\ stRef'[u] = stRef[u] /\ stSkip'[u] = stSkip[u]
<1>1. <<>> \in Seq(StEvent) /\ StIds(<<>>) = {}
  BY DEF StIds
<1>2. /\ stAt' = [stAt EXCEPT ![t] = "idle"] /\ stBuf' = [stBuf EXCEPT ![t] = <<>>]
      /\ stRef' = [stRef EXCEPT ![t] = "none"] /\ stSkip' = [stSkip EXCEPT ![t] = FALSE]
  BY DEF StReturn, StGoto
<1>3. stBuf'[t] = <<>> /\ stAt'[t] = "idle"
  BY <1>2 DEF StTypeOK
<1>4. stBuf' \in [StThreads -> Seq(StEvent)]
  BY <1>1, <1>2 DEF StTypeOK
<1>5. stRef' \in [StThreads -> StRefs \cup {"none", "all"}] /\ stSkip' \in [StThreads -> BOOLEAN]
  BY <1>2 DEF StTypeOK
<1>6. stAt' \in [StThreads -> {"idle", "enqueue", "append", "goal_clear",
                               "goal_cleared", "goal_scan", "sync", "dismissing"}]
  BY <1>2 DEF StTypeOK
<1>7. \A u \in StThreads \ {t} : /\ stAt'[u] = stAt[u] /\ stBuf'[u] = stBuf[u]
                                 /\ stRef'[u] = stRef[u] /\ stSkip'[u] = stSkip[u]
  BY <1>2 DEF StTypeOK
<1> QED BY <1>1, <1>3, <1>4, <1>5, <1>6, <1>7

\* The lock is taken by a thread that has none, and given back by its holder.
LEMMA Taken ==
  ASSUME StTypeOK, NEW t \in StThreads, StTake(t), NEW at \in Owning, StGoto(t, at)
  PROVE  /\ stOwner' \in StThreads \cup {"free"}
         /\ \A u \in StThreads :
              stOwner' = u <=> stAt'[u] \in {"append", "goal_cleared", "dismissing"}
         /\ \A u \in StThreads \ {t} : stAt'[u] \notin Owning
<1>1. "free" \notin StThreads
  BY StoreAssumption DEF StThreads
<1>2. stAt'[t] = at /\ \A u \in StThreads \ {t} : stAt'[u] = stAt[u]
  BY Went DEF Owning
<1>3. \A u \in StThreads : stAt[u] \notin {"append", "goal_cleared", "dismissing"}
  BY <1>1 DEF StTypeOK, StTake
<1> QED BY <1>2, <1>3 DEF StTake, Owning

LEMMA GivenBack ==
  ASSUME StTypeOK, NEW t \in StThreads, stAt[t] \in Owning, StRelease,
         NEW at, at \notin Owning, stAt'[t] = at,
         \A u \in StThreads \ {t} : stAt'[u] = stAt[u]
  PROVE  /\ stOwner = t
         /\ stOwner' \in StThreads \cup {"free"}
         /\ \A u \in StThreads : stAt'[u] \notin Owning
         /\ \A u \in StThreads :
              stOwner' = u <=> stAt'[u] \in {"append", "goal_cleared", "dismissing"}
<1>1. "free" \notin StThreads
  BY StoreAssumption DEF StThreads
<1>2. stOwner = t
  BY DEF StTypeOK, Owning
<1>3. \A u \in StThreads \ {t} : stAt[u] \notin Owning
  BY <1>2 DEF StTypeOK, Owning
<1>4. \A u \in StThreads : stAt'[u] \notin Owning
  BY <1>3
<1> QED BY <1>1, <1>2, <1>4 DEF StRelease, Owning

LEMMA ByEnqueueRead ==
  ASSUME StInv, NEW t \in StThreads, StEnqueueRead(t)
  PROVE  StInv'
<1> USE DEF StInv, Safe
<1>1. /\ StTake(t) /\ StRead(t) /\ StGoto(t, "append") /\ "append" \in Owning
      /\ UNCHANGED <<stEvents, stFp, stKnown, stPosted, stGoal, stMoves, stSnooze>>
  BY DEF StEnqueueRead, goalVars, Owning
<1>2. /\ stAt'[t] = "append" /\ \A u \in StThreads \ {t} : stAt'[u] = stAt[u]
      /\ \A u \in StThreads \ {t} : stAt'[u] \notin Owning
  BY <1>1, Went, Taken
<1>3. stBuf'[t] = stEvents /\ \A u \in StThreads \ {t} : stBuf'[u] = stBuf[u]
  BY <1>1, HasReadIn
<1>4. /\ stRef' \in [StThreads -> StRefs \cup {"none", "all"}]
      /\ stSkip' \in [StThreads -> BOOLEAN]
      /\ \A u \in StThreads \ {t} : stRef'[u] = stRef[u] /\ stSkip'[u] = stSkip[u]
      /\ \/ stRef'[t] \in PostRefs
         \/ stAt[t] = "enqueue" /\ stRef'[t] = stRef[t]
  <2>1. CASE stAt[t] = "enqueue" /\ UNCHANGED <<stRef, stSkip>>
    BY <2>1 DEF StTypeOK
  <2>2. CASE \E r \in PostRefs, skip \in BOOLEAN :
               /\ stRef' = [stRef EXCEPT ![t] = r]
               /\ stSkip' = [stSkip EXCEPT ![t] = skip]
    BY <2>2 DEF StTypeOK, StRefs
  <2> QED BY <2>1, <2>2 DEF StEnqueueRead
<1>5. StTypeOK'
  <2>1. stAt' \in [StThreads -> {"idle", "enqueue", "append", "goal_clear",
                                 "goal_cleared", "goal_scan", "sync", "dismissing"}]
    BY <1>1, Went
  <2>2. stBuf' \in [StThreads -> Seq(StEvent)]
    BY <1>1, HasReadIn
  <2>3. /\ stOwner' \in StThreads \cup {"free"}
        /\ \A u \in StThreads :
             stOwner' = u <=> stAt'[u] \in {"append", "goal_cleared", "dismissing"}
    BY <1>1, Taken
  <2> QED BY <1>1, <1>4, <2>1, <2>2, <2>3 DEF StTypeOK
<1>6. HasRead' /\ InPlace'
  <2>1. stAt[t] = "enqueue" => t = "hb" /\ stRef[t] \in Goals
    BY DEF InPlace
  <2>2. "hb" \in StThreads
    BY DEF StThreads
  <2>3. HasRead'
    BY <1>1, <1>2, <1>3 DEF HasRead
  <2>4. ASSUME NEW u \in StThreads
        PROVE  /\ stAt'[u] \in {"enqueue", "goal_clear", "goal_cleared", "goal_scan", "sync"}
                    => u = "hb"
               /\ stAt'[u] = "dismissing" => u = "rl"
               /\ stAt'[u] = "append" =>
                    stRef'[u] \in PostRefs \/ (u = "hb" /\ stRef'[u] \in Goals)
    BY <1>2, <1>4, <2>1 DEF InPlace
  <2>5. /\ stAt'["hb"] \in {"goal_clear", "goal_cleared"} => stRef'["hb"] \in Goals \cup {"none"}
        /\ stAt'["hb"] \in {"goal_scan", "enqueue"} => stRef'["hb"] \in Goals
    BY <1>2, <1>4, <2>2 DEF InPlace
  <2> QED BY <2>3, <2>4, <2>5 DEF InPlace
<1>7. Absent'
  BY <1>1, <1>2, <1>4, StoreAssumption DEF Absent, StThreads
<1>8. IdsPast'
  BY <1>1, <1>3 DEF IdsPast
<1>9. Shown' /\ Once(stEvents)'
  <2>1. stAt'["rl"] = "dismissing" => stAt["rl"] = "dismissing" /\ stSkip'["rl"] = stSkip["rl"]
    BY <1>2, <1>4 DEF StThreads
  <2> QED BY <1>1, <2>1 DEF Shown
<1> QED BY <1>5, <1>6, <1>7, <1>8, <1>9

LEMMA ByAppend ==
  ASSUME StInv, NEW t \in StThreads, StAppend(t)
  PROVE  /\ StInv'
         /\ \A i \in DOMAIN stEvents :
              \/ stEvents[i].id \in StIds(stEvents')
              \/ Len(stEvents) = MaxEvents /\ i = 1 /\ stPosted' = stPosted + 1
<1> USE DEF StInv, Safe
<1>1. /\ stAt[t] = "append" /\ StRelease /\ StReturn(t) /\ stAt[t] \in Owning
      /\ UNCHANGED <<stFp, stKnown, stGoal, stMoves, stSnooze>>
  BY DEF StAppend, goalVars, Owning
<1>2. /\ stAt'[t] = "idle" /\ StIds(stBuf'[t]) = {}
      /\ \A u \in StThreads \ {t} : /\ stAt'[u] = stAt[u] /\ stBuf'[u] = stBuf[u]
                                    /\ stRef'[u] = stRef[u] /\ stSkip'[u] = stSkip[u]
  BY <1>1, Returned
<1>3. /\ stOwner' \in StThreads \cup {"free"}
      /\ \A u \in StThreads : stAt'[u] \notin Owning
      /\ \A u \in StThreads :
           stOwner' = u <=> stAt'[u] \in {"append", "goal_cleared", "dismissing"}
  BY <1>1, <1>2, GivenBack DEF Owning
<1>4. /\ stBuf[t] = stEvents
      /\ stRef[t] \in PostRefs \/ (t = "hb" /\ stRef[t] \in Goals)
  BY <1>1 DEF HasRead, InPlace
<1> DEFINE e == [id |-> stPosted + 1, ref |-> stRef[t]]
<1>5. /\ stEvents' \in Seq(StEvent) /\ Len(stEvents') <= MaxEvents
      /\ stPosted' \in 0..MaxPosts /\ stPosted <= stPosted'
      /\ \A n \in StIds(stEvents') : n \in StIds(stEvents) \/ (n = stPosted' /\ stPosted < n)
      /\ \A r : StHasRef(stEvents', r) => StHasRef(stEvents, r) \/ r = stRef[t]
      /\ Once(stEvents')
      /\ \A i \in DOMAIN stEvents :
           \/ stEvents[i].id \in StIds(stEvents')
           \/ Len(stEvents) = MaxEvents /\ i = 1 /\ stPosted' = stPosted + 1
  <2>1. CASE UNCHANGED <<stEvents, stPosted>>
    <3>1. \A i \in DOMAIN stEvents : stEvents[i].id \in StIds(stEvents')
      BY <2>1 DEF StIds
    <3>2. \A n \in StIds(stEvents') : n \in StIds(stEvents)
      BY <2>1 DEF StIds
    <3>3. stPosted <= stPosted
      BY Numbered
    <3> QED BY <2>1, <3>1, <3>2, <3>3 DEF StTypeOK
  <2>2. CASE /\ stPosted # MaxPosts
             /\ stEvents' = StCapped(Append(stEvents, e)) /\ stPosted' = stPosted + 1
    <3>1. stPosted + 1 \in 1..MaxPosts /\ stPosted \in Nat
      BY <2>2, StoreAssumption DEF StTypeOK
    <3>2. e \in StEvent /\ e.id = stPosted + 1 /\ e.ref = stRef[t]
      BY <1>4, <3>1 DEF StEvent, StRefs
    <3>3. e.ref \in Goals => ~StHasRef(stEvents, e.ref)
      BY <1>1, <1>4, <3>2, StoreAssumption DEF Absent
    <3>4. stEvents \in Seq(StEvent) /\ Len(stEvents) <= MaxEvents
      BY DEF StTypeOK
    <3> HIDE DEF e
    <3>5. /\ stEvents' \in Seq(StEvent) /\ Len(stEvents') <= MaxEvents
          /\ StIds(stEvents') \subseteq StIds(stEvents) \cup {e.id}
          /\ \A r : StHasRef(stEvents', r) => StHasRef(stEvents, r) \/ r = e.ref
          /\ Once(stEvents')
          /\ \A i \in DOMAIN stEvents :
               stEvents[i].id \in StIds(stEvents') \/ (Len(stEvents) = MaxEvents /\ i = 1)
      BY <2>2, <3>2, <3>3, <3>4, CappedKeeps
    <3>6. stPosted' \in 0..MaxPosts /\ stPosted <= stPosted' /\ stPosted < stPosted'
      BY <2>2, <3>1
    <3>7. \A n \in StIds(stEvents') : n \in StIds(stEvents) \/ (n = stPosted' /\ stPosted < n)
      BY <2>2, <3>2, <3>5, <3>6
    <3> QED BY <2>2, <3>2, <3>5, <3>6, <3>7
  <2> QED BY <1>4, <2>1, <2>2 DEF StAppend
<1> HIDE DEF e
<1>6. StTypeOK'
  BY <1>1, <1>3, <1>5, Returned DEF StTypeOK
<1>7. HasRead' /\ InPlace'
  <2>1. HasRead'
    BY <1>3 DEF HasRead
  <2>2. "hb" \in StThreads
    BY DEF StThreads
  <2>3. ASSUME NEW u \in StThreads
        PROVE  /\ stAt'[u] \in {"enqueue", "goal_clear", "goal_cleared", "goal_scan", "sync"}
                    => u = "hb"
               /\ stAt'[u] = "dismissing" => u = "rl"
               /\ stAt'[u] = "append" =>
                    stRef'[u] \in PostRefs \/ (u = "hb" /\ stRef'[u] \in Goals)
    BY <1>2 DEF InPlace
  <2>4. /\ stAt'["hb"] \in {"goal_clear", "goal_cleared"} => stRef'["hb"] \in Goals \cup {"none"}
        /\ stAt'["hb"] \in {"goal_scan", "enqueue"} => stRef'["hb"] \in Goals
    BY <1>2, <2>2 DEF InPlace
  <2> QED BY <2>1, <2>3, <2>4 DEF InPlace
<1>8. Absent'
  <2> SUFFICES ASSUME stAt'["hb"] \in {"enqueue", "append"}, stRef'["hb"] \in Goals
               PROVE  ~StHasRef(stEvents', stRef'["hb"])
    BY DEF Absent, StHasRef
  <2>1. "hb" \in StThreads /\ t # "hb"
    BY <1>2 DEF StThreads
  <2>2. stRef'["hb"] = stRef["hb"] /\ stAt["hb"] \in {"enqueue", "append"}
    BY <1>2, <2>1
  <2>3. stRef[t] # stRef["hb"]
    BY <1>4, <2>1, <2>2, StoreAssumption
  <2> QED BY <1>5, <2>2, <2>3 DEF Absent
<1>9. IdsPast'
  <2>1. stPosted \in Int /\ stPosted' \in Int
    BY <1>5 DEF StTypeOK
  <2>2. ASSUME NEW n \in StIds(stEvents') PROVE n <= stPosted'
    <3>1. CASE n = stPosted'
      BY <2>1, <3>1
    <3>2. CASE n \in StIds(stEvents)
      <4>1. n \in Int
        BY <3>2, Numbered
      <4> QED BY <1>5, <2>1, <3>2, <4>1 DEF IdsPast
    <3> QED BY <1>5, <3>1, <3>2
  <2>3. ASSUME NEW n \in StIds(stFp') PROVE n <= stPosted'
    <3>1. n \in Int /\ n <= stPosted
      BY <1>1, Numbered DEF IdsPast, StIds
    <3> QED BY <1>5, <2>1, <3>1
  <2>4. ASSUME NEW u \in StThreads, NEW n \in StIds(stBuf'[u]) PROVE n <= stPosted'
    <3>1. u # t /\ n \in StIds(stBuf[u])
      BY <1>2, <2>4
    <3>2. n \in Int /\ n <= stPosted
      BY <3>1, Numbered DEF IdsPast
    <3> QED BY <1>5, <2>1, <3>2
  <2> QED BY <2>2, <2>3, <2>4 DEF IdsPast, StIds
<1>10. Shown' /\ Once(stEvents)'
  <2>1. stAt'["rl"] # "dismissing"
    BY <1>3 DEF StThreads, Owning
  <2>2. ASSUME NEW n \in StIds(stFp), n \in StIds(stEvents') PROVE n \in stKnown
    <3>1. n \in Int /\ n <= stPosted /\ stPosted \in Int
      BY Numbered DEF IdsPast
    <3>2. n \in StIds(stEvents)
      BY <1>5, <2>2, <3>1
    <3> QED BY <3>2 DEF Shown
  <2>3. StIds(stFp') = StIds(stFp) /\ stKnown' = stKnown /\ StIds(stEvents)' = StIds(stEvents')
    BY <1>1 DEF StIds
  <2>4. Shown'
    BY <1>1, <2>1, <2>2, <2>3 DEF Shown
  <2> QED BY <1>5, <2>4 DEF Once
<1> QED BY <1>5, <1>6, <1>7, <1>8, <1>9, <1>10

\* The goal check, up to its last section, and its clearing of the others.
LEMMA ByGoalCheck ==
  ASSUME StInv, StGoalCheck
  PROVE  StInv'
<1> USE DEF StInv, Safe
<1> DEFINE t == "hb"
<1>1. /\ t \in StThreads /\ stAt[t] = "idle" /\ StGoto(t, "goal_clear")
      /\ stRef' = [stRef EXCEPT ![t] = stGoal] /\ stGoal \in Goals \cup {"none"}
      /\ UNCHANGED <<stEvents, stOwner, stBuf, stSkip, stFp, stKnown, stPosted, stGoal,
                     stMoves, stSnooze>>
  BY DEF StGoalCheck, goalVars, StThreads, StTypeOK
<1>2. /\ stAt'[t] = "goal_clear" /\ \A u \in StThreads \ {t} : stAt'[u] = stAt[u]
  BY <1>1, Went
<1>3. /\ stRef' \in [StThreads -> StRefs \cup {"none", "all"}]
      /\ stRef'[t] = stGoal /\ \A u \in StThreads \ {t} : stRef'[u] = stRef[u]
  BY <1>1 DEF StTypeOK, StRefs
<1> HIDE DEF t
<1>4. StTypeOK'
  <2>1. stAt' \in [StThreads -> {"idle", "enqueue", "append", "goal_clear",
                                 "goal_cleared", "goal_scan", "sync", "dismissing"}]
    BY <1>1, Went
  <2>2. \A u \in StThreads :
          stOwner' = u <=> stAt'[u] \in {"append", "goal_cleared", "dismissing"}
    BY <1>1, <1>2 DEF StTypeOK
  <2> QED BY <1>1, <1>3, <2>1, <2>2 DEF StTypeOK
<1>5. HasRead' /\ InPlace'
  BY <1>1, <1>2, <1>3 DEF HasRead, InPlace, Owning, t
<1>6. Absent' /\ IdsPast' /\ Shown' /\ Once(stEvents)'
  <2>1. \A u \in StThreads : stAt'[u] \in {"enqueue", "append", "dismissing"} =>
          u # t /\ stAt'[u] = stAt[u] /\ stRef'[u] = stRef[u]
    BY <1>2, <1>3
  <2>2. "rl" \in StThreads
    BY DEF StThreads
  <2> QED BY <1>1, <2>1, <2>2 DEF Absent, IdsPast, Shown, t
<1> QED BY <1>4, <1>5, <1>6

LEMMA ByGoalClearRead ==
  ASSUME StInv, StGoalClearRead
  PROVE  StInv'
<1> USE DEF StInv, Safe
<1> DEFINE t == "hb"
<1>1. /\ t \in StThreads /\ stAt[t] = "goal_clear" /\ StTake(t) /\ StRead(t)
      /\ StGoto(t, "goal_cleared") /\ "goal_cleared" \in Owning
      /\ UNCHANGED <<stEvents, stRef, stSkip, stFp, stKnown, stPosted, stGoal, stMoves,
                     stSnooze>>
  BY DEF StGoalClearRead, goalVars, StThreads, Owning
<1>2. /\ stAt'[t] = "goal_cleared" /\ \A u \in StThreads \ {t} : stAt'[u] = stAt[u]
      /\ \A u \in StThreads \ {t} : stAt'[u] \notin Owning
  BY <1>1, Went, Taken
<1>3. stBuf'[t] = stEvents /\ \A u \in StThreads \ {t} : stBuf'[u] = stBuf[u]
  BY <1>1, HasReadIn
<1> HIDE DEF t
<1>4. StTypeOK'
  <2>1. stAt' \in [StThreads -> {"idle", "enqueue", "append", "goal_clear",
                                 "goal_cleared", "goal_scan", "sync", "dismissing"}]
    BY <1>1, Went
  <2>2. stBuf' \in [StThreads -> Seq(StEvent)]
    BY <1>1, HasReadIn
  <2>3. /\ stOwner' \in StThreads \cup {"free"}
        /\ \A u \in StThreads :
             stOwner' = u <=> stAt'[u] \in {"append", "goal_cleared", "dismissing"}
    BY <1>1, Taken
  <2> QED BY <1>1, <2>1, <2>2, <2>3 DEF StTypeOK
<1>5. HasRead' /\ InPlace'
  BY <1>1, <1>2, <1>3 DEF HasRead, InPlace, t
<1>6. Absent' /\ Once(stEvents)'
  BY <1>1, <1>2 DEF Absent, t
<1>7. IdsPast' /\ Shown'
  <2>1. stAt'["rl"] = "dismissing" => stAt["rl"] = "dismissing"
    BY <1>2 DEF StThreads, t
  <2> QED BY <1>1, <1>3, <2>1 DEF IdsPast, Shown
<1> QED BY <1>4, <1>5, <1>6, <1>7

LEMMA ByGoalClearWrite ==
  ASSUME StInv, StGoalClearWrite
  PROVE  /\ StInv'
         /\ \A i \in DOMAIN stEvents :
              stEvents[i].id \in StIds(stEvents') \/ stEvents[i].ref \in Goals
<1> USE DEF StInv, Safe
<1> DEFINE t == "hb"
           refs == PostRefs \cup {stRef[t]}
<1>1. /\ t \in StThreads /\ stAt[t] = "goal_cleared" /\ stAt[t] \in Owning /\ StRelease
      /\ stEvents' = StUnder(stBuf[t], refs)
      /\ \/ stRef[t] = "none" /\ StReturn(t)
         \/ stRef[t] # "none" /\ StGoto(t, "goal_scan") /\ UNCHANGED <<stBuf, stRef, stSkip>>
      /\ UNCHANGED <<stFp, stKnown, stPosted, stGoal, stMoves, stSnooze>>
  BY DEF StGoalClearWrite, goalVars, StThreads, Owning, StGoalKept
<1>2. /\ stBuf[t] = stEvents /\ stRef[t] \in Goals \cup {"none"}
      /\ stEvents \in Seq(StEvent) /\ Len(stEvents) <= MaxEvents
  BY <1>1 DEF HasRead, InPlace, StTypeOK
<1>3. /\ stEvents' \in Seq(StEvent) /\ Len(stEvents') <= Len(stEvents)
      /\ StIds(stEvents') \subseteq StIds(stEvents)
      /\ \A r : StHasRef(stEvents', r) => StHasRef(stEvents, r)
      /\ Once(stEvents')
      /\ \A j \in DOMAIN stEvents : stEvents[j].ref \in refs => stEvents[j].id \in StIds(stEvents')
  <2> HIDE DEF refs
  <2> QED BY <1>1, <1>2, UnderKeeps
<1>4. /\ \A u \in StThreads \ {t} : /\ stAt'[u] = stAt[u] /\ stBuf'[u] = stBuf[u]
                                    /\ stRef'[u] = stRef[u] /\ stSkip'[u] = stSkip[u]
      /\ \/ stAt'[t] = "idle" /\ StIds(stBuf'[t]) = {}
         \/ stAt'[t] = "goal_scan" /\ stRef'[t] \in Goals /\ stBuf'[t] = stBuf[t]
      /\ stAt' \in [StThreads -> {"idle", "enqueue", "append", "goal_clear",
                                  "goal_cleared", "goal_scan", "sync", "dismissing"}]
      /\ stBuf' \in [StThreads -> Seq(StEvent)]
      /\ stRef' \in [StThreads -> StRefs \cup {"none", "all"}]
      /\ stSkip' \in [StThreads -> BOOLEAN]
  <2>1. CASE stRef[t] = "none" /\ StReturn(t)
    <3> HIDE DEF t
    <3> QED BY <1>1, <2>1, Returned
  <2>2. CASE stRef[t] # "none" /\ StGoto(t, "goal_scan") /\ UNCHANGED <<stBuf, stRef, stSkip>>
    <3> HIDE DEF t
    <3>1. /\ stAt' \in [StThreads -> {"idle", "enqueue", "append", "goal_clear",
                                      "goal_cleared", "goal_scan", "sync", "dismissing"}]
          /\ stAt'[t] = "goal_scan" /\ \A u \in StThreads \ {t} : stAt'[u] = stAt[u]
      BY <1>1, <2>2, Went
    <3> QED BY <1>2, <2>2, <3>1 DEF StTypeOK
  <2> QED BY <1>1, <2>1, <2>2
<1>5. /\ stOwner' \in StThreads \cup {"free"}
      /\ \A u \in StThreads : stAt'[u] \notin Owning
      /\ \A u \in StThreads :
           stOwner' = u <=> stAt'[u] \in {"append", "goal_cleared", "dismissing"}
  <2>1. stAt'[t] \notin Owning
    BY <1>4 DEF Owning
  <2> HIDE DEF t
  <2> QED BY <1>1, <1>4, <2>1, GivenBack
<1>6. \A i \in DOMAIN stEvents :
        stEvents[i].id \in StIds(stEvents') \/ stEvents[i].ref \in Goals
  <2>1. \A i \in DOMAIN stEvents : stEvents[i].ref \in PostRefs \cup Goals
    <3>1. \A i \in DOMAIN stEvents : stEvents[i] \in StEvent
      BY <1>2
    <3> QED BY <3>1 DEF StEvent, StRefs
  <2> QED BY <1>3, <2>1
<1> HIDE DEF t, refs
<1>7. StTypeOK'
  <2>1. Len(stEvents') <= MaxEvents
    BY <1>2, <1>3, StoreAssumption
  <2> QED BY <1>1, <1>3, <1>4, <1>5, <2>1 DEF StTypeOK
<1>8. HasRead' /\ InPlace' /\ Absent'
  BY <1>4, <1>5, <1>1 DEF HasRead, InPlace, Absent, Owning, t
<1>9. IdsPast'
  <2>1. \A u \in StThreads : StIds(stBuf'[u]) \subseteq StIds(stBuf[u])
    BY <1>4
  <2> QED BY <1>1, <1>3, <2>1 DEF IdsPast, StIds
<1>10. Shown' /\ Once(stEvents)'
  <2>1. stAt'["rl"] # "dismissing"
    BY <1>5 DEF StThreads, Owning
  <2> QED BY <1>1, <1>3, <2>1 DEF Shown, StIds, Once
<1> QED BY <1>6, <1>7, <1>8, <1>9, <1>10

LEMMA ByGoalScan ==
  ASSUME StInv, StGoalScan
  PROVE  StInv'
<1> USE DEF StInv, Safe
<1> DEFINE t == "hb"
<1>1. /\ t \in StThreads /\ stAt[t] = "goal_scan"
      /\ \/ StReturn(t)
         \/ /\ ~StHasRef(stEvents, stRef[t]) /\ StGoto(t, "enqueue")
            /\ UNCHANGED <<stBuf, stRef, stSkip>>
      /\ UNCHANGED <<stEvents, stOwner, stFp, stKnown, stPosted, stGoal, stMoves, stSnooze>>
  BY DEF StGoalScan, goalVars, StThreads
<1>2. stRef[t] \in Goals
  BY <1>1 DEF InPlace
<1>3. /\ \A u \in StThreads \ {t} : /\ stAt'[u] = stAt[u] /\ stBuf'[u] = stBuf[u]
                                    /\ stRef'[u] = stRef[u] /\ stSkip'[u] = stSkip[u]
      /\ \/ stAt'[t] = "idle" /\ StIds(stBuf'[t]) = {}
         \/ /\ stAt'[t] = "enqueue" /\ stRef'[t] \in Goals /\ stBuf'[t] = stBuf[t]
            /\ ~StHasRef(stEvents, stRef'[t])
      /\ stAt' \in [StThreads -> {"idle", "enqueue", "append", "goal_clear",
                                  "goal_cleared", "goal_scan", "sync", "dismissing"}]
      /\ stBuf' \in [StThreads -> Seq(StEvent)]
      /\ stRef' \in [StThreads -> StRefs \cup {"none", "all"}]
      /\ stSkip' \in [StThreads -> BOOLEAN]
  <2> HIDE DEF t
  <2>1. CASE StReturn(t)
    BY <1>1, <2>1, Returned
  <2>2. CASE /\ ~StHasRef(stEvents, stRef[t]) /\ StGoto(t, "enqueue")
             /\ UNCHANGED <<stBuf, stRef, stSkip>>
    <3>1. /\ stAt' \in [StThreads -> {"idle", "enqueue", "append", "goal_clear",
                                      "goal_cleared", "goal_scan", "sync", "dismissing"}]
          /\ stAt'[t] = "enqueue" /\ \A u \in StThreads \ {t} : stAt'[u] = stAt[u]
      BY <1>1, <2>2, Went
    <3> QED BY <1>2, <2>2, <3>1 DEF StTypeOK
  <2> QED BY <1>1, <2>1, <2>2
<1> HIDE DEF t
<1>4. StTypeOK'
  <2>1. \A u \in StThreads :
          stOwner' = u <=> stAt'[u] \in {"append", "goal_cleared", "dismissing"}
    BY <1>1, <1>3 DEF StTypeOK
  <2> QED BY <1>1, <1>3, <2>1 DEF StTypeOK
<1>5. HasRead' /\ InPlace' /\ Absent'
  BY <1>1, <1>3 DEF HasRead, InPlace, Absent, Owning, t
<1>6. IdsPast'
  <2>1. \A u \in StThreads : StIds(stBuf'[u]) \subseteq StIds(stBuf[u])
    BY <1>3
  <2> QED BY <1>1, <2>1 DEF IdsPast
<1>7. Shown' /\ Once(stEvents)'
  <2>1. stAt'["rl"] = "dismissing" => stAt["rl"] = "dismissing" /\ stSkip'["rl"] = stSkip["rl"]
    BY <1>3 DEF StThreads, t
  <2> QED BY <1>1, <2>1 DEF Shown
<1> QED BY <1>4, <1>5, <1>6, <1>7

\* What was shown: the two places that commit a fingerprint.
LEMMA Committed ==
  ASSUME StInv, NEW events \in Seq(StEvent), \A n \in StIds(events) : n <= stPosted,
         StCommitted(events)
  PROVE  /\ stFp' \in Seq(StEvent) /\ stKnown' \subseteq 1..MaxPosts
         /\ \A n \in StIds(stFp') : n <= stPosted
         /\ StIds(stFp') \cap StIds(stEvents) \subseteq stKnown'
         /\ StIds(stEvents) \subseteq stKnown => StIds(stEvents) \subseteq stKnown'
<1>1. StIds(stEvents) \subseteq 1..MaxPosts
  <2>1. \A i \in DOMAIN stEvents : stEvents[i] \in StEvent
    BY DEF StInv, StTypeOK
  <2>2. \A i \in DOMAIN stEvents : stEvents[i].id \in 1..MaxPosts
    BY <2>1 DEF StEvent
  <2> QED BY <2>2 DEF StIds
<1>2. stFp' = events /\ stKnown' = (stKnown \cup StIds(events)) \cap StIds(stEvents)
  BY DEF StCommitted
<1> QED BY <1>1, <1>2

LEMMA BySyncRead ==
  ASSUME StInv, StSyncRead
  PROVE  StInv'
<1> USE DEF StInv, Safe
<1> DEFINE t == "hb"
<1>1. /\ t \in StThreads /\ stAt[t] = "idle" /\ StRead(t) /\ StGoto(t, "sync")
      /\ UNCHANGED <<stEvents, stOwner, stRef, stSkip, stFp, stKnown, stPosted, stGoal,
                     stMoves, stSnooze>>
  BY DEF StSyncRead, goalVars, StThreads
<1>2. /\ stAt'[t] = "sync" /\ \A u \in StThreads \ {t} : stAt'[u] = stAt[u]
  BY <1>1, Went
<1>3. stBuf'[t] = stEvents /\ \A u \in StThreads \ {t} : stBuf'[u] = stBuf[u]
  BY <1>1, HasReadIn
<1> HIDE DEF t
<1>4. StTypeOK'
  <2>1. stAt' \in [StThreads -> {"idle", "enqueue", "append", "goal_clear",
                                 "goal_cleared", "goal_scan", "sync", "dismissing"}]
    BY <1>1, Went
  <2>2. stBuf' \in [StThreads -> Seq(StEvent)]
    BY <1>1, HasReadIn
  <2>3. \A u \in StThreads :
          stOwner' = u <=> stAt'[u] \in {"append", "goal_cleared", "dismissing"}
    BY <1>1, <1>2 DEF StTypeOK
  <2> QED BY <1>1, <2>1, <2>2, <2>3 DEF StTypeOK
<1>5. HasRead' /\ InPlace' /\ Absent'
  BY <1>1, <1>2, <1>3 DEF HasRead, InPlace, Absent, Owning, t
<1>6. IdsPast' /\ Shown' /\ Once(stEvents)'
  <2>1. stAt'["rl"] = "dismissing" => stAt["rl"] = "dismissing"
    BY <1>2 DEF StThreads, t
  <2> QED BY <1>1, <1>3, <2>1 DEF IdsPast, Shown
<1> QED BY <1>4, <1>5, <1>6

LEMMA BySyncCommit ==
  ASSUME StInv, StSyncCommit
  PROVE  StInv'
<1> USE DEF StInv, Safe
<1> DEFINE t == "hb"
<1>1. /\ t \in StThreads /\ stAt[t] = "sync" /\ StCommitted(stBuf[t]) /\ StReturn(t)
      /\ UNCHANGED <<stEvents, stOwner, stPosted, stGoal, stMoves, stSnooze>>
  BY DEF StSyncCommit, goalVars, StThreads
<1> HIDE DEF t
<1>2. /\ stAt'[t] = "idle" /\ StIds(stBuf'[t]) = {}
      /\ \A u \in StThreads \ {t} : /\ stAt'[u] = stAt[u] /\ stBuf'[u] = stBuf[u]
                                    /\ stRef'[u] = stRef[u] /\ stSkip'[u] = stSkip[u]
  BY <1>1, Returned
<1>3. /\ stFp' \in Seq(StEvent) /\ stKnown' \subseteq 1..MaxPosts
      /\ \A n \in StIds(stFp') : n <= stPosted
      /\ StIds(stFp') \cap StIds(stEvents) \subseteq stKnown'
      /\ StIds(stEvents) \subseteq stKnown => StIds(stEvents) \subseteq stKnown'
  <2>1. stBuf[t] \in Seq(StEvent) /\ \A n \in StIds(stBuf[t]) : n <= stPosted
    BY <1>1 DEF StTypeOK, IdsPast
  <2> QED BY <1>1, <2>1, Committed
<1>4. StTypeOK'
  <2>1. \A u \in StThreads :
          stOwner' = u <=> stAt'[u] \in {"append", "goal_cleared", "dismissing"}
    BY <1>1, <1>2 DEF StTypeOK
  <2>2. /\ stAt' \in [StThreads -> {"idle", "enqueue", "append", "goal_clear",
                                    "goal_cleared", "goal_scan", "sync", "dismissing"}]
        /\ stBuf' \in [StThreads -> Seq(StEvent)]
        /\ stRef' \in [StThreads -> StRefs \cup {"none", "all"}]
        /\ stSkip' \in [StThreads -> BOOLEAN]
    BY <1>1, Returned
  <2> QED BY <1>1, <1>3, <2>1, <2>2 DEF StTypeOK
<1>5. HasRead' /\ InPlace' /\ Absent'
  BY <1>1, <1>2 DEF HasRead, InPlace, Absent, Owning, t
<1>6. IdsPast'
  BY <1>1, <1>2, <1>3 DEF IdsPast, StIds
<1>7. Shown' /\ Once(stEvents)'
  <2>1. stAt'["rl"] = "dismissing" => stAt["rl"] = "dismissing" /\ stSkip'["rl"] = stSkip["rl"]
    BY <1>2 DEF StThreads, t
  <2> QED BY <1>1, <1>3, <2>1 DEF Shown, StIds
<1> QED BY <1>4, <1>5, <1>6, <1>7

LEMMA ByBatchCommit ==
  ASSUME StInv, StBatchCommit
  PROVE  StInv'
<1> USE DEF StInv, Safe
<1>1. /\ StCommitted(stEvents)
      /\ UNCHANGED <<stEvents, stOwner, stAt, stBuf, stRef, stSkip, stPosted, stGoal, stMoves,
                     stSnooze>>
  BY DEF StBatchCommit, goalVars
<1>2. /\ stFp' \in Seq(StEvent) /\ stKnown' \subseteq 1..MaxPosts
      /\ \A n \in StIds(stFp') : n <= stPosted
      /\ StIds(stFp') \cap StIds(stEvents) \subseteq stKnown'
      /\ StIds(stEvents) \subseteq stKnown => StIds(stEvents) \subseteq stKnown'
  <2>1. stEvents \in Seq(StEvent) /\ \A n \in StIds(stEvents) : n <= stPosted
    BY DEF StTypeOK, IdsPast
  <2> QED BY <1>1, <2>1, Committed
<1>3. StTypeOK'
  BY <1>1, <1>2 DEF StTypeOK
<1>4. HasRead' /\ InPlace' /\ Absent' /\ Once(stEvents)'
  BY <1>1 DEF HasRead, InPlace, Absent
<1>5. IdsPast' /\ Shown'
  BY <1>1, <1>2 DEF IdsPast, Shown, StIds
<1> QED BY <1>3, <1>4, <1>5

\* What is dismissed without force had been shown.
LEMMA ByDismissRead ==
  ASSUME StInv, StDismissRead
  PROVE  StInv'
<1> USE DEF StInv, Safe
<1> DEFINE t == "rl"
<1>1. /\ t \in StThreads /\ stAt[t] = "idle" /\ StTake(t) /\ StRead(t)
      /\ StGoto(t, "dismissing") /\ "dismissing" \in Owning
      /\ UNCHANGED <<stEvents, stFp, stKnown, stPosted, stGoal, stMoves, stSnooze>>
  BY DEF StDismissRead, goalVars, StThreads, Owning
<1>2. /\ stAt'[t] = "dismissing" /\ \A u \in StThreads \ {t} : stAt'[u] = stAt[u]
      /\ \A u \in StThreads \ {t} : stAt'[u] \notin Owning
  BY <1>1, Went, Taken
<1>3. stBuf'[t] = stEvents /\ \A u \in StThreads \ {t} : stBuf'[u] = stBuf[u]
  BY <1>1, HasReadIn
<1>4. PICK r \in StRefs \cup {"all"}, force \in BOOLEAN :
        /\ force \/ ~StStale(stEvents, stFp)
        /\ stRef' = [stRef EXCEPT ![t] = r]
        /\ stSkip' = [stSkip EXCEPT ![t] = force]
  BY DEF StDismissRead
<1>5. /\ stRef' \in [StThreads -> StRefs \cup {"none", "all"}]
      /\ stSkip' \in [StThreads -> BOOLEAN] /\ stSkip'[t] = force
      /\ \A u \in StThreads \ {t} : stRef'[u] = stRef[u]
  BY <1>1, <1>4 DEF StTypeOK
<1>6. ~stSkip'[t] => StIds(stEvents) \subseteq stKnown
  <2>1. CASE stEvents = <<>>
    BY <2>1 DEF StIds
  <2>2. CASE stFp = stEvents
    BY <2>2 DEF Shown
  <2> QED BY <1>4, <1>5, <2>1, <2>2 DEF StStale
<1> HIDE DEF t
<1>7. StTypeOK'
  <2>1. stAt' \in [StThreads -> {"idle", "enqueue", "append", "goal_clear",
                                 "goal_cleared", "goal_scan", "sync", "dismissing"}]
    BY <1>1, Went
  <2>2. stBuf' \in [StThreads -> Seq(StEvent)]
    BY <1>1, HasReadIn
  <2>3. /\ stOwner' \in StThreads \cup {"free"}
        /\ \A u \in StThreads :
             stOwner' = u <=> stAt'[u] \in {"append", "goal_cleared", "dismissing"}
    BY <1>1, Taken
  <2> QED BY <1>1, <1>5, <2>1, <2>2, <2>3 DEF StTypeOK
<1>8. "hb" \in StThreads /\ "hb" # t
  BY DEF StThreads, t
<1>9. HasRead' /\ InPlace'
  BY <1>1, <1>2, <1>3, <1>5, <1>8 DEF HasRead, InPlace, t
<1>10. Absent' /\ IdsPast' /\ Shown' /\ Once(stEvents)'
  BY <1>1, <1>2, <1>3, <1>5, <1>6, <1>8 DEF Absent, IdsPast, Shown, t
<1> QED BY <1>7, <1>9, <1>10

LEMMA ByDismissWrite ==
  ASSUME StInv, StDismissWrite
  PROVE  /\ StInv'
         /\ \A i \in DOMAIN stEvents :
              \/ stEvents[i].id \in stKnown
              \/ stAt["rl"] = "dismissing" /\ stSkip["rl"]
<1> USE DEF StInv, Safe
<1> DEFINE t == "rl"
           refs == StRefs \ StMatches(stRef[t])
<1>1. /\ t \in StThreads /\ stAt[t] = "dismissing" /\ stAt[t] \in Owning /\ StRelease
      /\ stEvents' = StUnder(stBuf[t], refs) /\ StReturn(t)
      /\ UNCHANGED <<stFp, stKnown, stPosted, stGoal, stMoves>>
  BY DEF StDismissWrite, goalVars, StThreads, Owning
<1>2. stSnooze' \in BOOLEAN
  BY DEF StDismissWrite, StTypeOK
<1>3. stBuf[t] = stEvents /\ stEvents \in Seq(StEvent) /\ Len(stEvents) <= MaxEvents
  BY <1>1 DEF HasRead, StTypeOK
<1>4. /\ stEvents' \in Seq(StEvent) /\ Len(stEvents') <= Len(stEvents)
      /\ StIds(stEvents') \subseteq StIds(stEvents)
      /\ \A r : StHasRef(stEvents', r) => StHasRef(stEvents, r)
      /\ Once(stEvents')
  <2> HIDE DEF refs
  <2> QED BY <1>1, <1>3, UnderKeeps
<1>5. \A i \in DOMAIN stEvents :
        stEvents[i].id \in stKnown \/ (stAt["rl"] = "dismissing" /\ stSkip["rl"])
  BY <1>1 DEF Shown, StIds, StTypeOK
<1> HIDE DEF t, refs
<1>6. /\ stAt'[t] = "idle" /\ StIds(stBuf'[t]) = {}
      /\ \A u \in StThreads \ {t} : /\ stAt'[u] = stAt[u] /\ stBuf'[u] = stBuf[u]
                                    /\ stRef'[u] = stRef[u] /\ stSkip'[u] = stSkip[u]
  BY <1>1, Returned
<1>7. /\ stOwner' \in StThreads \cup {"free"}
      /\ \A u \in StThreads : stAt'[u] \notin Owning
      /\ \A u \in StThreads :
           stOwner' = u <=> stAt'[u] \in {"append", "goal_cleared", "dismissing"}
  BY <1>1, <1>6, GivenBack DEF Owning
<1>8. StTypeOK'
  <2>1. Len(stEvents') <= MaxEvents
    BY <1>3, <1>4, StoreAssumption
  <2> QED BY <1>1, <1>2, <1>4, <1>7, <2>1, Returned DEF StTypeOK
<1>9. "hb" \in StThreads /\ "hb" # t /\ stAt'["rl"] # "dismissing"
  BY <1>6 DEF StThreads, t
<1>10. HasRead' /\ InPlace' /\ Absent'
  BY <1>4, <1>6, <1>7, <1>9 DEF HasRead, InPlace, Absent, Owning
<1>11. IdsPast'
  <2>1. \A u \in StThreads : StIds(stBuf'[u]) \subseteq StIds(stBuf[u])
    BY <1>6
  <2> QED BY <1>1, <1>4, <2>1 DEF IdsPast, StIds
<1>12. Shown' /\ Once(stEvents)'
  BY <1>1, <1>4, <1>9 DEF Shown, StIds, Once
<1> QED BY <1>5, <1>8, <1>10, <1>11, <1>12

LEMMA ByOthers ==
  ASSUME StInv, StSetGoal \/ StSnoozeOver \/ UNCHANGED stVars
  PROVE  StInv' /\ UNCHANGED stEvents
<1> USE DEF StInv, Safe
<1>1. UNCHANGED <<stEvents, stOwner, stAt, stBuf, stRef, stSkip, stFp, stKnown, stPosted>>
  BY DEF StSetGoal, StSnoozeOver, stVars
<1>2. /\ stGoal' \in Goals \cup {"none"} /\ stMoves' \in 0..MaxGoalMoves
      /\ stSnooze' \in BOOLEAN
  <2>1. CASE StSetGoal
    <3>1. stMoves' \in 0..MaxGoalMoves
      BY <2>1, StoreAssumption DEF StSetGoal, StTypeOK
    <3> QED BY <2>1, <3>1 DEF StSetGoal, StTypeOK
  <2>2. CASE StSnoozeOver
    BY <2>2 DEF StSnoozeOver, StTypeOK, goalVars
  <2>3. CASE UNCHANGED stVars
    BY <2>3 DEF stVars, StTypeOK
  <2> QED BY <2>1, <2>2, <2>3
<1>3. StTypeOK'
  BY <1>1, <1>2 DEF StTypeOK
<1>4. HasRead' /\ InPlace' /\ Absent' /\ IdsPast' /\ Shown' /\ Once(stEvents)'
  BY <1>1 DEF HasRead, InPlace, Absent, IdsPast, Shown
<1> QED BY <1>1, <1>3, <1>4

\* One step: the invariant again, and who may take an event out of the file.
LEMMA StStep ==
  ASSUME StInv, [StNext]_stVars
  PROVE  /\ StInv'
         /\ \A i \in DOMAIN stEvents :
              stEvents[i].id \notin StIds(stEvents') =>
                \/ stEvents[i].id \in stKnown
                \/ stAt["rl"] = "dismissing" /\ stSkip["rl"]
                \/ stAt["hb"] = "goal_cleared" /\ stEvents[i].ref \in Goals
                \/ Len(stEvents) = MaxEvents /\ i = 1 /\ stPosted' = stPosted + 1
<1>0. UNCHANGED stEvents => \A i \in DOMAIN stEvents : stEvents[i].id \in StIds(stEvents')
  BY DEF StIds
<1>1. CASE \E t \in StThreads : StEnqueueRead(t)
  BY <1>0, <1>1, ByEnqueueRead DEF StEnqueueRead
<1>2. CASE \E t \in StThreads : StAppend(t)
  BY <1>2, ByAppend
<1>3. CASE StGoalCheck
  BY <1>0, <1>3, ByGoalCheck DEF StGoalCheck
<1>4. CASE StGoalClearRead
  BY <1>0, <1>4, ByGoalClearRead DEF StGoalClearRead
<1>5. CASE StGoalClearWrite
  BY <1>5, ByGoalClearWrite DEF StGoalClearWrite
<1>6. CASE StGoalScan
  BY <1>0, <1>6, ByGoalScan DEF StGoalScan
<1>7. CASE StSyncRead
  BY <1>0, <1>7, BySyncRead DEF StSyncRead
<1>8. CASE StSyncCommit
  BY <1>0, <1>8, BySyncCommit DEF StSyncCommit
<1>9. CASE StBatchCommit
  BY <1>0, <1>9, ByBatchCommit DEF StBatchCommit
<1>10. CASE StDismissRead
  BY <1>0, <1>10, ByDismissRead DEF StDismissRead
<1>11. CASE StDismissWrite
  BY <1>11, ByDismissWrite
<1>12. CASE StSetGoal \/ StSnoozeOver \/ UNCHANGED stVars
  BY <1>0, <1>12, ByOthers
<1> QED BY <1>1, <1>2, <1>3, <1>4, <1>5, <1>6, <1>7, <1>8, <1>9, <1>10, <1>11, <1>12
        DEF StNext, StHeartbeat, StRunLoop

\* The lock has one holder at most, who is in the middle of a rewrite, and the
\* file never holds more than the twenty events it is capped at.
THEOREM StoreTyped == StSpec => []StTypeOK
<1>1. StInit => StInv
  BY StStart
<1>2. StInv /\ [StNext]_stVars => StInv'
  BY StStep
<1>3. StInv => StTypeOK
  BY DEF StInv
<1> QED BY <1>1, <1>2, <1>3, PTL DEF StSpec

\* No goal is reminded of twice, whichever threads add events between the scan
\* and the section that adds the reminder (nudge/goal.py:check).
THEOREM RemindedOnce == StSpec => []OneReminder
<1>1. StInit => StInv
  BY StStart
<1>2. StInv /\ [StNext]_stVars => StInv'
  BY StStep
<1>3. StInv => OneReminder
  <2> SUFFICES ASSUME StInv, NEW g \in Goals
               PROVE  Cardinality({i \in DOMAIN stEvents : stEvents[i].ref = g}) <= 1
    BY DEF OneReminder
  <2> DEFINE R == {i \in DOMAIN stEvents : stEvents[i].ref = g}
  <2>1. \A i, j \in R : i = j
    BY DEF StInv, Safe, Once
  <2>2. CASE R = {}
    BY <2>2, FS_EmptySet
  <2>3. CASE R # {}
    <3>1. PICK i \in R : R = {i}
      BY <2>1, <2>3
    <3> QED BY <3>1, FS_Singleton
  <2> QED BY <2>2, <2>3
<1> QED BY <1>1, <1>2, <1>3, PTL DEF StSpec

\* Nothing that was not shown leaves the file, except by force, with the goal it
\* reminds of, or pushed out by the newest.
THEOREM UnreadIsKept == StSpec => UnreadKept
<1>1. StInit => StInv
  BY StStart
<1>2. StInv /\ [StNext]_stVars => StInv'
  BY StStep
<1>3. StInv /\ [StNext]_stVars =>
        [LET lost == {i \in DOMAIN stEvents : stEvents[i].id \notin StIds(stEvents')}
         IN \A i \in lost :
              \/ stEvents[i].id \in stKnown
              \/ stAt["rl"] = "dismissing" /\ stSkip["rl"]
              \/ stAt["hb"] = "goal_cleared" /\ stEvents[i].ref \in Goals
              \/ Len(stEvents) = MaxEvents /\ i = 1 /\ stPosted' = stPosted + 1]_stVars
  BY StStep
<1> QED BY <1>1, <1>2, <1>3, PTL DEF StSpec, UnreadKept

----------------------------------------------------------------------------
(* The two together                                                        *)

\* Every value of the store and of the jobs is of its type, as a behaviour of both
\* is one of each.
THEOREM ServicesTyped == Spec => []TypeOK
<1>1. Init => StInit /\ BjInit
  BY DEF Init
<1>2. [Next]_vars => [StNext]_stVars
  BY DEF Next, vars, Store, Bash
<1>3. [Next]_vars => [BjNext]_bjVars
  BY DEF Next, vars, Store, Bash
<1>4. StTypeOK /\ BjTypeOK => TypeOK
  BY DEF TypeOK
<1> QED
  BY <1>1, <1>2, <1>3, <1>4, StoreTyped, JobsTyped, PTL DEF Spec, StSpec, BjSpec
=============================================================================
