------------------------------ MODULE Relaunch ------------------------------
(***************************************************************************)
(* The processes of one agent directory: how one is launched, the guard    *)
(* that looks for another in ps (cli._check_duplicate_process), the lock   *)
(* file (WorkingDir), the heartbeat file, the orderly stop (_stop), the    *)
(* offline rebuild of the log index under the same lock, and the watcher   *)
(* that a refresh leaves behind to launch the next process                 *)
(* (_perform_refresh).                                                     *)
(***************************************************************************)
EXTENDS Integers, FiniteSets

CONSTANTS
  RlProcs,     \* processes there may ever be
  RlRebuilds,  \* those that are a "log rebuild" command
  RlTries,     \* MAX_ATTEMPTS of the watcher
  RlFaults     \* bound: kills, failed boots, failed calls of ps and of Popen

Agents == RlProcs \ RlRebuilds

ASSUME RelaunchAssumption ==
  /\ RlProcs \in SUBSET (Nat \ {0}) /\ IsFiniteSet(RlProcs) /\ RlRebuilds \subseteq RlProcs
  /\ RlTries \in Nat \ {0} /\ RlFaults \in Nat
  /\ Cardinality(Agents) > RlTries  \* the first, and a process for each try

Inodes == 1..(Cardinality(RlProcs) + 1)

VARIABLES
  rlAt,        \* where each process is
  rlFd,        \* the inode a process has open as its lock file, or 0
  rlLock,      \* who holds the flock of each inode, or 0
  rlPath,      \* the inode .agent.lock names, or 0
  rlBeat,      \* .agent.heartbeat: none, fresh or stale
  rlTaken,     \* .refresh.taken is there
  rlWatch,     \* where the watcher is
  rlTry,       \* its attempt
  rlChild,     \* the process it launched last, or 0
  rlDup,       \* the first pid its log names as "already running", or 0
  rlTarget,    \* the duplicate it is terminating, or 0
  rlOut,       \* how it ended
  rlFaults     \* faults so far

rlVars == <<rlAt, rlFd, rlLock, rlPath, rlBeat, rlTaken, rlWatch, rlTry, rlChild,
            rlDup, rlTarget, rlOut, rlFaults>>
rlFiles == <<rlFd, rlLock, rlPath>>
rlWatcher == <<rlWatch, rlTry, rlChild, rlDup, rlTarget, rlOut>>

\* One agent is running; nothing else has been launched.
RlInit ==
  \E p \in Agents :
    /\ rlAt = [q \in RlProcs |-> IF q = p THEN "running" ELSE "none"]
    /\ rlFd = [q \in RlProcs |-> IF q = p THEN 1 ELSE 0]
    /\ rlLock = [i \in Inodes |-> IF i = 1 THEN p ELSE 0]
    /\ rlPath = 1 /\ rlBeat = "fresh" /\ rlTaken = FALSE
    /\ rlWatch = "none" /\ rlTry = 0 /\ rlChild = 0 /\ rlDup = 0 /\ rlTarget = 0 /\ rlOut = "none"
    /\ rlFaults = 0

Alive == {p \in RlProcs : rlAt[p] \notin {"none", "gone"}}
Go(p, at) == rlAt' = [rlAt EXCEPT ![p] = at]

\* The kernel closes a dead process's files: its flock goes, the paths stay.
Closed(p) ==
  /\ rlFd' = [rlFd EXCEPT ![p] = 0]
  /\ rlLock' = [i \in Inodes |-> IF rlLock[i] = p THEN 0 ELSE rlLock[i]]
Dies(p) == Go(p, "gone") /\ Closed(p) /\ UNCHANGED rlPath

----------------------------------------------------------------------------
(* Boot (cli.run, build_agent, WorkingDir.acquire_lock, _start)            *)

\* Fresh processes are interchangeable.
Unused(kind) == {p \in kind : rlAt[p] = "none"}
Next1(kind) == CHOOSE p \in Unused(kind) : \A q \in Unused(kind) : p <= q

\* A person, an avatar's parent or _cpr_agent launches an agent, as long as there
\* is a process left for each try of the watcher (a bound); or log rebuild is run.
RlLaunch ==
  /\ \/ /\ Cardinality(Unused(Agents)) > RlTries - rlTry
        /\ Go(Next1(Agents), "checking")
     \/ Unused(RlRebuilds) # {} /\ Go(Next1(RlRebuilds), "waiting")
  /\ UNCHANGED <<rlFiles, rlBeat, rlTaken, rlWatcher, rlFaults>>

\* Bug: no look at ps before the boot.
UnseenDuplicates(p) == {}

\* _check_duplicate_process, match_agent_run
Duplicates(p) == {q \in Alive \cap Agents : q # p}

\* ps shows nobody, does not answer, or shows another, whose pid goes to stderr:
\* the watcher keeps its child's, and reads the first of them.
RlCheck(p) ==
  /\ rlAt[p] = "checking"
  /\ \/ /\ Duplicates(p) = {}
        /\ Go(p, "waiting") /\ UNCHANGED <<rlDup, rlFaults>>
     \/ /\ Duplicates(p) # {} /\ rlFaults < RlFaults
        /\ Go(p, "waiting") /\ rlFaults' = rlFaults + 1 /\ UNCHANGED rlDup
     \/ /\ \E q \in Duplicates(p) :
             /\ Go(p, "gone")
             /\ rlDup' = IF p = rlChild /\ rlDup = 0 THEN q ELSE rlDup
        /\ UNCHANGED rlFaults
  /\ UNCHANGED <<rlFiles, rlBeat, rlTaken, rlWatch, rlTry, rlChild, rlTarget, rlOut>>

\* A process that is there is not seen: ps did not answer.
RlBlind == \E p \in RlProcs :
             rlAt[p] = "checking" /\ rlAt'[p] = "waiting" /\ Duplicates(p) # {}

\* open(lock_path, "w"): the file that is there, or a new one.
RlOpen(p) ==
  /\ rlAt[p] = "waiting"
  /\ LET new == CHOOSE i \in Inodes : i # rlPath /\ \A q \in RlProcs : rlFd[q] # i
         inode == IF rlPath = 0 THEN new ELSE rlPath
     IN rlFd' = [rlFd EXCEPT ![p] = inode] /\ rlPath' = inode
  /\ Go(p, "opened")
  /\ UNCHANGED <<rlLock, rlBeat, rlTaken, rlWatcher, rlFaults>>

\* flock: taken; or held by another, and the file is closed and opened again
\* until the deadline (at once for a rebuild).
RlFlock(p) ==
  /\ rlAt[p] = "opened"
  /\ \/ /\ rlLock[rlFd[p]] = 0
        /\ rlLock' = [rlLock EXCEPT ![rlFd[p]] = p]
        /\ Go(p, IF p \in RlRebuilds THEN "quiet" ELSE "locked")
        /\ UNCHANGED rlFd
     \/ /\ rlLock[rlFd[p]] # 0
        /\ \/ p \in Agents /\ Go(p, "waiting")
           \/ Go(p, "gone")
        /\ rlFd' = [rlFd EXCEPT ![p] = 0] /\ UNCHANGED rlLock
  /\ UNCHANGED <<rlPath, rlBeat, rlTaken, rlWatcher, rlFaults>>

\* _start: the heartbeat goes out before anything is restored.
RlStart(p) ==
  /\ rlAt[p] = "locked"
  /\ Go(p, "running") /\ rlBeat' = "fresh" /\ rlTaken' = FALSE
  /\ UNCHANGED <<rlFiles, rlWatcher, rlFaults>>

----------------------------------------------------------------------------
(* Running, stopping, dying                                                *)

Beating == {p \in RlProcs : rlAt[p] \in {"running", "stopping"}}

\* A minute without a beat: nobody is left to write one, or the process that
\* should is held up.
RlAge ==
  /\ rlBeat = "fresh" /\ rlBeat' = "stale"
  /\ \/ Beating = {} /\ UNCHANGED rlFaults
     \/ Beating # {} /\ rlFaults < RlFaults /\ rlFaults' = rlFaults + 1
  /\ UNCHANGED <<rlAt, rlFiles, rlTaken, rlWatcher>>

\* _write_heartbeat_tick
RlBeat(p) ==
  /\ p \in Beating /\ rlBeat = "stale" /\ rlBeat' = "fresh"
  /\ UNCHANGED <<rlAt, rlFiles, rlTaken, rlWatcher, rlFaults>>

\* A suspend, a signal: _shutdown is set and _stop begins.
RlStop(p) ==
  /\ rlAt[p] = "running" /\ Go(p, "stopping")
  /\ UNCHANGED <<rlFiles, rlBeat, rlTaken, rlWatcher, rlFaults>>

\* Bug: the heartbeat file is left behind.
LeavesHeartbeat(p) ==
  /\ rlAt[p] = "stopping" /\ Go(p, "quiet")
  /\ UNCHANGED <<rlBeat, rlFiles, rlTaken, rlWatcher, rlFaults>>

\* _stop_heartbeat, the last thing before the lock.
RlStopHeartbeat(p) ==
  /\ rlAt[p] = "stopping" /\ Go(p, "quiet") /\ rlBeat' = "none"
  /\ UNCHANGED <<rlFiles, rlTaken, rlWatcher, rlFaults>>

\* release_lock, in two steps: the lock, then the name.
RlUnlock(p) ==
  /\ rlAt[p] = "quiet"
  /\ Closed(p) /\ Go(p, "unlocked")
  /\ UNCHANGED <<rlPath, rlBeat, rlTaken, rlWatcher, rlFaults>>

RlUnlink(p) ==
  /\ rlAt[p] = "unlocked"
  /\ rlPath' = 0 /\ Go(p, "lingering")
  /\ UNCHANGED <<rlFd, rlLock, rlBeat, rlTaken, rlWatcher, rlFaults>>

\* The interpreter goes once its last thread is done.
RlExit(p) ==
  /\ rlAt[p] = "lingering" /\ Go(p, "gone")
  /\ UNCHANGED <<rlFiles, rlBeat, rlTaken, rlWatcher, rlFaults>>

\* A kill, an error out of _stop, a boot that fails: no file is put away.
RlCrash(p) ==
  /\ p \in Alive /\ rlFaults < RlFaults
  /\ Dies(p) /\ rlFaults' = rlFaults + 1
  /\ UNCHANGED <<rlBeat, rlTaken, rlWatcher>>

----------------------------------------------------------------------------
(* Refresh (_perform_refresh and its watcher)                              *)

Ends(out) == rlWatch' = "over" /\ rlOut' = out

\* The ack is on disk before the watcher is spawned; then the shutdown.
RlRefresh(p) ==
  /\ rlAt[p] = "running" /\ rlWatch = "none"
  /\ rlTaken' = TRUE /\ rlWatch' = "ack" /\ Go(p, "stopping")
  /\ UNCHANGED <<rlFiles, rlBeat, rlTry, rlChild, rlDup, rlTarget, rlOut, rlFaults>>

\* Phase 1, phase 2: a file polled for, with a deadline that only leaves a log.
RlAwaitAck ==
  /\ rlWatch = "ack"
  /\ IF rlTaken THEN rlWatch' = "lock" /\ UNCHANGED rlOut ELSE Ends("ack_timeout")
  /\ UNCHANGED <<rlAt, rlFiles, rlBeat, rlTaken, rlTry, rlChild, rlDup, rlTarget, rlFaults>>

RlAwaitLock ==
  /\ rlWatch = "lock"
  /\ IF rlPath = 0 THEN rlWatch' = "launch" /\ UNCHANGED rlOut ELSE Ends("lock_timeout")
  /\ UNCHANGED <<rlAt, rlFiles, rlBeat, rlTaken, rlTry, rlChild, rlDup, rlTarget, rlFaults>>

\* Phase 3: the attempts, and the alert when there are no more. A Popen that
\* fails is an attempt without a child.
RlAttempt ==
  /\ rlWatch = "launch"
  /\ \/ /\ rlTry = RlTries
        /\ Ends("alert") /\ UNCHANGED <<rlAt, rlTry, rlChild, rlFaults>>
     \/ /\ rlTry < RlTries /\ rlBeat = "fresh"
        /\ Ends("alive") /\ UNCHANGED <<rlAt, rlTry, rlChild, rlFaults>>
     \/ /\ rlTry < RlTries /\ rlBeat # "fresh"
        /\ rlTry' = rlTry + 1 /\ UNCHANGED rlOut
        /\ \/ /\ Go(Next1(Agents), "checking") /\ rlChild' = Next1(Agents)
              /\ rlWatch' = "health" /\ UNCHANGED rlFaults
           \/ /\ rlFaults < RlFaults /\ rlFaults' = rlFaults + 1
              /\ UNCHANGED <<rlAt, rlChild, rlWatch>>
  /\ UNCHANGED <<rlFiles, rlBeat, rlTaken, rlDup, rlTarget>>

\* Ten seconds on: a fresh heartbeat is success, whoever beats. Otherwise the
\* duplicate the log names is looked at, and terminated if it is still there.
RlHealth ==
  /\ rlWatch = "health"
  /\ \/ /\ rlBeat = "fresh"
        /\ Ends("success") /\ UNCHANGED <<rlAt, rlFiles, rlTarget>>
     \/ /\ rlBeat # "fresh" /\ rlDup \notin Alive
        /\ rlWatch' = "launch" /\ UNCHANGED <<rlAt, rlFiles, rlTarget, rlOut>>
     \/ /\ rlBeat # "fresh" /\ rlDup \in Alive
        /\ rlTarget' = rlDup /\ rlWatch' = "terminate" /\ UNCHANGED rlOut
        /\ \/ /\ rlAt[rlDup] = "running"
              /\ Go(rlDup, "stopping") /\ UNCHANGED rlFiles
           \/ /\ rlAt[rlDup] \in {"stopping", "quiet", "unlocked", "lingering"}
              /\ UNCHANGED <<rlAt, rlFiles>>
           \/ /\ rlAt[rlDup] \in {"checking", "waiting", "opened", "locked"}
              /\ Dies(rlDup)
  /\ UNCHANGED <<rlBeat, rlTaken, rlTry, rlChild, rlDup, rlFaults>>

\* Five seconds on: it is gone, or it is killed.
RlTerminate ==
  /\ rlWatch = "terminate"
  /\ IF rlTarget \in Alive THEN Dies(rlTarget) ELSE UNCHANGED <<rlAt, rlFiles>>
  /\ rlTarget' = 0 /\ rlWatch' = "launch"
  /\ UNCHANGED <<rlBeat, rlTaken, rlTry, rlChild, rlDup, rlOut, rlFaults>>

----------------------------------------------------------------------------
RlWatches == RlAwaitAck \/ RlAwaitLock \/ RlAttempt \/ RlHealth \/ RlTerminate
RlProceeds(p) ==
  RlCheck(p) \/ RlOpen(p) \/ RlFlock(p) \/ RlStart(p) \/ RlBeat(p) \/ RlStopHeartbeat(p)
  \/ RlUnlock(p) \/ RlUnlink(p)
RlNext ==
  \/ RlWatches \/ RlAge \/ RlLaunch
  \/ \E p \in RlProcs :
       RlProceeds(p) \/ RlStop(p) \/ RlExit(p) \/ RlCrash(p) \/ RlRefresh(p)
RlSpec == RlInit /\ [][RlNext]_rlVars

\* The watcher and every process go on; a beat that stopped grows old. A process
\* that has stopped may linger for ever, held by a thread.
RlFairness ==
  WF_rlVars(RlWatches) /\ WF_rlVars(RlAge /\ UNCHANGED rlFaults) /\ \A p \in RlProcs : WF_rlVars(RlProceeds(p))

----------------------------------------------------------------------------
RlTypeOK ==
  /\ rlAt \in [RlProcs -> {"none", "checking", "waiting", "opened", "locked", "running",
                           "stopping", "quiet", "unlocked", "lingering", "gone"}]
  /\ rlFd \in [RlProcs -> Inodes \cup {0}] /\ rlLock \in [Inodes -> RlProcs \cup {0}]
  /\ rlPath \in Inodes \cup {0} /\ rlBeat \in {"none", "fresh", "stale"}
  /\ rlTaken \in BOOLEAN
  /\ rlWatch \in {"none", "ack", "lock", "launch", "health", "terminate", "over"}
  /\ rlTry \in 0..RlTries /\ {rlChild, rlDup, rlTarget} \subseteq RlProcs \cup {0}
  /\ rlOut \in {"none", "ack_timeout", "lock_timeout", "alive", "success", "alert"}
  /\ rlFaults \in 0..RlFaults

Owners == {p \in RlProcs : rlAt[p] \in {"locked", "running", "stopping", "quiet"}}

\* Two agents never work in one directory, whatever is launched, stopped and
\* refreshed at once (_check_duplicate_process, acquire_lock).  Of the two guards one
\* is enough: every launch sees the processes before it, or at most one step fails
\* and no index is rebuilt.  With neither, a process that takes the lock between
\* another's unlock and unlink is left without a name, and the next makes a new file.
OneAgent == Cardinality(Owners \cap Agents) <= 1

\* When nothing failed until the lock was free, the watcher of a refresh gets an
\* agent running or publishes that it could not, whatever fails from then on
\* (_perform_refresh, _publish_refresh_failed_permanent).
AgentComesBack ==
  rlWatch = "launch" /\ rlTry = 0 /\ rlFaults = 0
    ~> (\E p \in Agents : rlAt[p] = "running") \/ rlOut = "alert"

\* The lock alone: "sqlite log rebuild requires the agent to be stopped/offline"
\* (services/logging.py:869), which the rebuild takes the lock for.
LockExcludes == Cardinality(Owners) <= 1
=============================================================================
