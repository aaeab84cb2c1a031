------------------------------ MODULE BashJobs ------------------------------
(***************************************************************************)
(* Asynchronous jobs of the bash capability (lingtai/core/bash): a process *)
(* in its own session, a directory with its output, a watcher thread that  *)
(* announces the end in `.notification/bash.json`, and the poll and cancel *)
(* calls of the run loop.  All watchers write through the one temporary    *)
(* file bash.json.tmp, so files are modelled with their inodes.            *)
(***************************************************************************)
EXTENDS Integers, Sequences, FiniteSets

CONSTANTS
  Jobs,        \* jobs the agent may start; also the inodes of what they write
  Stubborn,    \* jobs that ignore SIGTERM
  MaxRestarts  \* bound: restarts of the agent process

ASSUME JobsAssumption == /\ Stubborn \subseteq Jobs
                         /\ Jobs \cap {"none", "empty", "mixed"} = {}
                         /\ MaxRestarts \in Nat

VARIABLES
  bjProc,      \* per job: the process, "zombie" until somebody waits for it
  bjDir,       \* jobs that have a directory under system/jobs
  bjHandle,    \* jobs in self._open_handles
  bjWatcher,   \* per job: where its watcher thread is
  bjFd,        \* per job: the inode its watcher has open
  bjTmp,       \* inode of bash.json.tmp, "none" when absent
  bjFile,      \* inode of bash.json
  bjContent,   \* per inode: "empty", whose announcement, or "mixed" bytes
  bjCancel,    \* job whose cancel has sent SIGTERM and waits, or "none"
  bjAnswer,    \* per job: what a poll or a cancel told the agent at last
  bjShown,     \* jobs whose end some notification pass read
  bjRestarts

bjVars == <<bjProc, bjDir, bjHandle, bjWatcher, bjFd, bjTmp, bjFile,
            bjContent, bjCancel, bjAnswer, bjShown, bjRestarts>>
announceVars == <<bjWatcher, bjFd, bjTmp, bjFile, bjContent>>

BjInit ==
  /\ bjProc = [j \in Jobs |-> "none"]
  /\ bjDir = {} /\ bjHandle = {}
  /\ bjWatcher = [j \in Jobs |-> "none"]
  /\ bjFd = [j \in Jobs |-> "none"]
  /\ bjTmp = "none" /\ bjFile = "none"
  /\ bjContent = [j \in Jobs |-> "empty"]
  /\ bjCancel = "none"
  /\ bjAnswer = [j \in Jobs |-> "none"]
  /\ bjShown = {} /\ bjRestarts = 0

BjSet(f, j, v) == [f EXCEPT ![j] = v]

\* _run_async: directory, process, handles, watcher thread.
BjStart(j) ==
  /\ bjCancel = "none" /\ bjProc[j] = "none" /\ bjAnswer[j] = "none"
  /\ bjProc' = BjSet(bjProc, j, "running")
  /\ bjDir' = bjDir \cup {j}
  /\ bjHandle' = bjHandle \cup {j}
  /\ bjWatcher' = BjSet(bjWatcher, j, "wait")
  /\ UNCHANGED <<bjFd, bjTmp, bjFile, bjContent, bjCancel, bjAnswer, bjShown,
                 bjRestarts>>

\* Popen raised: the directory is removed again, the call returns an error.
BjStartFails(j) ==
  /\ bjCancel = "none" /\ bjProc[j] = "none" /\ bjAnswer[j] = "none"
  /\ bjAnswer' = BjSet(bjAnswer, j, "error")
  /\ UNCHANGED <<bjProc, bjDir, bjHandle, announceVars, bjCancel, bjShown,
                 bjRestarts>>

BjExit(j) ==
  /\ bjProc[j] = "running"
  /\ bjProc' = BjSet(bjProc, j, IF bjWatcher[j] = "wait" THEN "zombie" ELSE "reaped")
  /\ UNCHANGED <<bjDir, bjHandle, announceVars, bjCancel, bjAnswer, bjShown,
                 bjRestarts>>

----------------------------------------------------------------------------
(* _watch_async_job                                                        *)

\* proc.wait() returns: the watcher reaps, or finds that cancel has.
BjReap(j) ==
  /\ bjWatcher[j] = "wait" /\ bjProc[j] \in {"zombie", "reaped"}
  /\ bjProc' = BjSet(bjProc, j, "reaped")
  /\ bjWatcher' = BjSet(bjWatcher, j, "ended")
  /\ UNCHANGED <<bjDir, bjHandle, bjFd, bjTmp, bjFile, bjContent, bjCancel,
                 bjAnswer, bjShown, bjRestarts>>

\* tmp.write_text opens the file: truncates the one there or makes one.
BjOpenTmp(j) ==
  /\ bjWatcher[j] = "ended"
  /\ LET inode == IF bjTmp = "none" THEN j ELSE bjTmp
     IN /\ bjFd' = BjSet(bjFd, j, inode)
        /\ bjTmp' = inode
        /\ bjContent' = BjSet(bjContent, inode, "empty")
  /\ bjWatcher' = BjSet(bjWatcher, j, "open")
  /\ UNCHANGED <<bjProc, bjDir, bjHandle, bjFile, bjCancel, bjAnswer, bjShown,
                 bjRestarts>>

\* It writes from the start: over another watcher's text the result is that
\* text's tail or not, as their lengths have it.
BjWriteTmp(j) ==
  /\ bjWatcher[j] = "open"
  /\ \E text \in IF bjContent[bjFd[j]] = "empty" THEN {j} ELSE {j, "mixed"} :
        bjContent' = BjSet(bjContent, bjFd[j], text)
  /\ bjFd' = BjSet(bjFd, j, "none")
  /\ bjWatcher' = BjSet(bjWatcher, j, "wrote")
  /\ UNCHANGED <<bjProc, bjDir, bjHandle, bjTmp, bjFile, bjCancel, bjAnswer,
                 bjShown, bjRestarts>>

\* tmp.rename(target); when another watcher has renamed it, an ignored error.
BjRenameTmp(j) ==
  /\ bjWatcher[j] = "wrote"
  /\ bjFile' = IF bjTmp = "none" THEN bjFile ELSE bjTmp
  /\ bjTmp' = "none"
  /\ bjWatcher' = BjSet(bjWatcher, j, "over")
  /\ UNCHANGED <<bjProc, bjDir, bjHandle, bjFd, bjContent, bjCancel, bjAnswer,
                 bjShown, bjRestarts>>

----------------------------------------------------------------------------
(* _handle_poll, _handle_cancel                                            *)

\* Bugs: a child it cannot wait for counts as ended; it needs the handle.
BjEndedUnknown(j) == bjProc[j] \in {"reaped", "zombie"} \/ j \notin bjHandle
BjEndedHandle(j) == bjProc[j] \in {"reaped", "zombie"} /\ j \in bjHandle

\* proc.poll() with the handle: it reaps when the watcher is not in its wait
\* yet, else it sees what the watcher has reaped.  Without the handle waitpid
\* fails for a child of another process, and signal 0 tells.
BjKnownEnded(j) ==
  bjProc[j] = "reaped" \/ (bjProc[j] = "zombie" /\ j \in bjHandle)

BjPollDone(j) ==
  /\ bjCancel = "none" /\ j \in bjDir /\ BjKnownEnded(j)
  /\ bjProc' = IF bjProc[j] = "zombie" THEN BjSet(bjProc, j, "reaped") ELSE bjProc
  /\ bjAnswer' = BjSet(bjAnswer, j, "done")
  /\ bjDir' = bjDir \ {j}
  /\ bjHandle' = bjHandle \ {j}
  /\ UNCHANGED <<announceVars, bjCancel, bjShown, bjRestarts>>

BjPollRunning(j) ==
  /\ bjCancel = "none" /\ j \in bjDir /\ bjProc[j] # "reaped"
  /\ bjAnswer' = BjSet(bjAnswer, j, "running")
  /\ UNCHANGED <<bjProc, bjDir, bjHandle, announceVars, bjCancel, bjShown,
                 bjRestarts>>
BjPoll(j) == BjPollDone(j) \/ BjPollRunning(j)

\* SIGTERM to the session.
BjTerminate(j) ==
  /\ bjCancel = "none" /\ j \in bjDir
  /\ bjCancel' = j
  /\ bjProc' = IF bjProc[j] = "running" /\ j \notin Stubborn
               THEN BjSet(bjProc, j, IF bjWatcher[j] = "wait" THEN "zombie"
                                     ELSE "reaped")
               ELSE bjProc
  /\ UNCHANGED <<bjDir, bjHandle, announceVars, bjAnswer, bjShown, bjRestarts>>

\* With the handle: wait two seconds, kill, wait.  Without: no wait, no kill.
BjCancelled(j) ==
  /\ bjCancel = j
  /\ bjProc' = IF j \in bjHandle THEN BjSet(bjProc, j, "reaped") ELSE bjProc
  /\ bjDir' = bjDir \ {j}
  /\ bjHandle' = bjHandle \ {j}
  /\ bjAnswer' = BjSet(bjAnswer, j, IF j \in bjHandle THEN "cancelled"
                                    ELSE "cancelled_orphan")
  /\ bjCancel' = "none"
  /\ UNCHANGED <<announceVars, bjShown, bjRestarts>>

----------------------------------------------------------------------------
\* A notification pass parses bash.json; one it cannot parse is skipped.
BjPass ==
  /\ bjFile # "none"
  /\ bjContent[bjFile] \in Jobs
  /\ bjShown' = bjShown \cup {bjContent[bjFile]}
  /\ UNCHANGED <<bjProc, bjDir, bjHandle, announceVars, bjCancel, bjAnswer,
                 bjRestarts>>

\* dismiss_channel("bash")
BjDismiss ==
  /\ bjFile # "none" /\ bjFile' = "none"
  /\ UNCHANGED <<bjProc, bjDir, bjHandle, bjWatcher, bjFd, bjTmp, bjContent,
                 bjCancel, bjAnswer, bjShown, bjRestarts>>

\* Watchers and handles die with the process; jobs and files stay, and a job
\* that has ended or ends later is reaped by init.
BjRestart ==
  /\ bjRestarts < MaxRestarts
  /\ bjRestarts' = bjRestarts + 1
  /\ bjHandle' = {} /\ bjCancel' = "none"
  /\ bjWatcher' = [j \in Jobs |-> IF bjWatcher[j] = "none" THEN "none" ELSE "over"]
  /\ bjFd' = [j \in Jobs |-> "none"]
  /\ bjProc' = [j \in Jobs |-> IF bjProc[j] = "zombie" THEN "reaped" ELSE bjProc[j]]
  /\ UNCHANGED <<bjDir, bjTmp, bjFile, bjContent, bjAnswer, bjShown>>

BjWatch(j) == BjReap(j) \/ BjOpenTmp(j) \/ BjWriteTmp(j) \/ BjRenameTmp(j)
BjNext ==
  \/ \E j \in Jobs : \/ BjStart(j) \/ BjStartFails(j) \/ BjExit(j)
                     \/ BjWatch(j)
                     \/ BjPoll(j) \/ BjTerminate(j) \/ BjCancelled(j)
  \/ BjPass \/ BjDismiss \/ BjRestart
BjSpec == BjInit /\ [][BjNext]_bjVars

\* Watchers run, the run loop ends its calls, and an agent that waits for a job
\* polls it again and again.
BjFairness == \A j \in Jobs : /\ WF_bjVars(BjWatch(j))
                              /\ WF_bjVars(BjCancelled(j))
                              /\ SF_bjVars(BjPoll(j))

----------------------------------------------------------------------------
BjTypeOK ==
  /\ bjProc \in [Jobs -> {"none", "running", "zombie", "reaped"}]
  /\ bjDir \subseteq Jobs /\ bjHandle \subseteq bjDir
  /\ bjWatcher \in [Jobs -> {"none", "wait", "ended", "open", "wrote", "over"}]
  /\ bjFd \in [Jobs -> Jobs \cup {"none"}]
  /\ bjTmp \in Jobs \cup {"none"} /\ bjFile \in Jobs \cup {"none"}
  /\ bjContent \in [Jobs -> Jobs \cup {"empty", "mixed"}]
  /\ bjCancel \in Jobs \cup {"none"}
  /\ bjAnswer \in [Jobs -> {"none", "error", "running", "done", "cancelled",
                            "cancelled_orphan"}]
  /\ bjShown \subseteq Jobs /\ bjRestarts \in 0..MaxRestarts

\* A job that was told to be done or cancelled has ended, across restarts of
\* the agent for a poll, and for a cancel of a job the same process started
\* (_handle_poll, _handle_cancel).
OverIsOver ==
  \A j \in Jobs : bjAnswer[j] \in {"done", "cancelled"} => bjProc[j] = "reaped"

\* An ended job that is polled for is answered and its directory removed, also
\* after a restart took the handle and the watcher away (_handle_poll).
PollAnswers ==
  \A j \in Jobs : bjProc[j] \in {"zombie", "reaped"} /\ j \in bjDir ~> j \notin bjDir

\* "Start background watcher - writes .notification/bash.json when the process
\* exits, so the agent gets notified" (core/bash/__init__.py:418): what a
\* watcher has announced stays until a pass has read it.
EndShown ==
  [][\A j \in Jobs :
       /\ bjFile \in Jobs /\ bjContent[bjFile] = j /\ bjFile' # "none"
       /\ bjContent'[bjFile'] # j
       => j \in bjShown]_bjVars
=============================================================================
