------------------------------ MODULE SoulFlow ------------------------------
(***************************************************************************)
(* The soul (intrinsics/soul): a timer armed when the agent goes idle and  *)
(* the agent's own flow call both fire a consultation on a thread of their *)
(* own, whose voices replace the soul channel; a question left in .inquiry *)
(* is answered by a thread the heartbeat starts (base_agent/lifecycle.py). *)
(***************************************************************************)
EXTENDS Naturals, Sequences, SequencesExt

CONSTANTS
  SfFires,     \* bound: timers armed and flow calls made
  SfQuestions, \* bound: questions left in .inquiry, numbered from 1
  SfFaults     \* bound: file operations that fail, crashes

ASSUME SoulAssumption == SfFires \in Nat \ {0} /\ SfQuestions \in Nat /\ SfFaults \in Nat

VARIABLES
  sfState,    \* the agent's state
  sfTimer,    \* _soul_timer: the armed fire it names, 0 for none
  sfAt,       \* where the thread of each fire is; "mute": it ended, or was killed, with no error on record
  sfLock,     \* holder of _soul_fire_lock, 0 for none
  sfId,       \* fire_id each fire took, 0 for none
  sfRecord,   \* the fire records of logs/soul_flow.jsonl
  sfChannel,  \* .notification/soul.json: the fire_id it shows, 0 for none
  sfInquiry,  \* .inquiry, 0 for none
  sfTaken,    \* .inquiry.taken, 0 for none
  sfMirror,   \* who is on the question taken: nothing, the heartbeat, the mirror
  sfBtw,      \* .notification/btw.json: the question it answers, 0 for none
  sfAsked, sfFaults

sfFlow == <<sfState, sfTimer, sfAt, sfLock, sfId, sfRecord, sfChannel>>
sfAsk == <<sfInquiry, sfTaken, sfMirror, sfBtw, sfAsked>>
sfVars == <<sfFlow, sfAsk, sfFaults>>

Fires == 1..SfFires
Recorded(fire, outcome) == [fire |-> fire, outcome |-> outcome]

\* One fire that may not have been used yet
Unused == IF \E i \in Fires : sfAt[i] = "none"
            THEN {CHOOSE i \in Fires : sfAt[i] = "none" /\ \A j \in 1..(i - 1) : sfAt[j] # "none"}
            ELSE {}
LastId == LET m == {sfId[i] : i \in Fires} \cup {0} IN CHOOSE x \in m : \A y \in m : y <= x

\* cancel() has no effect on a timer that rang
Cancelled(at) == [i \in Fires |-> IF i = sfTimer /\ at[i] = "armed" THEN "over" ELSE at[i]]
Arms(i) == sfTimer' = i /\ sfAt' = [Cancelled(sfAt) EXCEPT ![i] = "armed"]
Moves(i, at) == sfAt' = [sfAt EXCEPT ![i] = at]
SoulFault == sfFaults < SfFaults /\ sfFaults' = sfFaults + 1

SfInit ==
  /\ sfState = "idle" /\ sfTimer = 1
  /\ sfAt = [i \in Fires |-> IF i = 1 THEN "armed" ELSE "none"] /\ sfLock = 0 /\ sfId = [i \in Fires |-> 0] /\ sfRecord = <<>> /\ sfChannel = 0
  /\ sfInquiry = 0 /\ sfTaken = 0 /\ sfMirror = "nothing" /\ sfBtw = 0
  /\ sfAsked = 0 /\ sfFaults = 0

-----------------------------------------------------------------------------
(* The agent *)

\* Going idle arms a timer; going anywhere else from idle cancels it
SfRests ==
  /\ sfState # "idle" /\ sfState' = "idle"
  /\ \E i \in Unused : Arms(i)
  /\ UNCHANGED <<sfLock, sfId, sfRecord, sfChannel, sfAsk, sfFaults>>

SfLeaves(to) ==
  /\ sfState # to /\ to # "idle" /\ sfState' = to
  /\ IF sfState = "idle" THEN sfTimer' = 0 /\ sfAt' = Cancelled(sfAt)
                         ELSE UNCHANGED <<sfTimer, sfAt>>
  /\ UNCHANGED <<sfLock, sfId, sfRecord, sfChannel, sfAsk, sfFaults>>

\* A new delay arms a timer at once, in the middle of the turn that set it
SfConfigures ==
  /\ sfState = "active"
  /\ \E i \in Unused : Arms(i)
  /\ UNCHANGED <<sfState, sfLock, sfId, sfRecord, sfChannel, sfAsk, sfFaults>>

\* A flow call tests the lock, lets go of it and leaves the fire to a thread
SfFlowCall ==
  /\ sfState = "active" /\ sfLock = 0
  /\ \E i \in Unused : Moves(i, "waits")
  /\ UNCHANGED <<sfState, sfTimer, sfLock, sfId, sfRecord, sfChannel, sfAsk, sfFaults>>

SfDismisses ==
  /\ sfState = "active" /\ sfChannel # 0 /\ sfChannel' = 0
  /\ UNCHANGED <<sfState, sfTimer, sfAt, sfLock, sfId, sfRecord, sfAsk, sfFaults>>

-----------------------------------------------------------------------------
(* A fire *)

SfRings(i) ==
  /\ sfAt[i] = "armed" /\ Moves(i, "whisper")
  /\ UNCHANGED <<sfState, sfTimer, sfLock, sfId, sfRecord, sfChannel, sfAsk, sfFaults>>

\* The callback forgets whatever timer is there, its own or a later one
SfWhispers(i) ==
  /\ sfAt[i] = "whisper" /\ sfTimer' = 0
  /\ Moves(i, IF sfState = "idle" THEN "gate" ELSE "over")
  /\ UNCHANGED <<sfState, sfLock, sfId, sfRecord, sfChannel, sfAsk, sfFaults>>

\* Every state but ACTIVE sets _idle; the wait ends with the delay too
SfWaited(i) ==
  /\ sfAt[i] = "waits"
  /\ \/ sfState # "active" /\ Moves(i, "gate")
     \/ sfState = "active" /\ Moves(i, "over")
  /\ UNCHANGED <<sfState, sfTimer, sfLock, sfId, sfRecord, sfChannel, sfAsk, sfFaults>>

SfGate(i) ==
  /\ sfAt[i] = "gate" /\ Moves(i, IF sfState = "idle" THEN "lock" ELSE "over")
  /\ UNCHANGED <<sfState, sfTimer, sfLock, sfId, sfRecord, sfChannel, sfAsk, sfFaults>>

\* Mutation of FireFree: the lock taken whoever has it
FireAnyway == TRUE

FireFree == sfLock = 0

\* acquire(blocking=False): a fire that finds the lock held is skipped
SfLocks(i) ==
  /\ sfAt[i] = "lock"
  /\ IF FireFree
       THEN sfLock' = i /\ sfId' = [sfId EXCEPT ![i] = LastId + 1] /\ Moves(i, "gather")
       ELSE Moves(i, "over") /\ UNCHANGED <<sfLock, sfId>>
  /\ UNCHANGED <<sfState, sfTimer, sfRecord, sfChannel, sfAsk, sfFaults>>

\* The voices that survived, recorded if the log can be written
SfGathers(i) ==
  /\ sfAt[i] = "gather"
  /\ \E outcome \in {"ok", "empty"} :
       /\ Moves(i, IF outcome = "ok" THEN "publish" ELSE "clear")
       /\ \/ sfRecord' = Append(sfRecord, Recorded(sfId[i], outcome)) /\ UNCHANGED sfFaults
          \/ SoulFault /\ UNCHANGED sfRecord
  /\ UNCHANGED <<sfState, sfTimer, sfLock, sfId, sfChannel, sfAsk>>

\* No voice: those of the fire before go
SfShows(i) ==
  /\ sfAt[i] \in {"publish", "clear"} /\ Moves(i, "release")
  /\ sfChannel' = IF sfAt[i] = "publish" THEN sfId[i] ELSE 0
  /\ UNCHANGED <<sfState, sfTimer, sfLock, sfId, sfRecord, sfAsk, sfFaults>>

\* The error is recorded, unless what fails the channel fails the log as well
SfShowFails(i) ==
  /\ sfAt[i] \in {"publish", "clear"} /\ SoulFault
  /\ \/ Moves(i, "release") /\ sfRecord' = Append(sfRecord, Recorded(sfId[i], "error"))
     \/ Moves(i, "unsaid") /\ UNCHANGED sfRecord
  /\ UNCHANGED <<sfState, sfTimer, sfLock, sfId, sfChannel, sfAsk>>

SfReleases(i) ==
  /\ sfAt[i] \in {"release", "unsaid"} /\ sfLock' = 0
  /\ Moves(i, IF sfAt[i] = "release" THEN "over" ELSE "mute")
  /\ UNCHANGED <<sfState, sfTimer, sfId, sfRecord, sfChannel, sfAsk, sfFaults>>

-----------------------------------------------------------------------------
(* A question *)

SfAsks ==
  /\ sfAsked < SfQuestions /\ sfAsked' = sfAsked + 1 /\ sfInquiry' = sfAsked + 1
  /\ UNCHANGED <<sfFlow, sfTaken, sfMirror, sfBtw, sfFaults>>

\* One question at a time: the next waits for .inquiry.taken to go
SfTakes ==
  /\ sfInquiry # 0 /\ sfTaken = 0 /\ sfTaken' = sfInquiry /\ sfInquiry' = 0 /\ sfMirror' = "heartbeat"
  /\ UNCHANGED <<sfFlow, sfBtw, sfAsked, sfFaults>>

\* The heartbeat reads the file it took: a blank one is removed
SfStarts ==
  /\ sfMirror = "heartbeat"
  /\ \/ sfMirror' = "mirror" /\ UNCHANGED sfTaken
     \/ sfMirror' = "nothing" /\ sfTaken' = 0
  /\ UNCHANGED <<sfFlow, sfInquiry, sfBtw, sfAsked, sfFaults>>

\* soul_inquiry: a voice, or a silence
Voices == {sfTaken, 0}

\* An answer is published, a silence or an error is only logged
SfAnswers ==
  /\ sfMirror = "mirror" /\ sfMirror' = "answered"
  /\ \E voice \in Voices : sfBtw' = IF voice # 0 THEN voice ELSE sfBtw
  /\ UNCHANGED <<sfFlow, sfInquiry, sfTaken, sfAsked, sfFaults>>

SfUntakes ==
  /\ sfMirror = "answered" /\ sfMirror' = "nothing" /\ sfTaken' = 0
  /\ UNCHANGED <<sfFlow, sfInquiry, sfBtw, sfAsked, sfFaults>>

SfNotes ==
  /\ sfState = "active" /\ sfBtw # 0 /\ sfBtw' = 0
  /\ UNCHANGED <<sfFlow, sfInquiry, sfTaken, sfMirror, sfAsked, sfFaults>>

\* The threads and the lock are gone, the files stay; _start arms a timer again
SfCrash ==
  /\ SoulFault
  /\ sfState' = "idle" /\ sfLock' = 0
  /\ sfMirror' = IF sfMirror = "nothing" THEN "nothing" ELSE "dead"
  /\ \E i \in Unused :
       /\ sfTimer' = i
       /\ sfAt' = [j \in Fires |-> IF j = i THEN "armed"
                                   ELSE IF sfAt[j] \in {"none", "over"} THEN sfAt[j]
                                   ELSE "mute"]
  /\ UNCHANGED <<sfId, sfRecord, sfChannel, sfInquiry, sfTaken, sfBtw, sfAsked>>

SfNext ==
  \/ SfRests \/ (\E to \in {"active", "asleep"} : SfLeaves(to))
  \/ SfConfigures \/ SfFlowCall \/ SfDismisses
  \/ \E i \in Fires : \/ SfRings(i) \/ SfWhispers(i) \/ SfWaited(i) \/ SfGate(i) \/ SfLocks(i)
                      \/ SfGathers(i) \/ SfShows(i) \/ SfShowFails(i) \/ SfReleases(i)
  \/ SfAsks \/ SfTakes \/ SfStarts \/ SfAnswers \/ SfUntakes \/ SfNotes \/ SfCrash

SfSpec == SfInit /\ [][SfNext]_sfVars

-----------------------------------------------------------------------------
(* Properties *)

\* Values the soul's state takes
SfTypeOK ==
  /\ sfState \in {"active", "idle", "asleep"} /\ sfTimer \in {0} \cup Fires
  /\ sfAt \in [Fires -> {"none", "armed", "waits", "whisper", "gate", "lock", "gather",
                         "publish", "clear", "release", "unsaid", "over", "mute"}]
  /\ sfLock \in {0} \cup Fires /\ sfId \in [Fires -> 0..SfFires]
  /\ sfRecord \in Seq([fire : 1..SfFires, outcome : {"ok", "empty", "error"}])
  /\ sfChannel \in 0..SfFires /\ sfFaults \in 0..SfFaults
  /\ {sfInquiry, sfTaken, sfBtw, sfAsked} \subseteq 0..SfQuestions
  /\ sfMirror \in {"nothing", "heartbeat", "mirror", "answered", "dead"}

\* Between fires the channel does not show voices older than those of a
\* recorded fire, unless that fire recorded that showing its own failed: a
\* timer and a flow call that overlap never overwrite newer voices with
\* older ones.  The exceptions are a crash between the record and the channel, and a
\* fault that fails the channel and the record of the error.
VoicesAreLast ==
  sfLock = 0 /\ sfChannel # 0 =>
    \A r \in Range(sfRecord) :
      r.fire > sfChannel => \/ Recorded(r.fire, "error") \in Range(sfRecord)
                            \/ \E i \in Fires : sfId[i] = r.fire /\ sfAt[i] = "mute"

\* Violated: the timer "runs only while the agent is IDLE. Cancelled by
\* _set_state on entry to any non-IDLE state" (flow.py's _start_soul_timer).
\* The callback of a timer that rang may forget the one armed since, which
\* nothing then cancels; and a new delay arms one in the middle of a turn.
TimerIsIdle == \A i \in Fires : sfAt[i] = "armed" => sfState = "idle"
=============================================================================
