---------------------------- MODULE ChannelsProofs ----------------------------
(***************************************************************************)
(* Theorems about the two modules that the run `channels` checks.  Mail,   *)
(* for any agents, mails, crashes and failures: no letter vanishes, a      *)
(* person's mail reaches one agent, and a mail is announced to an agent    *)
(* once.  ChatBridge, for any number of messages, faults, crashes and rows *)
(* of a page: a server takes in its messages as its promise says, step by  *)
(* step, and announces none more often than it may.  Of both, the types.   *)
(***************************************************************************)
EXTENDS MCChannels, FiniteSetTheorems, TLAPS

-----------------------------------------------------------------------------
(* Mail                                                                    *)

ThreadStates == [at : {"idle", "compute", "publish", "claimed", "written"},
                 mail : SUBSET Mails, digest : SUBSET Mails]
MlKinds ==
  /\ mlUp \subseteq Agents /\ mlSent \in 0..MaxSends
  /\ mlFrom \in [1..MaxSends -> MailAddrs] /\ \A n \in 1..mlSent : mlFrom[n] \in Agents
  /\ mlPosted \subseteq Letters /\ mlOutbox \subseteq Letters /\ mlMailman \subseteq mlPosted
  /\ mlStep \in [Letters -> MailmanSteps] /\ mlKept \in [Agents -> SUBSET PseudoMails]
  /\ mlPseudo \in [PseudoMails -> {"unwritten", "outbox", "claim", "sent"}]
  /\ mlBox \in [Agents -> [Mails -> Folders]]
  /\ mlRead \in [Agents -> SUBSET Mails] /\ mlSeen \in [Agents -> SUBSET Mails]
  /\ mlTold \in [Agents -> [Mails -> Nat]]
  /\ mlThread \in [Agents -> [MailThreads -> ThreadStates]]

Claiming(a, m) == mlThread[a]["poller"].at \in {"claimed", "written"}
                  /\ m \in mlThread[a]["poller"].mail
Holds(a, m) == (mlBox[a][m] # "none" /\ m \notin mlKept[a]) \/ Claiming(a, m)

\* A poller claims one mail at a time, a person's, which is marked "claim" and
\* which it has seen and not told; what it has written is in its inbox.
ClaimsWell ==
  \A a \in Agents, m \in Mails :
    Claiming(a, m) =>
      /\ m \in PseudoMails /\ mlPseudo[m] = "claim"
      /\ m \in mlSeen[a] /\ (m \notin mlKept[a] => mlTold[a][m] = 0) /\ a \in mlUp
      /\ mlThread[a]["poller"].at = "written" => mlBox[a][m] # "none"
      /\ \A n \in Mails : Claiming(a, n) => n = m

\* Who has a person's mail has it alone, the copies of roll-backs aside.
HeldAlone ==
  \A p \in PseudoMails :
    /\ \A a, b \in Agents : Holds(a, p) /\ Holds(b, p) => a = b
    /\ mlPseudo[p] \in {"unwritten", "outbox"} => \A a \in Agents : ~Holds(a, p)
    /\ mlPseudo[p] = "sent" => \E a \in Agents : mlBox[a][p] # "none"

\* A letter that is not dispatched yet is new to its recipient.
Dispatching(m) == Mailing(m, "dispatch")
LettersNew ==
  /\ \A m \in mlMailman : m.n <= mlSent
  /\ \A m \in mlMailman, a \in Agents : Dispatching(m) => mlBox[a][m] \in {"none", "partial"}
  /\ \A m \in Letters, a \in Agents :
       mlBox[a][m] # "none" \/ mlTold[a][m] # 0 => m.n <= mlSent

\* What was told cannot come into the inbox again, and is seen while it is there.
ToldIsSeen ==
  \A a \in Agents, m \in Mails :
    mlTold[a][m] # 0 /\ m \notin mlKept[a] =>
      /\ mlTold[a][m] = 1 /\ ~Dispatching(m) /\ mlBox[a][m] # "none"
      /\ m \in PseudoMails => mlPseudo[m] \notin {"unwritten", "outbox"}
      /\ a \in mlUp /\ mlBox[a][m] \in {"inbox", "partial"} => m \in mlSeen[a]

\* The step its mailman is at, or died at, says what became of a letter.
StepsWell ==
  /\ \A m \in Letters : m.n <= mlSent \/ (mlStep[m] = "dispatch" /\ m \notin mlBounced)
  /\ \A m \in mlPosted :
       /\ mlStep[m] \in {"dispatch", "refused"} => m \in mlOutbox
       /\ mlStep[m] # "over" => m \notin mlBounced /\ (Arrived(m) <=> mlStep[m] = "delivered")
       /\ mlStep[m] = "over" => (Arrived(m) <=> m \notin mlBounced)
  /\ \A m \in mlMailman : mlStep[m] # "over"

MlInv == MlKinds /\ StepsWell /\ ClaimsWell /\ HeldAlone /\ LettersNew /\ ToldIsSeen

LEMMA Apart == \A p \in PseudoMails : p \in Mails /\ p \notin Letters
BY PseudoAssumption DEF Mails

LEMMA LetterTo == \A m \in Letters : m \in Mails /\ m.n \in 1..MaxSends /\ m.to \in MailAddrs
BY DEF Letters, Mails

\* LettersNew holds on while no letter is sent and mail reaches, and is told of,
\* only those it reached, was told of, or was on its way to.
LEMMA LettersStay ==
  ASSUME MlKinds, LettersNew, mlSent' = mlSent, mlMailman' \subseteq mlMailman,
         \A m \in mlMailman', x \in Agents :
           Dispatching(m)' => Dispatching(m) /\ mlBox'[x][m] \in {mlBox[x][m], "partial"},
         \A m \in Letters, x \in Agents :
           mlBox'[x][m] # "none" \/ mlTold'[x][m] # 0 =>
             m \in mlMailman \/ mlBox[x][m] # "none" \/ mlTold[x][m] # 0
  PROVE  LettersNew'
<1>1. ASSUME NEW m \in mlMailman', NEW x \in Agents, Dispatching(m)'
      PROVE  mlBox'[x][m] \in {"none", "partial"}
  BY <1>1 DEF LettersNew
<1>2. ASSUME NEW m \in Letters, NEW x \in Agents, mlBox'[x][m] # "none" \/ mlTold'[x][m] # 0
      PROVE  m.n <= mlSent'
  BY <1>2 DEF LettersNew
<1>3. \A m \in mlMailman' : m.n <= mlSent'
  BY DEF LettersNew
<1> QED BY <1>1, <1>2, <1>3 DEF LettersNew

\* StepsWell holds on while no mailman moves and no letter comes or is lost.
LEMMA StepsStay ==
  ASSUME MlKinds, StepsWell, UNCHANGED <<mlSent, mlPosted, mlOutbox, mlStep, mlBounced>>,
         mlMailman' \subseteq mlMailman,
         \A m \in Letters, x \in Agents :
           (mlBox'[x][m] \in {"inbox", "archive", "gone"})
             <=> (mlBox[x][m] \in {"inbox", "archive", "gone"})
  PROVE  StepsWell'
<1>1. \A m \in mlPosted : m \in Letters /\ (Arrived(m)' <=> Arrived(m))
  BY DEF Arrived, MlKinds
<1> QED BY <1>1 DEF StepsWell

LEMMA StepsAccount == MlKinds /\ StepsWell => Accounted
<1> SUFFICES ASSUME MlKinds, StepsWell, NEW m \in mlPosted
             PROVE  /\ m \in mlOutbox \cup mlBounced \/ Arrived(m) \/ mlStep[m] = "bounce"
                    /\ Arrived(m) => m \notin mlBounced /\ mlStep[m] \notin {"refused", "bounce"}
  BY DEF Accounted
<1>1. mlStep[m] \in MailmanSteps
  BY DEF MlKinds
<1> QED BY <1>1 DEF StepsWell, MailmanSteps

-----------------------------------------------------------------------------
(* What the small updates do, point by point *)

LEMMA FileAt ==
  ASSUME MlKinds, NEW a \in Agents, NEW m \in Mails, NEW folder \in Folders, MlFile(a, m, folder)
  PROVE  /\ mlBox' \in [Agents -> [Mails -> Folders]]
         /\ mlBox'[a][m] = folder
         /\ \A x \in Agents, y \in Mails : x # a \/ y # m => mlBox'[x][y] = mlBox[x][y]
BY DEF MlKinds, MlFile

LEMMA GoAt ==
  ASSUME MlKinds, NEW a \in Agents, NEW t \in MailThreads, NEW state \in ThreadStates,
         MlGo(a, t, state)
  PROVE  /\ mlThread' \in [Agents -> [MailThreads -> ThreadStates]]
         /\ mlThread'[a][t] = state
         /\ \A x \in Agents, u \in MailThreads : x # a \/ u # t => mlThread'[x][u] = mlThread[x][u]
BY DEF MlKinds, MlGo

LEMMA TellAt ==
  ASSUME MlKinds, NEW a \in Agents, NEW m \in Mails,
         mlTold' = [mlTold EXCEPT ![a][m] = @ + 1]
  PROVE  /\ mlTold' \in [Agents -> [Mails -> Nat]]
         /\ mlTold'[a][m] = mlTold[a][m] + 1
         /\ \A x \in Agents, y \in Mails : x # a \/ y # m => mlTold'[x][y] = mlTold[x][y]
BY DEF MlKinds

LEMMA States ==
  /\ AtRest \in ThreadStates
  /\ \A set \in SUBSET Mails : Rendering(set) \in ThreadStates
BY DEF AtRest, Rendering, ThreadStates

LEMMA Bounds == 0 \in 0..MaxSends /\ \A n \in 1..0 : FALSE
<1>1. MaxSends \in Nat
  BY MailAssumption
<1> QED BY <1>1

LEMMA MlInitInv == MlInit => MlInv
<1> SUFFICES ASSUME MlInit PROVE MlInv
  OBVIOUS
<1> USE DEF MlInit
<1>1. MlKinds
  <2>1. /\ mlThread \in [Agents -> [MailThreads -> ThreadStates]]
        /\ mlBox \in [Agents -> [Mails -> Folders]]
    BY States DEF Folders
  <2>2. /\ mlFrom \in [1..MaxSends -> MailAddrs] /\ \A n \in 1..mlSent : mlFrom[n] \in Agents
        /\ mlSent \in 0..MaxSends
    <3>1. mlFrom \in [1..MaxSends -> MailAddrs]
      BY DEF MailAddrs
    <3> QED BY <3>1, Bounds
  <2>3. mlPseudo \in [PseudoMails -> {"unwritten", "outbox", "claim", "sent"}]
    OBVIOUS
  <2>4. /\ mlRead \in [Agents -> SUBSET Mails] /\ mlSeen \in [Agents -> SUBSET Mails]
        /\ mlTold \in [Agents -> [Mails -> Nat]] /\ mlKept \in [Agents -> SUBSET PseudoMails]
        /\ mlStep \in [Letters -> MailmanSteps]
    BY DEF MailmanSteps
  <2> QED BY <2>1, <2>2, <2>3, <2>4 DEF MlKinds
<1>2. ClaimsWell /\ HeldAlone
  BY Apart DEF ClaimsWell, HeldAlone, Holds, Claiming, MailThreads, AtRest
<1>3. StepsWell /\ LettersNew /\ ToldIsSeen
  BY LetterTo DEF StepsWell, LettersNew, ToldIsSeen
<1> QED BY <1>1, <1>2, <1>3 DEF MlInv


-----------------------------------------------------------------------------
(* Sending *)

\* A call of send: its letters are new.
LEMMA SendInv ==
  ASSUME MlInv, NEW a \in Senders, NEW text \in Texts, NEW targets \in Targets,
         MlSend(a, targets, text)
  PROVE  MlInv'
<1> DEFINE letters == [n : {mlSent + 1}, to : targets]
<1> USE DEF MlInv
<1>1. letters \subseteq Letters /\ \A m \in letters : m.n = mlSent + 1
  BY MailAssumption DEF MlSend, MlKinds, Letters
<1>2. /\ mlSent' = mlSent + 1 /\ mlSent' \in 0..MaxSends
      /\ mlPosted' = mlPosted \cup letters
      /\ mlOutbox' = mlOutbox \cup letters /\ mlMailman' = mlMailman \cup letters
      /\ UNCHANGED <<mlUp, mlStep, mlPseudo, mlKept, mlBox, mlRead, mlSeen, mlThread, mlTold,
                     mlBounced>>
  BY MailAssumption DEF MlSend, Posted, MlKinds, claimVars
<1> HIDE DEF letters
<1>9. mlFrom' \in [1..MaxSends -> MailAddrs] /\ \A n \in 1..mlSent' : mlFrom'[n] \in Agents
  BY <1>2, MailAssumption DEF MlSend, MlKinds, MailAddrs
<1>3. MlKinds'
  BY <1>1, <1>2, <1>9 DEF MlKinds
<1>5. ClaimsWell' /\ HeldAlone'
  BY <1>2 DEF ClaimsWell, HeldAlone, Holds, Claiming
<1>6. \A m \in letters, x \in Agents : mlBox[x][m] = "none" /\ mlTold[x][m] = 0
  <2>1. ASSUME NEW m \in letters, NEW x \in Agents PROVE mlBox[x][m] = "none" /\ mlTold[x][m] = 0
    <3>1. m \in Letters /\ m.n = mlSent + 1 /\ mlSent \in Nat
      BY <1>1, MailAssumption DEF MlKinds
    <3>2. ~(m.n <= mlSent)
      BY <3>1
    <3> QED BY <3>1, <3>2 DEF LettersNew
  <2> QED BY <2>1
<1>10. \A m \in letters : mlStep[m] = "dispatch" /\ m \notin mlBounced /\ ~Arrived(m)
  <2>1. \A m \in letters : m \in Letters /\ ~(m.n <= mlSent)
    BY <1>1, MailAssumption DEF MlKinds
  <2> QED BY <2>1, <1>6 DEF StepsWell, Arrived
<1>4. StepsWell'
  <2>1. \A m \in Letters : Arrived(m)' <=> Arrived(m)
    BY <1>2 DEF Arrived
  <2>2. ASSUME NEW m \in Letters
        PROVE  m.n <= mlSent' \/ (mlStep'[m] = "dispatch" /\ m \notin mlBounced')
    BY <1>2, LetterTo, MailAssumption DEF StepsWell, MlKinds
  <2>3. \A m \in mlPosted' : m \in Letters /\ (m \in letters \/ m \in mlPosted)
    BY <1>1, <1>2 DEF MlKinds
  <2>4. \A m \in mlMailman' : mlStep'[m] # "over"
    BY <1>2, <1>10 DEF StepsWell
  <2> QED BY <1>2, <1>10, <2>1, <2>2, <2>3, <2>4 DEF StepsWell
<1>7. LettersNew'
  <2>1. ASSUME NEW m \in mlMailman' PROVE m.n <= mlSent'
    BY <1>1, <1>2, LetterTo, MailAssumption DEF LettersNew, MlKinds
  <2>2. ASSUME NEW m \in mlMailman', NEW x \in Agents, Dispatching(m)'
        PROVE  mlBox'[x][m] \in {"none", "partial"}
    BY <1>1, <1>2, <1>6, <2>2 DEF LettersNew, Dispatching, Mailing
  <2>3. ASSUME NEW m \in Letters, NEW x \in Agents, mlBox'[x][m] # "none" \/ mlTold'[x][m] # 0
        PROVE  m.n <= mlSent'
    BY <1>2, <2>3, LetterTo, MailAssumption DEF LettersNew, MlKinds
  <2> QED BY <2>1, <2>2, <2>3 DEF LettersNew
<1>8. ToldIsSeen'
  BY <1>1, <1>2, <1>6 DEF ToldIsSeen, Dispatching, Mailing
<1> QED BY <1>3, <1>4, <1>5, <1>7, <1>8

\* A step of a mailman changes what there is of its letter alone.
LEMMA MailmanStep ==
  ASSUME MlInv, NEW m \in mlMailman,
         UNCHANGED <<mlUp, sendVars, claimVars, mlRead, mlSeen, mlThread, mlTold>>,
         mlMailman' \subseteq mlMailman,
         mlStep' \in [Letters -> MailmanSteps],
         mlStep'[m] = "dispatch" => mlStep[m] = "dispatch",
         mlBox' \in [Agents -> [Mails -> Folders]],
         \A x \in Agents : mlBox'[x][m] = mlBox[x][m] \/ mlStep[m] = "dispatch",
         mlStep'[m] = "dispatch" =>
           \A x \in Agents : mlBox'[x][m] \in {mlBox[x][m], "partial"},
         \A y \in Mails \ {m}, x \in Agents : mlBox'[x][y] = mlBox[x][y],
         \A y \in Letters \ {m} : /\ mlStep'[y] = mlStep[y] /\ (y \in mlOutbox' <=> y \in mlOutbox)
                                  /\ y \in mlBounced' <=> y \in mlBounced,
         mlOutbox' \subseteq Letters,
         mlStep'[m] \in {"dispatch", "refused"} => m \in mlOutbox',
         mlStep'[m] # "over" =>
           m \notin mlBounced' /\ (Arrived(m)' <=> mlStep'[m] = "delivered"),
         mlStep'[m] = "over" => (Arrived(m)' <=> m \notin mlBounced') /\ m \notin mlMailman'
  PROVE  MlInv'
<1> USE DEF MlInv, sendVars, claimVars
<1>1. m \in mlPosted /\ m \in Letters /\ m \in Mails /\ m \notin PseudoMails /\ m.n <= mlSent
  BY Apart, LetterTo DEF MlKinds, LettersNew
<1>2. MlKinds'
  BY DEF MlKinds
<1>3. \A y \in Letters \ {m} : Arrived(y)' <=> Arrived(y)
  BY LetterTo DEF Arrived
<1>4. StepsWell'
  <2>1. ASSUME NEW y \in Letters
        PROVE  y.n <= mlSent' \/ (mlStep'[y] = "dispatch" /\ y \notin mlBounced')
    BY <1>1 DEF StepsWell
  <2>2. ASSUME NEW y \in mlPosted', y # m
        PROVE  /\ mlStep'[y] \in {"dispatch", "refused"} => y \in mlOutbox'
               /\ mlStep'[y] # "over" =>
                    y \notin mlBounced' /\ (Arrived(y)' <=> mlStep'[y] = "delivered")
               /\ mlStep'[y] = "over" => (Arrived(y)' <=> y \notin mlBounced')
    <3>1. y \in Letters \ {m} /\ y \in mlPosted
      BY <2>2 DEF MlKinds
    <3> QED BY <1>3, <3>1 DEF StepsWell
  <2>3. \A y \in mlMailman' : mlStep'[y] # "over"
    BY DEF StepsWell, MlKinds
  <2> QED BY <1>1, <2>1, <2>2, <2>3 DEF StepsWell
<1>5. ClaimsWell' /\ HeldAlone'
  <2>1. \A p \in PseudoMails : p \in Mails \ {m}
    BY <1>1, Apart
  <2>2. /\ \A x \in Agents, y \in Mails : Claiming(x, y)' <=> Claiming(x, y)
        /\ \A x \in Agents, p \in PseudoMails : Holds(x, p)' <=> Holds(x, p)
    BY <2>1 DEF Claiming, Holds
  <2> QED BY <2>1, <2>2 DEF ClaimsWell, HeldAlone
<1>6. \A y \in Letters : Dispatching(y)' => Dispatching(y)
  BY DEF Dispatching, Mailing
<1>7. LettersNew'
  <2>1. \A y \in mlMailman', x \in Agents :
          Dispatching(y)' => Dispatching(y) /\ mlBox'[x][y] \in {mlBox[x][y], "partial"}
    BY <1>1, <1>6, LetterTo DEF Dispatching, Mailing, MlKinds
  <2>2. \A y \in Letters, x \in Agents :
          mlBox'[x][y] # "none" \/ mlTold'[x][y] # 0 =>
            y \in mlMailman \/ mlBox[x][y] # "none" \/ mlTold[x][y] # 0
    BY LetterTo
  <2> QED BY <2>1, <2>2, LettersStay
<1>8. ToldIsSeen'
  <2>1. ASSUME NEW x \in Agents, NEW y \in Mails, mlTold'[x][y] # 0, y \notin mlKept'[x]
        PROVE  /\ mlTold'[x][y] = 1 /\ ~Dispatching(y)' /\ mlBox'[x][y] # "none"
               /\ y \in PseudoMails => mlPseudo'[y] \notin {"unwritten", "outbox"}
               /\ x \in mlUp' /\ mlBox'[x][y] \in {"inbox", "partial"} => y \in mlSeen'[x]
    <3>1. ~Dispatching(y)
      BY <2>1 DEF ToldIsSeen
    <3>2. ~Dispatching(y)'
      BY <1>6, <3>1, Apart DEF Mails, Dispatching, Mailing, MlKinds
    <3>3. mlBox'[x][y] = mlBox[x][y]
      BY <3>1 DEF Dispatching, Mailing
    <3> QED BY <2>1, <3>2, <3>3 DEF ToldIsSeen
  <2> QED BY <2>1 DEF ToldIsSeen
<1> QED BY <1>2, <1>4, <1>5, <1>7, <1>8

\* Where a step leaves the letter and its thread.
LEMMA StepAt ==
  ASSUME MlInv, NEW m \in mlMailman, NEW step \in MailmanSteps,
         mlStep' = [mlStep EXCEPT ![m] = step]
  PROVE  /\ m \in Letters /\ m \in Mails /\ m \in mlPosted
         /\ mlStep' \in [Letters -> MailmanSteps] /\ mlStep'[m] = step
         /\ \A y \in Letters \ {m} : mlStep'[y] = mlStep[y]
BY LetterTo DEF MlInv, MlKinds

LEMMA OpenTo ==
  ASSUME MlInv, NEW m \in mlMailman, m.to = mlFrom[m.n]
  PROVE  m.to \in Agents
BY LetterTo DEF MlInv, LettersNew, MlKinds

\* A dispatch: the letter comes into the mailbox, or is refused.
LEMMA DispatchInv ==
  ASSUME MlInv, NEW m \in mlMailman, mlStep[m] = "dispatch", m.to \in MailAddrs,
         UNCHANGED <<mlUp, sendVars, claimVars, mlOutbox, mlBounced, mlRead, mlSeen, mlThread,
                     mlTold>>,
         \/ MlRefused(m)
         \/ m.to \in Agents /\ MlFile(m.to, m, "inbox") /\ MlGoesOn(m, "delivered")
         \/ m.to \in Agents /\ MlFile(m.to, m, "partial") /\ UNCHANGED <<mlStep, mlMailman>>
  PROVE  MlInv'
<1> USE DEF MlInv
<1>1. /\ m \in Letters /\ m \in Mails /\ m \in mlPosted /\ ~Arrived(m)
      /\ m \in mlOutbox /\ m \notin mlBounced /\ mlMailman' = mlMailman
  BY LetterTo DEF StepsWell, MlKinds, MlRefused, MlGoesOn
<1>2. \A x \in Agents : mlBox[x][m] \in {"none", "partial"}
  BY DEF LettersNew, Dispatching, Mailing
<1>3. CASE MlRefused(m)
  <2>1. /\ mlStep' \in [Letters -> MailmanSteps] /\ mlStep'[m] = "refused"
        /\ \A y \in Letters \ {m} : mlStep'[y] = mlStep[y]
        /\ mlBox' = mlBox /\ mlBox' \in [Agents -> [Mails -> Folders]]
    BY <1>3, StepAt DEF MlRefused, MlGoesOn, MailmanSteps, MlKinds
  <2>2. Arrived(m)' <=> Arrived(m)
    BY <2>1 DEF Arrived
  <2>3. mlOutbox' \subseteq Letters
    BY DEF MlKinds
  <2> QED BY <1>1, <2>1, <2>2, <2>3, MailmanStep
<1>4. ASSUME NEW folder \in {"inbox", "partial"}, NEW step \in MailmanSteps,
             m.to \in Agents, MlFile(m.to, m, folder), mlStep' = [mlStep EXCEPT ![m] = step],
             step = IF folder = "inbox" THEN "delivered" ELSE "dispatch"
      PROVE  MlInv'
  <2>1. /\ mlStep' \in [Letters -> MailmanSteps] /\ mlStep'[m] = step
        /\ \A y \in Letters \ {m} : mlStep'[y] = mlStep[y]
    BY <1>4, StepAt
  <2>2. /\ mlBox' \in [Agents -> [Mails -> Folders]] /\ mlBox'[m.to][m] = folder
        /\ \A x \in Agents, y \in Mails : x # m.to \/ y # m => mlBox'[x][y] = mlBox[x][y]
    <3>1. folder \in Folders
      BY DEF Folders
    <3> QED BY <1>1, <1>4, <3>1, FileAt
  <2>3. Arrived(m)' <=> folder = "inbox"
    BY <1>4, <2>2 DEF Arrived
  <2>4. \A x \in Agents : mlBox'[x][m] \in {mlBox[x][m], folder}
    BY <1>1, <2>2
  <2>5. mlOutbox' \subseteq Letters
    BY DEF MlKinds
  <2> QED BY <1>1, <1>4, <2>1, <2>2, <2>3, <2>4, <2>5, MailmanStep
<1>5. CASE m.to \in Agents /\ MlFile(m.to, m, "inbox") /\ MlGoesOn(m, "delivered")
  BY <1>5, <1>4 DEF MlGoesOn, MailmanSteps
<1>6. CASE m.to \in Agents /\ MlFile(m.to, m, "partial") /\ UNCHANGED <<mlStep, mlMailman>>
  <2>1. mlStep' = [mlStep EXCEPT ![m] = "dispatch"]
    BY <1>1, <1>6 DEF MlKinds
  <2> QED BY <1>6, <1>4, <2>1 DEF MailmanSteps
<1> QED BY <1>3, <1>5, <1>6

\* What is over for the thread: the outbox entry, the word to the sender, its death.
LEMMA CleanUpInv ==
  ASSUME MlInv, NEW m \in Letters, MlCleanUp(m) \/ MlBounce(m)
  PROVE  MlInv'
<1> USE DEF MlInv
<1>1. /\ m \in mlMailman /\ m \in Mails /\ m \in mlPosted
      /\ mlStep[m] \in {"delivered", "refused", "bounce"} /\ m \notin mlBounced
      /\ Arrived(m) <=> mlStep[m] = "delivered"
      /\ UNCHANGED <<mlUp, sendVars, claimVars, mlBox, mlRead, mlSeen, mlThread, mlTold>>
  BY LetterTo DEF MlCleanUp, MlBounce, Mailing, StepsWell, MlKinds
<1>2. (Arrived(m)' <=> Arrived(m)) /\ mlBox' \in [Agents -> [Mails -> Folders]]
  BY <1>1 DEF Arrived, MlKinds
<1>3. mlOutbox \subseteq Letters
  BY DEF MlKinds
<1>4. ASSUME MlDies(m), UNCHANGED <<mlOutbox, mlBounced>> PROVE MlInv'
  <2>1. mlMailman' \subseteq mlMailman /\ mlStep' = mlStep /\ mlStep' \in [Letters -> MailmanSteps]
    BY <1>4 DEF MlDies, MlKinds
  <2>2. mlStep[m] = "refused" => m \in mlOutbox
    BY <1>1 DEF StepsWell
  <2> QED BY <1>1, <1>2, <1>3, <1>4, <2>1, <2>2, MailmanStep
<1>5. ASSUME NEW step \in {"bounce", "over"}, mlStep' = [mlStep EXCEPT ![m] = step],
             mlMailman' \subseteq mlMailman, mlOutbox' \in {mlOutbox, mlOutbox \ {m}},
             mlBounced' \in {mlBounced, mlBounced \cup {m}},
             step = "bounce" => mlStep[m] = "refused" /\ mlBounced' = mlBounced,
             step = "over" => (Arrived(m) <=> m \notin mlBounced') /\ m \notin mlMailman'
      PROVE  MlInv'
  <2>1. /\ mlStep' \in [Letters -> MailmanSteps] /\ mlStep'[m] = step
        /\ \A y \in Letters \ {m} : mlStep'[y] = mlStep[y]
    BY <1>1, <1>5, StepAt DEF MailmanSteps
  <2>2. \A y \in Letters \ {m} :
          (y \in mlOutbox' <=> y \in mlOutbox) /\ (y \in mlBounced' <=> y \in mlBounced)
    BY <1>5
  <2>3. mlOutbox' \subseteq Letters
    BY <1>3, <1>5
  <2> QED BY <1>1, <1>2, <1>5, <2>1, <2>2, <2>3, MailmanStep
<1>6. CASE MlCleanUp(m)
  <2>1. CASE MlDies(m) /\ UNCHANGED mlOutbox
    BY <1>4, <1>6, <2>1 DEF MlCleanUp
  <2>2. CASE mlStep[m] = "refused" /\ MlGoesOn(m, "bounce") /\ mlOutbox' = mlOutbox \ {m}
    BY <1>5, <1>6, <2>2 DEF MlCleanUp, MlGoesOn
  <2>3. CASE mlStep[m] = "delivered" /\ MlEnds(m) /\ mlOutbox' = mlOutbox \ {m}
    BY <1>1, <1>5, <1>6, <2>3 DEF MlCleanUp, MlEnds
  <2> QED BY <1>6, <2>1, <2>2, <2>3 DEF MlCleanUp
<1>7. CASE MlBounce(m)
  <2>1. CASE MlDies(m) /\ UNCHANGED mlBounced
    BY <1>4, <1>7, <2>1 DEF MlBounce
  <2>2. CASE mlBounced' = mlBounced \cup {m} /\ MlEnds(m)
    BY <1>1, <1>5, <1>7, <2>2 DEF MlBounce, Mailing, MlEnds
  <2> QED BY <1>7, <2>1, <2>2 DEF MlBounce
<1> QED BY <1>6, <1>7

LEMMA MailmanInv ==
  ASSUME MlInv, NEW m \in Letters, MlMailman(m)
  PROVE  MlInv'
<1>1. m.to \in MailAddrs
  BY LetterTo
<1>2. CASE MlDeliver(m)
  BY <1>1, <1>2, DispatchInv DEF MlDeliver, Mailing
<1>3. CASE MlSelfOpen(m)
  BY <1>1, <1>3, OpenTo, DispatchInv DEF MlSelfOpen, Mailing
<1>4. CASE MlSelfWrite(m)
  BY <1>1, <1>4, OpenTo, DispatchInv DEF MlSelfWrite, Mailing
<1>5. CASE MlCleanUp(m) \/ MlBounce(m)
  BY <1>5, CleanUpInv
<1> QED BY <1>2, <1>3, <1>4, <1>5 DEF MlMailman

-----------------------------------------------------------------------------
(* The threads of an agent *)

\* A step of a thread that neither claims nor ends a claim.
LEMMA ThreadInv ==
  ASSUME MlInv, NEW a \in Agents, NEW t \in MailThreads, NEW state \in ThreadStates,
         MlGo(a, t, state), state.at \notin {"claimed", "written"},
         mlThread[a][t].at \notin {"claimed", "written"},
         UNCHANGED <<mlUp, sendVars, postVars, claimVars, mlSeen, mlTold>>,
         mlRead' \in [Agents -> SUBSET Mails],
         mlBox' \in [Agents -> [Mails -> Folders]],
         \A x \in Agents, y \in Mails :
           \/ mlBox'[x][y] = mlBox[x][y]
           \/ mlBox[x][y] = "inbox" /\ mlBox'[x][y] \in {"archive", "gone"}
  PROVE  MlInv'
<1> USE DEF MlInv
<1>1. UNCHANGED <<mlSent, mlFrom, mlPosted, mlOutbox, mlMailman, mlStep, mlBounced, mlPseudo,
                  mlKept>>
  BY DEF sendVars, postVars, claimVars
<1>2. \A x \in Agents, y \in Mails : mlBox'[x][y] = "none" <=> mlBox[x][y] = "none"
  OBVIOUS
<1>3. /\ mlThread' \in [Agents -> [MailThreads -> ThreadStates]]
      /\ \A x \in Agents : mlThread'[x]["poller"] = mlThread[x]["poller"]
                           \/ (x = a /\ mlThread'[x]["poller"].at \notin {"claimed", "written"})
  BY GoAt DEF MailThreads
<1>4. \A x \in Agents, y \in Mails :
        /\ Claiming(x, y)' => Claiming(x, y) /\ mlThread'[x]["poller"] = mlThread[x]["poller"]
        /\ Holds(x, y)' => Holds(x, y)
  BY <1>1, <1>2, <1>3 DEF Claiming, Holds
<1>5. MlKinds'
  BY <1>1, <1>3 DEF MlKinds
<1>11. \A m \in Letters : Dispatching(m)' <=> Dispatching(m)
  BY <1>1 DEF Dispatching, Mailing
<1>6. StepsWell'
  BY <1>1, LetterTo, StepsStay
<1>7. ClaimsWell'
  BY <1>1, <1>2, <1>4 DEF ClaimsWell
<1>8. HeldAlone'
  BY <1>1, <1>2, <1>4, Apart DEF HeldAlone
<1>9. LettersNew'
  <2>1. \A m \in mlMailman, x \in Agents :
          m \in Mails /\ m \in Letters
          /\ (Dispatching(m) => mlBox'[x][m] = mlBox[x][m])
    BY LetterTo DEF LettersNew, MlKinds
  <2> QED BY <1>1, <1>2, <1>11, <2>1, LetterTo, LettersStay
<1>10. ToldIsSeen'
  BY <1>1 DEF ToldIsSeen, Dispatching, Mailing
<1> QED BY <1>5, <1>6, <1>7, <1>8, <1>9, <1>10

\* The digest, and the email tool.
LEMMA DigestInv ==
  ASSUME MlInv, NEW a \in Agents, NEW t \in MailThreads, MlCompute(a, t) \/ MlPublish(a, t)
  PROVE  MlInv'
<1> USE DEF MlInv, MlKinds
<1>1. CASE MlCompute(a, t)
  <2> DEFINE state == [mlThread[a][t] EXCEPT !.at = "publish", !.digest = Unread(a)]
  <2>1. mlThread[a][t] \in ThreadStates /\ Unread(a) \in SUBSET Mails
    BY DEF Unread, InFolder
  <2>3. state \in ThreadStates /\ state.at = "publish"
    BY <2>1 DEF ThreadStates
  <2>2. /\ MlGo(a, t, state) /\ mlThread[a][t].at = "compute"
        /\ UNCHANGED <<mlUp, sendVars, postVars, claimVars, mlSeen, mlTold, mlRead, mlBox>>
    BY <1>1 DEF MlCompute
  <2> QED BY <2>2, <2>3, ThreadInv
<1>2. CASE MlPublish(a, t)
  BY <1>2, States, ThreadInv DEF MlPublish, AtRest
<1> QED BY <1>1, <1>2

LEMMA ToolInv ==
  ASSUME MlInv, NEW a \in Agents, NEW m \in Mails,
         MlReadMail(a, m) \/ MlArchive(a, m) \/ MlDelete(a, m)
  PROVE  MlInv'
<1>1. PICK read \in SUBSET Mails, folder \in {"inbox", "archive", "gone"} :
        MlToolStep(a, read, m, folder)
  BY DEF MlInv, MlKinds, MlReadMail, MlArchive, MlDelete
<1>2. /\ mlBox' \in [Agents -> [Mails -> Folders]]
      /\ \A x \in Agents, y \in Mails :
           \/ mlBox'[x][y] = mlBox[x][y]
           \/ mlBox[x][y] = "inbox" /\ mlBox'[x][y] \in {"archive", "gone"}
  BY <1>1, FileAt DEF MlToolStep, MlInv, Folders
<1>3. Rendering({m}) \in ThreadStates /\ Rendering({m}).at = "compute"
  BY States DEF Rendering
<1> QED BY <1>1, <1>2, <1>3, ThreadInv DEF MlToolStep, Idle, MailThreads, MlInv, MlKinds

\* A mail the poller finds in the inbox: announced when it can be read.
LEMMA PollInv ==
  ASSUME MlInv, NEW a \in Agents, NEW m \in Mails, MlPollInbox(a, m)
  PROVE  MlInv'
<1> USE DEF MlInv
<1>1. /\ mlThread[a]["poller"].at = "idle" /\ m \notin mlSeen[a] /\ a \in mlUp
      /\ mlBox[a][m] \in {"partial", "inbox"}
      /\ mlSeen' = [mlSeen EXCEPT ![a] = @ \cup {m}]
      /\ UNCHANGED <<mlUp, mlSent, mlFrom, mlPosted, mlOutbox, mlMailman, mlStep, mlBounced, mlPseudo,
                     mlKept, mlRead, mlBox>>
  BY DEF MlPollInbox, Idle, sendVars, postVars, claimVars
<1>2. m \notin mlKept[a] => mlTold[a][m] = 0
  BY <1>1 DEF ToldIsSeen
<1>3. /\ mlTold' \in [Agents -> [Mails -> Nat]]
      /\ \A x \in Agents, y \in Mails : x # a \/ y # m => mlTold'[x][y] = mlTold[x][y]
      /\ mlTold'[a][m] # 0 /\ m \notin mlKept[a] =>
           mlTold'[a][m] = 1 /\ mlBox[a][m] = "inbox"
      /\ mlTold'[a][m] # 0 => mlBox[a][m] = "inbox" \/ mlTold[a][m] # 0
  <2>1. CASE UNCHANGED mlTold
    BY <1>2, <2>1 DEF MlKinds
  <2>2. CASE mlBox[a][m] = "inbox" /\ mlTold' = [mlTold EXCEPT ![a][m] = @ + 1]
    <3>1. /\ mlTold' \in [Agents -> [Mails -> Nat]] /\ mlTold'[a][m] = mlTold[a][m] + 1
          /\ \A x \in Agents, y \in Mails : x # a \/ y # m => mlTold'[x][y] = mlTold[x][y]
      BY <2>2, TellAt
    <3> QED BY <1>2, <2>2, <3>1
  <2> QED BY <2>1, <2>2 DEF MlPollInbox, MlTell
<1>4. /\ mlThread' \in [Agents -> [MailThreads -> ThreadStates]]
      /\ \A x \in Agents : mlThread'[x]["poller"] = mlThread[x]["poller"]
                           \/ (x = a /\ mlThread'[x]["poller"].at \notin {"claimed", "written"})
  <2>1. "poller" \in MailThreads
    BY DEF MailThreads
  <2>2. CASE UNCHANGED mlThread
    BY <2>2 DEF MlKinds
  <2>3. CASE MlGo(a, "poller", Rendering({m}))
    <3> DEFINE state == Rendering({m})
    <3>1. state \in ThreadStates /\ state.at \notin {"claimed", "written"}
      BY States DEF Rendering
    <3>2. MlGo(a, "poller", state)
      BY <2>3
    <3> HIDE DEF state
    <3>3. /\ mlThread' \in [Agents -> [MailThreads -> ThreadStates]]
          /\ mlThread'[a]["poller"] = state
          /\ \A x \in Agents : x # a => mlThread'[x]["poller"] = mlThread[x]["poller"]
      BY <2>1, <3>1, <3>2, GoAt
    <3> QED BY <3>1, <3>3
  <2> QED BY <2>2, <2>3 DEF MlPollInbox, MlTell
<1>5. /\ mlSeen' \in [Agents -> SUBSET Mails]
      /\ \A x \in Agents : mlSeen[x] \subseteq mlSeen'[x]
      /\ m \in mlSeen'[a]
  BY <1>1 DEF MlKinds
<1>6. \A x \in Agents, y \in Mails :
        /\ Claiming(x, y)' => x # a /\ Claiming(x, y)
                              /\ mlThread'[x]["poller"] = mlThread[x]["poller"]
        /\ Holds(x, y)' => Holds(x, y)
  BY <1>1, <1>4 DEF Claiming, Holds
<1>7. MlKinds'
  BY <1>1, <1>3, <1>4, <1>5 DEF MlKinds
<1>8. StepsWell'
  BY <1>1, StepsStay
<1>9. ClaimsWell'
  BY <1>1, <1>3, <1>5, <1>6 DEF ClaimsWell
<1>10. HeldAlone'
  BY <1>1, <1>6, Apart DEF HeldAlone
<1>11. LettersNew'
  <2>1. \A y \in mlMailman : y \in Letters /\ (Dispatching(y)' <=> Dispatching(y))
    BY <1>1 DEF Dispatching, Mailing, MlKinds
  <2> QED BY <1>1, <1>3, <2>1, LetterTo, LettersStay
<1>12. ToldIsSeen'
  <2>1. Dispatching(m) => mlBox[a][m] # "inbox"
    BY DEF LettersNew, Dispatching, Mailing
  <2>2. m \in PseudoMails /\ m \notin mlKept[a] => mlPseudo[m] \notin {"unwritten", "outbox"}
    BY <1>1 DEF HeldAlone, Holds
  <2>3. \A y \in Mails : Dispatching(y)' <=> Dispatching(y)
    BY <1>1 DEF Dispatching, Mailing
  <2> QED BY <1>1, <1>3, <1>5, <2>1, <2>2, <2>3 DEF ToldIsSeen
<1> QED BY <1>7, <1>8, <1>9, <1>10, <1>11, <1>12

LEMMA PersonInv ==
  ASSUME MlInv, NEW p \in PseudoMails, MlPersonWrites(p)
  PROVE  MlInv'
<1> USE DEF MlInv
<1>1. /\ mlPseudo[p] = "unwritten" /\ mlPseudo' = [mlPseudo EXCEPT ![p] = "outbox"]
      /\ UNCHANGED <<mlUp, mlSent, mlFrom, mlPosted, mlOutbox, mlMailman, mlStep, mlBounced, mlKept,
                     mlRead, mlBox, mlSeen, mlThread, mlTold>>
  BY DEF MlPersonWrites, sendVars, postVars
<1>2. MlKinds' /\ StepsWell' /\ LettersNew'
  BY <1>1, StepsStay DEF MlKinds, LettersNew, Dispatching, Mailing
<1>3. ClaimsWell' /\ HeldAlone'
  BY <1>1 DEF ClaimsWell, HeldAlone, Claiming, Holds, MlKinds
<1>4. ToldIsSeen'
  BY <1>1 DEF ToldIsSeen, MlKinds, Dispatching, Mailing
<1> QED BY <1>2, <1>3, <1>4

-----------------------------------------------------------------------------
(* The claim *)

\* What a step of a claim leaves alone.
ClaimFrame(a, p) ==
  /\ UNCHANGED <<mlUp, mlSent, mlFrom, mlPosted, mlOutbox, mlMailman, mlStep, mlBounced, mlRead>>
  /\ mlKept' \in [Agents -> SUBSET PseudoMails] /\ mlKept[a] \subseteq mlKept'[a]
  /\ \A x \in Agents, y \in Mails : x # a \/ y # p => (y \in mlKept'[x] <=> y \in mlKept[x])
  /\ mlPseudo' \in [PseudoMails -> {"unwritten", "outbox", "claim", "sent"}]
  /\ \A q \in PseudoMails \ {p} : mlPseudo'[q] = mlPseudo[q]
  /\ mlBox' \in [Agents -> [Mails -> Folders]]
  /\ \A x \in Agents, y \in Mails : x # a \/ y # p => mlBox'[x][y] = mlBox[x][y]
  /\ mlSeen' \in [Agents -> SUBSET Mails]
  /\ \A x \in Agents, y \in Mails : x # a \/ y # p => (y \in mlSeen'[x] <=> y \in mlSeen[x])
  /\ mlTold' \in [Agents -> [Mails -> Nat]]
  /\ \A x \in Agents, y \in Mails : x # a \/ y # p => mlTold'[x][y] = mlTold[x][y]
  /\ mlThread' \in [Agents -> [MailThreads -> ThreadStates]]
  /\ \A x \in Agents \ {a} : mlThread'[x]["poller"] = mlThread[x]["poller"]

\* What it is enough to know of the mail and the agent it is about.
LEMMA ClaimStep ==
  ASSUME MlInv, NEW a \in Agents, NEW p \in PseudoMails, ClaimFrame(a, p),
         \A x \in Agents \ {a} : ~Holds(x, p),
         \A m \in Mails : Claiming(a, m)' => m = p,
         mlTold'[a][p] # 0 /\ p \notin mlKept'[a] =>
           /\ mlTold'[a][p] = 1 /\ mlPseudo'[p] \notin {"unwritten", "outbox"}
           /\ p \in mlSeen'[a] /\ mlBox'[a][p] # "none",
         Claiming(a, p)' =>
           /\ mlPseudo'[p] = "claim" /\ p \in mlSeen'[a] /\ a \in mlUp
           /\ p \notin mlKept'[a] => mlTold'[a][p] = 0
           /\ mlThread'[a]["poller"].at = "written" => mlBox'[a][p] # "none",
         mlPseudo'[p] \in {"unwritten", "outbox"} => ~Holds(a, p)',
         mlPseudo'[p] = "sent" => mlBox'[a][p] # "none"
  PROVE  MlInv'
<1> USE DEF MlInv, ClaimFrame
<1>1. p \in Mails /\ p \notin Letters /\ p \notin mlMailman
  BY Apart DEF MlKinds
<1>2. \A x \in Agents \ {a}, y \in Mails : (Claiming(x, y)' <=> Claiming(x, y))
                                            /\ (Holds(x, y)' <=> Holds(x, y))
  BY DEF Claiming, Holds
<1>3. \A y \in Mails \ {p} : ~Claiming(a, y)' /\ (Holds(a, y)' => Holds(a, y))
  BY DEF Holds
<1>4. MlKinds'
  BY DEF MlKinds
<1>10. \A y \in Mails : Dispatching(y)' <=> Dispatching(y)
  BY DEF Dispatching, Mailing
<1>5. StepsWell'
  <2>1. \A m \in Letters, x \in Agents : mlBox'[x][m] = mlBox[x][m]
    BY <1>1, LetterTo
  <2> QED BY <2>1, StepsStay
<1>6. ClaimsWell'
  <2>1. ASSUME NEW x \in Agents \ {a}, NEW y \in Mails, Claiming(x, y)'
        PROVE  /\ y \in PseudoMails /\ mlPseudo'[y] = "claim"
               /\ y \in mlSeen'[x] /\ (y \notin mlKept'[x] => mlTold'[x][y] = 0) /\ x \in mlUp'
               /\ mlThread'[x]["poller"].at = "written" => mlBox'[x][y] # "none"
               /\ \A n \in Mails : Claiming(x, n)' => n = y
    <3>1. Claiming(x, y) /\ y # p
      BY <1>2, <2>1 DEF Holds
    <3>2. /\ y \in PseudoMails /\ mlPseudo[y] = "claim" /\ y \in mlSeen[x] /\ x \in mlUp
          /\ y \notin mlKept[x] => mlTold[x][y] = 0
          /\ mlThread[x]["poller"].at = "written" => mlBox[x][y] # "none"
          /\ \A n \in Mails : Claiming(x, n) => n = y
      BY <3>1 DEF ClaimsWell
    <3> QED BY <1>2, <2>1, <3>1, <3>2
  <2>2. ASSUME Claiming(a, p)'
        PROVE  /\ p \in PseudoMails /\ mlPseudo'[p] = "claim"
               /\ p \in mlSeen'[a] /\ (p \notin mlKept'[a] => mlTold'[a][p] = 0) /\ a \in mlUp'
               /\ mlThread'[a]["poller"].at = "written" => mlBox'[a][p] # "none"
               /\ \A n \in Mails : Claiming(a, n)' => n = p
    BY <2>2
  <2>3. \A y \in Mails : Claiming(a, y)' => y = p
    BY <1>3
  <2>4. ASSUME NEW x \in Agents, NEW y \in Mails, Claiming(x, y)'
        PROVE  /\ y \in PseudoMails /\ mlPseudo'[y] = "claim"
               /\ y \in mlSeen'[x] /\ (y \notin mlKept'[x] => mlTold'[x][y] = 0) /\ x \in mlUp'
               /\ mlThread'[x]["poller"].at = "written" => mlBox'[x][y] # "none"
               /\ \A n \in Mails : Claiming(x, n)' => n = y
    <3>1. CASE x = a
      <4>1. y = p
        BY <2>3, <2>4, <3>1
      <4> QED BY <2>2, <2>4, <3>1, <4>1
    <3>2. CASE x # a
      BY <2>1, <2>4, <3>2
    <3> QED BY <3>1, <3>2
  <2> QED BY <2>4 DEF ClaimsWell
<1>7. HeldAlone'
  <2>1. ASSUME NEW q \in PseudoMails, q # p
        PROVE  /\ \A x, y \in Agents : Holds(x, q)' /\ Holds(y, q)' => x = y
               /\ mlPseudo'[q] \in {"unwritten", "outbox"} => \A x \in Agents : ~Holds(x, q)'
               /\ mlPseudo'[q] = "sent" => \E x \in Agents : mlBox'[x][q] # "none"
    <3>1. q \in Mails /\ \A x \in Agents : Holds(x, q)' => Holds(x, q)
      BY <1>2, <1>3, <2>1, Apart
    <3>2. mlPseudo'[q] = mlPseudo[q] /\ \A x \in Agents : mlBox'[x][q] = mlBox[x][q]
      BY <2>1, <3>1
    <3> QED BY <2>1, <3>1, <3>2 DEF HeldAlone
  <2>2. /\ \A x, y \in Agents : Holds(x, p)' /\ Holds(y, p)' => x = y
        /\ mlPseudo'[p] \in {"unwritten", "outbox"} => \A x \in Agents : ~Holds(x, p)'
        /\ mlPseudo'[p] = "sent" => \E x \in Agents : mlBox'[x][p] # "none"
    BY <1>1, <1>2
  <2> QED
    <3>1. ASSUME NEW q \in PseudoMails
          PROVE  /\ \A x, y \in Agents : Holds(x, q)' /\ Holds(y, q)' => x = y
                 /\ mlPseudo'[q] \in {"unwritten", "outbox"} => \A x \in Agents : ~Holds(x, q)'
                 /\ mlPseudo'[q] = "sent" => \E x \in Agents : mlBox'[x][q] # "none"
      <4>1. CASE q = p
        BY <2>2, <4>1
      <4>2. CASE q # p
        BY <2>1, <4>2
      <4> QED BY <4>1, <4>2
    <3> QED BY <3>1 DEF HeldAlone
<1>8. LettersNew'
  <2>1. \A m \in Letters : m \in Mails /\ m # p
    BY <1>1, LetterTo
  <2>2. \A m \in mlMailman : m \in Letters /\ (Dispatching(m)' <=> Dispatching(m))
    BY <1>10, LetterTo DEF MlKinds
  <2> QED BY <2>1, <2>2, LettersStay DEF MlKinds
<1>9. ToldIsSeen'
  <2>1. ASSUME NEW x \in Agents, NEW y \in Mails, x # a \/ y # p, mlTold'[x][y] # 0,
               y \notin mlKept'[x]
        PROVE  /\ mlTold'[x][y] = 1 /\ ~Dispatching(y)' /\ mlBox'[x][y] # "none"
               /\ y \in PseudoMails => mlPseudo'[y] \notin {"unwritten", "outbox"}
               /\ x \in mlUp' /\ mlBox'[x][y] \in {"inbox", "partial"} => y \in mlSeen'[x]
    <3>1. y # p /\ mlTold'[x][y] = mlTold[x][y] /\ y \notin mlKept[x]
      <4>1. mlTold'[x][y] = mlTold[x][y] /\ y \notin mlKept[x]
        BY <1>1, <2>1
      <4>2. ASSUME y = p PROVE FALSE
        BY <1>1, <2>1, <4>1, <4>2 DEF ToldIsSeen, Holds
      <4> QED BY <4>1, <4>2
    <3>2. y \in PseudoMails => mlPseudo'[y] = mlPseudo[y]
      BY <3>1
    <3>3. mlTold[x][y] = 1 /\ ~Dispatching(y) /\ mlBox[x][y] # "none"
          /\ (y \in PseudoMails => mlPseudo[y] \notin {"unwritten", "outbox"})
          /\ (x \in mlUp /\ mlBox[x][y] \in {"inbox", "partial"} => y \in mlSeen[x])
      BY <2>1, <3>1 DEF ToldIsSeen
    <3>4. mlBox'[x][y] = mlBox[x][y] /\ (y \in mlSeen'[x] <=> y \in mlSeen[x])
      BY <3>1
    <3> QED BY <1>10, <3>1, <3>2, <3>3, <3>4
  <2>2. ~Dispatching(p)'
    BY <1>1, <1>10 DEF Dispatching, Mailing
  <2> QED BY <1>1, <2>1, <2>2 DEF ToldIsSeen
<1> QED BY <1>4, <1>5, <1>6, <1>7, <1>8, <1>9

LEMMA ClaimInv ==
  ASSUME MlInv, NEW a \in Agents, NEW p \in PseudoMails, MlClaim(a, p)
  PROVE  MlInv'
<1> DEFINE claim == [at |-> "claimed", mail |-> {p}, digest |-> {}]
<1> USE DEF MlInv
<1>1. p \in Mails /\ claim \in ThreadStates
  BY Apart DEF ThreadStates
<1>2. /\ mlPseudo[p] = "outbox" /\ mlPseudo' = [mlPseudo EXCEPT ![p] = "claim"]
      /\ mlSeen' = [mlSeen EXCEPT ![a] = @ \cup {p}]
      /\ MlGo(a, "poller", claim)
      /\ UNCHANGED <<mlUp, mlSent, mlFrom, mlPosted, mlOutbox, mlMailman, mlStep, mlBounced, mlKept,
                     mlRead, mlBox, mlTold>>
  BY DEF MlClaim, sendVars, postVars
<1>8. a \in mlUp
  BY DEF MlClaim, Idle
<1>3. \A x \in Agents : ~Holds(x, p) /\ (p \notin mlKept[x] => mlTold[x][p] = 0)
  BY <1>1, <1>2 DEF HeldAlone, ToldIsSeen
<1>4. /\ mlThread' \in [Agents -> [MailThreads -> ThreadStates]]
      /\ mlThread'[a]["poller"] = claim
      /\ \A x \in Agents \ {a} : mlThread'[x]["poller"] = mlThread[x]["poller"]
  BY <1>1, <1>2, GoAt DEF MailThreads
<1>5. ClaimFrame(a, p)
  <2>1. /\ mlPseudo' \in [PseudoMails -> {"unwritten", "outbox", "claim", "sent"}]
        /\ \A q \in PseudoMails \ {p} : mlPseudo'[q] = mlPseudo[q]
    BY <1>2 DEF MlKinds
  <2>2. /\ mlSeen' \in [Agents -> SUBSET Mails]
        /\ \A x \in Agents, y \in Mails : x # a \/ y # p => (y \in mlSeen'[x] <=> y \in mlSeen[x])
    BY <1>1, <1>2 DEF MlKinds
  <2> QED BY <1>2, <1>4, <2>1, <2>2 DEF ClaimFrame, MlKinds
<1>6. /\ mlPseudo'[p] = "claim" /\ p \in mlSeen'[a] /\ a \in mlUp
      /\ p \notin mlKept'[a] => mlTold'[a][p] = 0
  BY <1>1, <1>2, <1>3, <1>8 DEF MlKinds
<1>7. \A m \in Mails : Claiming(a, m)' => m = p
  BY <1>4 DEF Claiming
<1> QED BY <1>3, <1>4, <1>5, <1>6, <1>7, ClaimStep

\* A failure takes back what the claim has done, as far as that works.
LEMMA RollbackInv ==
  ASSUME MlInv, NEW a \in Agents, NEW p \in PseudoMails, Claiming(a, p), MlRollback(a, p),
         UNCHANGED <<mlUp, sendVars, postVars, mlRead, mlTold>>
  PROVE  MlInv'
<1> USE DEF MlInv
<1>1. /\ p \in Mails /\ mlPseudo[p] = "claim" /\ (p \notin mlKept[a] => mlTold[a][p] = 0)
      /\ \A x \in Agents \ {a} : ~Holds(x, p)
  BY Apart DEF ClaimsWell, HeldAlone, Holds
<1>2. PICK copy \in {"none", mlBox[a][p]}, place \in {"outbox", "claim"} :
        /\ MlFile(a, p, copy)
        /\ mlKept' = [mlKept EXCEPT ![a] = IF copy = "none" THEN @ ELSE @ \cup {p}]
        /\ mlPseudo' = [mlPseudo EXCEPT ![p] = place]
        /\ mlSeen' = [mlSeen EXCEPT ![a] = @ \ {p}]
        /\ MlGo(a, "poller", AtRest)
  BY DEF MlRollback
<1>3. UNCHANGED <<mlUp, mlSent, mlFrom, mlPosted, mlOutbox, mlMailman, mlStep, mlBounced, mlRead,
                  mlTold>>
  BY DEF sendVars, postVars
<1>4. /\ mlThread' \in [Agents -> [MailThreads -> ThreadStates]]
      /\ mlThread'[a]["poller"] = AtRest
      /\ \A x \in Agents \ {a} : mlThread'[x]["poller"] = mlThread[x]["poller"]
  BY <1>2, GoAt, States DEF MailThreads
<1>5. /\ mlBox' \in [Agents -> [Mails -> Folders]] /\ mlBox'[a][p] = copy
      /\ \A x \in Agents, y \in Mails : x # a \/ y # p => mlBox'[x][y] = mlBox[x][y]
  <2>1. copy \in Folders
    <3>1. mlBox[a][p] \in Folders
      BY <1>1 DEF MlKinds
    <3> QED BY <1>2, <3>1 DEF Folders
  <2> QED BY <1>1, <1>2, <2>1, FileAt
<1>6. /\ mlSeen' \in [Agents -> SUBSET Mails]
      /\ \A x \in Agents, y \in Mails : x # a \/ y # p => (y \in mlSeen'[x] <=> y \in mlSeen[x])
  BY <1>2 DEF MlKinds
<1>7. /\ mlPseudo' \in [PseudoMails -> {"unwritten", "outbox", "claim", "sent"}]
      /\ mlPseudo'[p] = place /\ \A q \in PseudoMails \ {p} : mlPseudo'[q] = mlPseudo[q]
  BY <1>2 DEF MlKinds
<1>11. /\ mlKept' \in [Agents -> SUBSET PseudoMails] /\ mlKept[a] \subseteq mlKept'[a]
       /\ \A x \in Agents, y \in Mails : x # a \/ y # p => (y \in mlKept'[x] <=> y \in mlKept[x])
       /\ copy # "none" => p \in mlKept'[a]
  BY <1>2 DEF MlKinds
<1>8. ClaimFrame(a, p)
  BY <1>3, <1>4, <1>5, <1>6, <1>7, <1>11 DEF ClaimFrame, MlKinds
<1>9. \A m \in Mails : ~Claiming(a, m)'
  BY <1>4 DEF Claiming, AtRest
<1>10. ~Holds(a, p)' /\ (p \notin mlKept'[a] => mlTold'[a][p] = 0)
  BY <1>1, <1>3, <1>5, <1>9, <1>11 DEF Holds
<1> QED BY <1>1, <1>7, <1>8, <1>9, <1>10, ClaimStep

LEMMA ClaimWriteInv ==
  ASSUME MlInv, NEW a \in Agents, NEW p \in PseudoMails, MlClaimWrite(a, p)
  PROVE  MlInv'
<1> DEFINE written == [mlThread[a]["poller"] EXCEPT !.at = "written"]
<1> USE DEF MlInv
<1>1. /\ Claiming(a, p) /\ p \in Mails
      /\ UNCHANGED <<mlUp, sendVars, postVars, mlRead, mlTold>>
  BY Apart DEF MlClaimWrite, Claiming
<1>2. CASE MlRollback(a, p)
  BY <1>1, <1>2, RollbackInv
<1>3. CASE /\ MlFile(a, p, "inbox") /\ MlGo(a, "poller", written)
           /\ UNCHANGED <<claimVars, mlSeen>>
  <2>1. /\ mlPseudo[p] = "claim" /\ p \in mlSeen[a] /\ a \in mlUp
        /\ p \notin mlKept[a] => mlTold[a][p] = 0
        /\ \A m \in Mails : Claiming(a, m) => m = p
        /\ \A x \in Agents \ {a} : ~Holds(x, p)
    BY <1>1 DEF ClaimsWell, HeldAlone, Holds
  <2>3. mlThread[a]["poller"] \in ThreadStates
    BY DEF MlKinds, MailThreads
  <2>4. written \in ThreadStates /\ written.mail = mlThread[a]["poller"].mail
    BY <2>3 DEF ThreadStates
  <2>5. /\ mlThread' \in [Agents -> [MailThreads -> ThreadStates]]
        /\ mlThread'[a]["poller"].mail = mlThread[a]["poller"].mail
        /\ \A x \in Agents \ {a} : mlThread'[x]["poller"] = mlThread[x]["poller"]
    BY <1>3, <2>4, GoAt DEF MailThreads
  <2>6. /\ mlBox' \in [Agents -> [Mails -> Folders]] /\ mlBox'[a][p] = "inbox"
        /\ \A x \in Agents, y \in Mails : x # a \/ y # p => mlBox'[x][y] = mlBox[x][y]
    BY <1>1, <1>3, FileAt DEF Folders
  <2>7. ClaimFrame(a, p)
    BY <1>1, <1>3, <2>5, <2>6 DEF ClaimFrame, MlKinds, sendVars, postVars, claimVars
  <2>8. \A m \in Mails : Claiming(a, m)' => m = p
    BY <1>1, <2>1, <2>5 DEF Claiming
  <2>9. /\ mlPseudo'[p] = "claim" /\ p \in mlSeen'[a] /\ mlBox'[a][p] # "none"
        /\ p \notin mlKept'[a] => mlTold'[a][p] = 0
    BY <1>1, <1>3, <2>1, <2>6 DEF claimVars
  <2> QED BY <2>1, <2>7, <2>8, <2>9, ClaimStep
<1> QED BY <1>2, <1>3 DEF MlClaimWrite

LEMMA ClaimCommitInv ==
  ASSUME MlInv, NEW a \in Agents, NEW p \in PseudoMails, MlClaimCommit(a, p)
  PROVE  MlInv'
<1> USE DEF MlInv
<1>1. /\ Claiming(a, p) /\ p \in Mails /\ mlThread[a]["poller"].at = "written"
      /\ UNCHANGED <<mlUp, sendVars, postVars, mlRead>>
  BY Apart DEF MlClaimCommit, Claiming
<1>2. CASE MlRollback(a, p) /\ UNCHANGED mlTold
  BY <1>1, <1>2, RollbackInv
<1>3. CASE /\ mlPseudo' = [mlPseudo EXCEPT ![p] = "sent"] /\ MlTell(a, p)
           /\ UNCHANGED <<mlKept, mlBox, mlSeen>>
  <2>1. /\ (p \notin mlKept[a] => mlTold[a][p] = 0) /\ p \in mlSeen[a] /\ mlBox[a][p] # "none"
        /\ \A x \in Agents \ {a} : ~Holds(x, p)
    BY <1>1 DEF ClaimsWell, HeldAlone, Holds
  <2>3. /\ mlThread' \in [Agents -> [MailThreads -> ThreadStates]]
        /\ mlThread'[a]["poller"].at = "compute"
        /\ \A x \in Agents \ {a} : mlThread'[x]["poller"] = mlThread[x]["poller"]
    BY <1>1, <1>3, GoAt, States DEF MlTell, Rendering, MailThreads
  <2>4. /\ mlPseudo' \in [PseudoMails -> {"unwritten", "outbox", "claim", "sent"}]
        /\ mlPseudo'[p] = "sent" /\ \A q \in PseudoMails \ {p} : mlPseudo'[q] = mlPseudo[q]
    BY <1>3 DEF MlKinds
  <2>5. /\ mlTold' \in [Agents -> [Mails -> Nat]] /\ (p \notin mlKept[a] => mlTold'[a][p] = 1)
        /\ \A x \in Agents, y \in Mails : x # a \/ y # p => mlTold'[x][y] = mlTold[x][y]
    <3>1. mlTold' = [mlTold EXCEPT ![a][p] = @ + 1]
      BY <1>3 DEF MlTell
    <3>2. /\ mlTold' \in [Agents -> [Mails -> Nat]] /\ mlTold'[a][p] = mlTold[a][p] + 1
          /\ \A x \in Agents, y \in Mails : x # a \/ y # p => mlTold'[x][y] = mlTold[x][y]
      BY <1>1, <3>1, TellAt
    <3> QED BY <2>1, <3>2
  <2>6. ClaimFrame(a, p)
    BY <1>1, <1>3, <2>3, <2>4, <2>5 DEF ClaimFrame, MlKinds, sendVars, postVars
  <2>7. \A m \in Mails : ~Claiming(a, m)'
    BY <2>3 DEF Claiming
  <2>8. p \in mlSeen'[a] /\ mlBox'[a][p] # "none"
    BY <1>3, <2>1
  <2> QED BY <1>1, <1>3, <2>1, <2>4, <2>5, <2>6, <2>7, <2>8, ClaimStep
<1> QED BY <1>2, <1>3 DEF MlClaimCommit

-----------------------------------------------------------------------------
(* Crash and boot *)

LEMMA CrashInv ==
  ASSUME MlInv, NEW a \in Agents, MlCrash(a)
  PROVE  MlInv'
<1> USE DEF MlInv
<1>1. /\ mlUp' = mlUp \ {a} /\ mlMailman' \subseteq mlMailman
      /\ mlThread' = [mlThread EXCEPT ![a] = [t \in MailThreads |-> AtRest]]
      /\ mlSeen' = [mlSeen EXCEPT ![a] = {}]
      /\ UNCHANGED <<mlSent, mlFrom, mlPosted, mlOutbox, mlStep, mlPseudo, mlKept, mlBox, mlRead,
                     mlTold, mlBounced>>
  BY DEF MlCrash, claimVars
<1>2. /\ mlThread' \in [Agents -> [MailThreads -> ThreadStates]]
      /\ mlThread'[a]["poller"] = AtRest
      /\ \A x \in Agents \ {a} : mlThread'[x]["poller"] = mlThread[x]["poller"]
  BY <1>1, States DEF MailThreads, MlKinds
<1>3. /\ mlSeen' \in [Agents -> SUBSET Mails]
      /\ \A x \in Agents \ {a} : mlSeen'[x] = mlSeen[x]
  BY <1>1 DEF MlKinds
<1>4. \A x \in Agents, y \in Mails :
        /\ Claiming(x, y)' => x # a /\ Claiming(x, y)
                              /\ mlThread'[x]["poller"] = mlThread[x]["poller"]
        /\ Holds(x, y)' => Holds(x, y)
  BY <1>1, <1>2 DEF Claiming, Holds, AtRest
<1>5. MlKinds'
  BY <1>1, <1>2, <1>3 DEF MlKinds
<1>6. StepsWell'
  BY <1>1, StepsStay
<1>7. ClaimsWell'
  BY <1>1, <1>3, <1>4 DEF ClaimsWell
<1>8. HeldAlone'
  BY <1>1, <1>4, Apart DEF HeldAlone
<1>9. LettersNew'
  BY <1>1 DEF LettersNew, Dispatching, Mailing
<1>10. ToldIsSeen'
  <2>1. ASSUME NEW x \in Agents, NEW m \in Mails, mlTold'[x][m] # 0, m \notin mlKept'[x]
        PROVE  /\ mlTold'[x][m] = 1 /\ ~Dispatching(m)' /\ mlBox'[x][m] # "none"
               /\ m \in PseudoMails => mlPseudo'[m] \notin {"unwritten", "outbox"}
               /\ x \in mlUp' /\ mlBox'[x][m] \in {"inbox", "partial"} => m \in mlSeen'[x]
    BY <1>1, <1>3, <2>1 DEF ToldIsSeen, Dispatching, Mailing
  <2> QED BY <2>1 DEF ToldIsSeen
<1> QED BY <1>5, <1>6, <1>7, <1>8, <1>9, <1>10

LEMMA BootInv ==
  ASSUME MlInv, NEW a \in Agents, MlBoot(a)
  PROVE  MlInv'
<1> USE DEF MlInv
<1>1. /\ mlUp' = mlUp \cup {a} /\ a \notin mlUp
      /\ mlSeen' = [mlSeen EXCEPT ![a] = InFolder(a, "inbox") \cup InFolder(a, "partial")]
      /\ UNCHANGED <<mlSent, mlFrom, mlPosted, mlOutbox, mlMailman, mlStep, mlBounced, mlPseudo, mlKept,
                     mlBox, mlRead, mlThread, mlTold>>
  BY DEF MlBoot, sendVars, postVars, claimVars
<1>2. /\ mlSeen' \in [Agents -> SUBSET Mails]
      /\ \A x \in Agents \ {a} : mlSeen'[x] = mlSeen[x]
      /\ \A m \in Mails : mlBox[a][m] \in {"inbox", "partial"} => m \in mlSeen'[a]
  BY <1>1 DEF MlKinds, InFolder
<1>3. \A m \in Mails : ~Claiming(a, m)
  BY <1>1 DEF ClaimsWell
<1>4. \A x \in Agents, y \in Mails : (Claiming(x, y)' <=> Claiming(x, y)) /\ (Holds(x, y)' <=> Holds(x, y))
  BY <1>1 DEF Claiming, Holds
<1>5. MlKinds'
  BY <1>1, <1>2 DEF MlKinds
<1>6. StepsWell'
  BY <1>1, StepsStay
<1>7. ClaimsWell'
  BY <1>1, <1>2, <1>3, <1>4 DEF ClaimsWell
<1>8. HeldAlone'
  BY <1>1, <1>4, Apart DEF HeldAlone
<1>9. LettersNew'
  BY <1>1 DEF LettersNew, Dispatching, Mailing
<1>10. ToldIsSeen'
  <2>1. ASSUME NEW x \in Agents, NEW m \in Mails, mlTold'[x][m] # 0, m \notin mlKept'[x]
        PROVE  /\ mlTold'[x][m] = 1 /\ ~Dispatching(m)' /\ mlBox'[x][m] # "none"
               /\ m \in PseudoMails => mlPseudo'[m] \notin {"unwritten", "outbox"}
               /\ x \in mlUp' /\ mlBox'[x][m] \in {"inbox", "partial"} => m \in mlSeen'[x]
    BY <1>1, <1>2, <2>1 DEF ToldIsSeen, Dispatching, Mailing
  <2> QED BY <2>1 DEF ToldIsSeen
<1> QED BY <1>5, <1>6, <1>7, <1>8, <1>9, <1>10

-----------------------------------------------------------------------------
LEMMA MlNextInv == MlInv /\ [MlNext]_mlVars => MlInv'
<1> SUFFICES ASSUME MlInv, [MlNext]_mlVars PROVE MlInv'
  OBVIOUS
<1>1. CASE UNCHANGED mlVars
  BY <1>1 DEF mlVars, MlInv, MlKinds, StepsWell, Arrived, ClaimsWell, HeldAlone, Holds, Claiming,
              LettersNew, ToldIsSeen, Dispatching, Mailing
<1>2. CASE MlActor
  BY <1>2, SendInv, ToolInv, PersonInv DEF MlActor
<1>3. ASSUME NEW m \in Letters, MlMailman(m) PROVE MlInv'
  BY <1>3, MailmanInv
<1>4. ASSUME NEW a \in Agents, MlPoller(a) \/ MlTool(a) \/ MlCrash(a) \/ MlBoot(a) PROVE MlInv'
  <2>1. "poller" \in MailThreads /\ "tool" \in MailThreads
    BY DEF MailThreads
  <2> QED BY <1>4, <2>1, PollInv, ClaimInv, ClaimWriteInv, ClaimCommitInv, DigestInv, CrashInv,
             BootInv DEF MlPoller, MlTool
<1> QED BY <1>1, <1>2, <1>3, <1>4 DEF MlNext

LEMMA MlSpecInv == MlSpec => []MlInv
BY MlInitInv, MlNextInv, PTL DEF MlSpec

\* A letter is in its sender's outbox, or with its recipient, or its sender was told
\* of the bounce, whatever fails or crashes: but for one whose mailman stands or died
\* between the removal of the outbox entry and the bounce (_mailman).
THEOREM LettersAccounted == MlSpec => []Accounted
<1>1. MlInv => Accounted
  BY StepsAccount DEF MlInv
<1> QED BY <1>1, MlSpecInv, PTL

\* A person's mail is with at most one agent, for any number of pollers that race
\* for it, of failures and of crashes; with one when it is recorded as sent, and
\* with none while it waits in the outbox (_poll_pseudo_outbox); the copies that
\* roll-backs left aside.
THEOREM OnceClaimed == MlSpec => []ClaimedOnce
<1>1. MlInv => ClaimedOnce
  <2> SUFFICES ASSUME MlInv, NEW p \in PseudoMails
               PROVE  LET holders == {a \in Agents : mlBox[a][p] # "none" /\ p \notin mlKept[a]}
                      IN /\ Cardinality(holders) <= 1
                         /\ mlPseudo[p] = "sent" => \E a \in Agents : mlBox[a][p] # "none"
                         /\ mlPseudo[p] = "outbox" => holders = {}
    BY DEF ClaimedOnce
  <2> DEFINE holders == {a \in Agents : mlBox[a][p] # "none" /\ p \notin mlKept[a]}
  <2>1. /\ \A a, b \in holders : a = b
        /\ mlPseudo[p] = "sent" => \E a \in Agents : mlBox[a][p] # "none"
        /\ mlPseudo[p] = "outbox" => holders = {}
    BY DEF MlInv, HeldAlone, Holds
  <2>2. Cardinality(holders) <= 1
    <3>1. CASE holders = {}
      BY <3>1, FS_EmptySet
    <3>2. CASE holders # {}
      <4>1. PICK a \in holders : TRUE
        BY <3>2
      <4>2. holders = {a}
        BY <2>1, <4>1
      <4>3. Cardinality({a}) = 1
        BY FS_Singleton
      <4> QED BY <4>2, <4>3
    <3> QED BY <3>1, <3>2
  <2> QED BY <2>1, <2>2
<1> QED BY <1>1, MlSpecInv, PTL

\* on_message is called once at most for a mail at an agent, though the poller
\* forgets what it has seen in a crash and in a roll-back (_seen, listen), unless
\* that roll-back left the agent a copy.
THEOREM OnceAnnounced == MlSpec => []AnnouncedToOne
<1>1. MlInv => AnnouncedToOne
  <2> SUFFICES ASSUME MlInv, NEW a \in Agents, NEW m \in Mails \ mlKept[a] PROVE mlTold[a][m] <= 1
    BY DEF AnnouncedToOne
  <2>1. mlTold[a][m] \in Nat /\ (mlTold[a][m] # 0 => mlTold[a][m] = 1)
    BY DEF MlInv, MlKinds, ToldIsSeen
  <2> QED BY <2>1
<1> QED BY <1>1, MlSpecInv, PTL

-----------------------------------------------------------------------------
(* ChatBridge                                                              *)

\* The messages of the fetch at hand, which follow each other.
Batch == {brBatch[i] : i \in DOMAIN brBatch}
InOrder == /\ brBatch \in Seq(Nat)
           /\ \A i \in 1..Len(brBatch) : brBatch[i] = brBatch[1] + i - 1

BrForms ==
  /\ brKind \in AllKinds /\ brPosted \in 0..Cardinality(Msgs)
  /\ brCursor \in 0..brPosted /\ brMem \in brCursor..brPosted /\ brUpto \in 0..brPosted
  /\ brSeeded \in BOOLEAN
  /\ InOrder /\ Batch \subseteq 1..brPosted /\ (brBatch = <<>> <=> brAt \in {"idle", "checkpoint"})
  /\ brStored \in [Msgs -> Nat] /\ brPushes \in [Msgs -> Nat]
  /\ \A m \in Msgs : m > brPosted => brStored[m] = 0 /\ brPushes[m] = 0
  /\ brSeenDisk \subseteq brSeen /\ brSeen \subseteq 1..brPosted
  /\ brAcked \subseteq 1..brPosted /\ brMissed \subseteq 1..brPosted /\ brOld \subseteq 1..brPosted
  /\ brPage \in Nat \ {0}
  /\ brKind # "cloud_mail" => brOld = {} /\ brMissed = {}

\* telegram and imap: what is not past the cursor, or is in the batch, was not
\* pushed; telegram has the cursor at the first of its batch once it is marked.
MarkedFirst ==
  brKind \in {"telegram", "imap"} =>
    /\ \A m \in Msgs : /\ brPushes[m] <= 1
                       /\ m > brCursor \/ m \in Batch => brPushes[m] = 0
    /\ brKind = "imap" => brAt \in {"idle", "push"} /\ Batch \subseteq 1..brCursor
    /\ brKind = "telegram" =>
         /\ brAt \in {"idle", "mark", "store", "push"}
         /\ brAt = "mark" => brBatch[1] = brCursor + 1
         /\ brAt \in {"store", "push"} => brBatch[1] = brCursor

\* wechat: what the cursor, a replay key or the progress in the batch passes over
\* is in the store, and a key is on disk before the push.
StoredFirst ==
  brKind = "wechat" =>
    /\ brAt \in {"idle", "store", "seen", "push", "checkpoint"}
    /\ \A m \in 1..brMem : brStored[m] > 0
    /\ \A m \in brSeen : brStored[m] > 0
    /\ brAt # "idle" => /\ Batch \subseteq 1..brUpto /\ brMem <= brUpto
                        /\ \A m \in (1..brUpto) \ Batch : brStored[m] > 0
    /\ brAt \in {"seen", "push"} => brStored[brBatch[1]] > 0 /\ brPushes[brBatch[1]] = 0
    /\ brAt = "seen" => brBatch[1] \notin brSeen
    /\ brAt = "push" => brBatch[1] \in brSeenDisk
    /\ \A m \in Msgs : brPushes[m] <= 1 /\ (brPushes[m] = 1 => m \in brSeenDisk)

\* cloud_mail: the watermark passes over what was pushed, or hidden by a full
\* page, or there before the first poll.
PushedFirst ==
  brKind = "cloud_mail" =>
    /\ brAt \in {"idle", "push", "checkpoint"}
    /\ ~brSeeded => brAt = "idle" /\ brOld = {} /\ brMissed = {} /\ brCursor = 0
    /\ brOld \subseteq 1..brCursor
    /\ \A m \in Batch : m > brCursor /\ m \notin brMissed
    /\ \A m \in 1..brCursor : brPushes[m] > 0 \/ m \in brMissed \cup brOld
    /\ brAt # "idle" => /\ Batch \subseteq 1..brUpto /\ brCursor <= brUpto
                        /\ \A m \in (1..brUpto) \ Batch : brPushes[m] > 0 \/ m \in brMissed \cup brOld
    /\ \A m \in brMissed : m <= brCursor \/ m <= brPosted - brPage
    /\ brPage >= Cardinality(Msgs) => brMissed = {}

\* feishu, whatsapp: one message at a time, not answered yet; whatsapp answers
\* what it has stored.
AnsweredLast ==
  brKind \in {"feishu", "whatsapp"} =>
    /\ brAt \in {"idle", "store", "push", "ack"} /\ Len(brBatch) <= 1
    /\ Batch \cap brAcked = {}
    /\ brKind = "whatsapp" =>
         /\ \A m \in brAcked : brStored[m] > 0
         /\ brAt \in {"push", "ack"} => brStored[brBatch[1]] > 0

BrInv == BrForms /\ MarkedFirst /\ StoredFirst /\ PushedFirst /\ AnsweredLast

-----------------------------------------------------------------------------
(* Messages and batches *)

LEMMA MsgNumbers ==
  Cardinality(Msgs) \in Nat /\ Msgs = 1..Cardinality(Msgs) /\ Msgs \subseteq Nat \ {0}
BY BridgeAssumption, InboxAssumption, FS_CardinalityType

\* A sequence of numbers that follow each other has the interval of its ends.
LEMMA Runs ==
  ASSUME NEW s \in Seq(Nat), s # <<>>, \A i \in 1..Len(s) : s[i] = s[1] + i - 1
  PROVE  /\ {s[i] : i \in DOMAIN s} = s[1]..(s[1] + Len(s) - 1)
         /\ s[1] \in Nat /\ Len(s) \in Nat \ {0} /\ s[1] \in {s[i] : i \in DOMAIN s}
<1>1. Len(s) \in Nat \ {0} /\ DOMAIN s = 1..Len(s)
  OBVIOUS
<1>2. 1 \in DOMAIN s
  BY <1>1
<1>3. s[1] \in Nat
  BY <1>1, <1>2
<1>4. ASSUME NEW n \in {s[i] : i \in DOMAIN s} PROVE n \in s[1]..(s[1] + Len(s) - 1)
  <2>1. PICK i \in 1..Len(s) : n = s[i]
    BY <1>1, <1>4
  <2>2. n = s[1] + i - 1
    BY <2>1
  <2> QED BY <1>1, <1>3, <2>2
<1>5. ASSUME NEW n \in s[1]..(s[1] + Len(s) - 1) PROVE n \in {s[i] : i \in DOMAIN s}
  <2>3. n \in Int /\ s[1] <= n /\ n <= s[1] + Len(s) - 1
    BY <1>1, <1>3, <1>5
  <2>4. PICK f \in Nat, l \in Nat : f = s[1] /\ l = Len(s)
    BY <1>1, <1>3
  <2>5. f <= n /\ n <= f + l - 1
    BY <2>3, <2>4
  <2>6. n - f + 1 \in 1..l
    BY <2>3, <2>5
  <2>1. n - s[1] + 1 \in 1..Len(s)
    BY <2>4, <2>6
  <2>2. s[n - s[1] + 1] = n
    BY <1>3, <2>1, <2>3
  <2> QED BY <1>1, <2>1, <2>2
<1> QED BY <1>1, <1>2, <1>3, <1>4, <1>5

LEMMA BatchEnds ==
  ASSUME InOrder, brBatch # <<>>
  PROVE  /\ brBatch[1] \in Batch /\ Batch = brBatch[1]..(brBatch[1] + Len(brBatch) - 1)
         /\ brBatch[1] \in Nat /\ Len(brBatch) \in Nat \ {0}
BY Runs DEF InOrder, Batch

LEMMA BatchTail ==
  ASSUME InOrder, brBatch # <<>>, brBatch' = Tail(brBatch)
  PROVE  /\ InOrder' /\ Batch' = Batch \ {brBatch[1]}
         /\ Len(brBatch) > 1 => brBatch' # <<>> /\ brBatch'[1] = brBatch[1] + 1
         /\ ~(Len(brBatch) > 1) => brBatch' = <<>>
<1>1. Len(brBatch) \in Nat \ {0} /\ brBatch[1] \in Nat
  BY BatchEnds
<1>2. /\ brBatch' \in Seq(Nat) /\ Len(brBatch') = Len(brBatch) - 1
      /\ \A i \in 1..Len(brBatch') : brBatch'[i] = brBatch[i + 1]
  BY <1>1 DEF InOrder
<1>3. \A i \in 1..Len(brBatch') : brBatch'[i] = brBatch[1] + i
  BY <1>1, <1>2 DEF InOrder
<1>4. InOrder'
  BY <1>1, <1>2, <1>3 DEF InOrder
<1>5. Batch = brBatch[1]..(brBatch[1] + Len(brBatch) - 1)
  BY BatchEnds
<1>6. CASE Len(brBatch) > 1
  <2>1. Len(brBatch') \in Nat /\ Len(brBatch') >= 1
    BY <1>1, <1>2, <1>6
  <2>2. 1 \in 1..Len(brBatch')
    BY <2>1
  <2>3. brBatch' # <<>> /\ brBatch'[1] = brBatch[1] + 1
    <3>1. brBatch'[1] = brBatch[1] + 1
      BY <1>3, <2>2
    <3>2. brBatch' # <<>>
      <4>1. Len(<<>>) = 0
        OBVIOUS
      <4> QED BY <2>1, <4>1
    <3> QED BY <3>1, <3>2
  <2>4. Batch' = brBatch'[1]..(brBatch'[1] + Len(brBatch') - 1)
    BY <1>4, <2>3, Runs DEF InOrder, Batch
  <2>5. Batch' = (brBatch[1] + 1)..(brBatch[1] + Len(brBatch) - 1)
    BY <1>1, <1>2, <2>3, <2>4
  <2>6. Batch' = Batch \ {brBatch[1]}
    BY <1>1, <1>5, <2>5
  <2> QED BY <1>4, <1>6, <2>3, <2>6
<1>7. CASE ~(Len(brBatch) > 1)
  <2>1. Len(brBatch) = 1
    BY <1>1, <1>7
  <2>2. Len(brBatch') = 0
    BY <1>2, <2>1
  <2>3. brBatch' = <<>>
    BY <1>2, <2>2
  <2>4. Batch' = {}
    BY <2>3 DEF Batch
  <2>5. Batch = {brBatch[1]}
    BY <1>1, <1>5, <2>1
  <2> QED BY <1>4, <1>7, <2>3, <2>4, <2>5
<1> QED BY <1>6, <1>7

LEMMA BatchFrom ==
  ASSUME brPosted \in Nat, NEW lo \in 0..brPosted, lo < brPosted, brBatch' = BrFrom(lo)
  PROVE  /\ InOrder' /\ brBatch' # <<>> /\ brBatch'[1] = lo + 1
         /\ Batch' = (lo + 1)..brPosted
<1>1. /\ brBatch' \in Seq(Nat) /\ Len(brBatch') = brPosted - lo
      /\ \A i \in 1..(brPosted - lo) : brBatch'[i] = lo + i
  BY DEF BrFrom
<1>2. DOMAIN brBatch' = 1..(brPosted - lo)
  BY DEF BrFrom
<1>3. InOrder' /\ brBatch' # <<>> /\ brBatch'[1] = lo + 1
  BY <1>1 DEF InOrder
<1>4. ASSUME NEW n \in Batch' PROVE n \in (lo + 1)..brPosted
  BY <1>1, <1>2, <1>4 DEF Batch
<1>5. ASSUME NEW n \in (lo + 1)..brPosted PROVE n \in Batch'
  <2>1. n - lo \in 1..(brPosted - lo) /\ brBatch'[n - lo] = n
    BY <1>1
  <2> QED BY <1>2, <2>1 DEF Batch
<1> QED BY <1>3, <1>4, <1>5

LEMMA BatchOne ==
  ASSUME NEW m \in Nat, brBatch' = <<m>>
  PROVE  InOrder' /\ brBatch' # <<>> /\ brBatch'[1] = m /\ Batch' = {m} /\ Len(brBatch') = 1
BY DEF InOrder, Batch

LEMMA BatchNone ==
  ASSUME brBatch' = <<>>
  PROVE  InOrder' /\ Batch' = {} /\ Len(brBatch') = 0
BY DEF InOrder, Batch

-----------------------------------------------------------------------------
(* Steps of the abstract channel *)

ContractStep == [Contract!Next]_(Contract!vars)

LEMMA FateSame ==
  ASSUME NEW m \in Msgs, Sent(m)' <=> Sent(m), Copies'[m] = Copies[m],
         Sent(m) /\ ~(Copies[m] > 0) => (Gone(m)' <=> Gone(m))
  PROVE  Fate'[m] = Fate[m]
BY DEF Fate

LEMMA FateUpdate ==
  ASSUME NEW m \in Msgs, NEW v, Fate'[m] = v, \A x \in Msgs \ {m} : Fate'[x] = Fate[x]
  PROVE  Fate' = [Fate EXCEPT ![m] = v]
<1>1. DOMAIN Fate = Msgs /\ DOMAIN Fate' = Msgs
  BY DEF Fate
<1>2. Fate = [x \in Msgs |-> Fate[x]] /\ Fate' = [x \in Msgs |-> Fate'[x]]
  BY DEF Fate
<1> QED BY <1>1, <1>2

LEMMA Rests ==
  ASSUME Promise' = Promise,
         \A m \in Msgs : /\ Sent(m)' <=> Sent(m)
                         /\ Copies'[m] = Copies[m]
                         /\ Sent(m) /\ ~(Copies[m] > 0) => (Gone(m)' <=> Gone(m))
  PROVE  ContractStep
<1>1. \A m \in Msgs : Fate'[m] = Fate[m]
  BY FateSame
<1>2. Fate' = Fate
  BY <1>1 DEF Fate
<1>3. Copies' = Copies
  BY DEF Copies
<1> QED BY <1>2, <1>3 DEF ContractStep, Contract!vars

LEMMA Loses ==
  ASSUME Promise' = Promise, Promise # "at_least_once",
         \A m \in Msgs : /\ Sent(m)' <=> Sent(m)
                         /\ Copies'[m] = Copies[m] /\ Copies[m] \in Nat
                         /\ Sent(m) /\ Copies[m] = 0 /\ Gone(m) => Gone(m)'
  PROVE  ContractStep
<1> DEFINE gone == {m \in Msgs : Sent(m) /\ Copies[m] = 0 /\ ~Gone(m) /\ Gone(m)'}
<1>1. CASE gone = {}
  BY <1>1, Rests
<1>2. CASE gone # {}
  <2>1. \A m \in gone : Fate[m] = "waiting" /\ Fate'[m] = "lost"
    BY DEF Fate
  <2>2. \A m \in Msgs \ gone : Fate'[m] = Fate[m]
    BY FateSame
  <2>3. gone \in (SUBSET {m \in Msgs : Fate[m] = "waiting"}) \ {{}}
    BY <1>2, <2>1
  <2>4. Fate' = [m \in Msgs |-> IF m \in gone THEN "lost" ELSE Fate[m]]
    BY <2>1, <2>2 DEF Fate
  <2>5. Copies' = Copies
    BY DEF Copies
  <2> QED BY <2>3, <2>4, <2>5 DEF ContractStep, Contract!Next, Contract!Lose
<1> QED BY <1>1, <1>2

LEMMA Hands ==
  ASSUME Promise' = Promise, NEW m \in Msgs, Sent(m), Copies[m] \in Nat,
         Copies'[m] = Copies[m] + 1, Copies[m] = 0 => ~Gone(m),
         Copies[m] # 0 => Promise # "at_most_once",
         \A x \in Msgs : Sent(x)' <=> Sent(x),
         \A x \in Msgs \ {m} : /\ Copies'[x] = Copies[x]
                               /\ Sent(x) /\ ~(Copies[x] > 0) => (Gone(x)' <=> Gone(x))
  PROVE  ContractStep
<1>1. \A x \in Msgs \ {m} : Fate'[x] = Fate[x]
  BY FateSame
<1>2. Fate'[m] = "handed"
  BY DEF Fate
<1>3. Fate' = [Fate EXCEPT ![m] = "handed"]
  BY <1>1, <1>2, FateUpdate
<1>4. CASE Copies[m] = 0
  <2>1. Fate[m] = "waiting"
    BY <1>4 DEF Fate
  <2>3. Copies'[m] = 1
    BY <1>4
  <2>2. Copies' = [Copies EXCEPT ![m] = 1]
    BY <2>3 DEF Copies
  <2> QED BY <1>3, <2>1, <2>2 DEF ContractStep, Contract!Next, Contract!Hand
<1>5. CASE Copies[m] # 0
  <2>1. Fate[m] = "handed"
    BY <1>5 DEF Fate
  <2>2. Copies' = [Copies EXCEPT ![m] = @ + 1]
    BY DEF Copies
  <2>3. Fate' = Fate
    BY <1>3, <2>1 DEF Fate
  <2> QED BY <1>5, <2>1, <2>2, <2>3 DEF ContractStep, Contract!Next, Contract!Repeat
<1> QED BY <1>4, <1>5

LEMMA Arrives ==
  ASSUME Promise' = Promise, NEW m \in Msgs, ~Sent(m), Sent(m)', Copies[m] = 0, Copies'[m] = 0,
         ~Gone(m)',
         \A x \in Msgs \ {m} : /\ Sent(x)' <=> Sent(x)
                               /\ Copies'[x] = Copies[x]
                               /\ Sent(x) /\ ~(Copies[x] > 0) => (Gone(x)' <=> Gone(x))
  PROVE  ContractStep
<1>1. \A x \in Msgs \ {m} : Fate'[x] = Fate[x]
  BY FateSame
<1>2. Fate[m] = "unsent" /\ Fate'[m] = "waiting"
  BY DEF Fate
<1>3. Fate' = [Fate EXCEPT ![m] = "waiting"]
  BY <1>1, <1>2, FateUpdate
<1>4. Copies' = Copies
  BY DEF Copies
<1> QED BY <1>2, <1>3, <1>4 DEF ContractStep, Contract!Next, Contract!Arrive

-----------------------------------------------------------------------------
\* A call of push_inbox_event for one message, or one put into the store.
PushedOne(m) ==
  /\ m \in Msgs /\ m <= brPosted /\ Sent(m)
  /\ brPushes' \in [Msgs -> Nat] /\ brPushes'[m] = brPushes[m] + 1
  /\ \A x \in Msgs \ {m} : brPushes'[x] = brPushes[x]
StoredOne(m) ==
  /\ m \in Msgs /\ m <= brPosted /\ Sent(m)
  /\ brStored' \in [Msgs -> Nat] /\ brStored'[m] = brStored[m] + 1
  /\ \A x \in Msgs \ {m} : brStored'[x] = brStored[x]

LEMMA PushedForms ==
  ASSUME BrForms, NEW h, PushedOne(h)
  PROVE  brPushes' \in [Msgs -> Nat] /\ \A m \in Msgs : m > brPosted => brPushes'[m] = 0
<1>1. ASSUME NEW m \in Msgs, m > brPosted PROVE brPushes'[m] = 0
  <2>1. m \in Nat /\ h \in Nat /\ brPosted \in Nat /\ h <= brPosted
    BY MsgNumbers DEF PushedOne, BrForms
  <2>2. m # h
    BY <1>1, <2>1
  <2>3. brPushes[m] = 0
    BY <1>1 DEF BrForms
  <2> QED BY <1>1, <2>2, <2>3 DEF PushedOne
<1> QED BY <1>1 DEF PushedOne

LEMMA HeadSent ==
  ASSUME BrInv, brBatch # <<>>
  PROVE  brBatch[1] \in Msgs /\ brBatch[1] \in 1..brPosted /\ Sent(brBatch[1])
<1> DEFINE h == brBatch[1]
<1>1. h \in Batch /\ h \in 1..brPosted /\ brPosted \in Nat
  BY BatchEnds, MsgNumbers DEF BrInv, BrForms
<1>2. h \in Msgs /\ h <= brPosted
  BY <1>1, MsgNumbers DEF BrInv, BrForms
<1>3. h \notin brOld
  <2>1. CASE brKind # "cloud_mail"
    BY <2>1 DEF BrInv, BrForms
  <2>2. CASE brKind = "cloud_mail"
    <3>1. h > brCursor /\ brOld \subseteq 1..brCursor
      BY <1>1, <2>2 DEF BrInv, PushedFirst
    <3>2. brCursor \in Nat
      BY <1>1 DEF BrInv, BrForms
    <3> QED BY <1>1, <3>1, <3>2
  <2> QED BY <2>1, <2>2
<1>4. brKind = "cloud_mail" => brSeeded
  BY DEF BrInv, BrForms, PushedFirst
<1> HIDE DEF h
<1>5. Sent(h)
  BY <1>2, <1>3, <1>4 DEF Sent
<1> QED BY <1>1, <1>2, <1>5 DEF h

LEMMA HeadPushed ==
  ASSUME BrInv, brBatch # <<>>, brPushes' = [brPushes EXCEPT ![brBatch[1]] = @ + 1]
  PROVE  PushedOne(brBatch[1])
BY HeadSent DEF BrInv, BrForms, PushedOne

LEMMA HeadStored ==
  ASSUME BrInv, brBatch # <<>>, BrStore
  PROVE  StoredOne(brBatch[1])
BY HeadSent DEF BrInv, BrForms, StoredOne, BrStore, Head0

-----------------------------------------------------------------------------
(* telegram *)

LEMMA TelegramSteps ==
  ASSUME BrInv, brKind = "telegram",
         TelegramFetch \/ TelegramMark \/ TelegramStore \/ TelegramPush
  PROVE  BrInv' /\ ContractStep
<1> USE MsgNumbers DEF BrInv
<1>1. /\ UNCHANGED <<brKind, brPosted, brSeeded, brPage, brOld, brMissed, brSeen, brSeenDisk,
                     brAcked, brUpto>>
      /\ Promise' = Promise /\ Promise = "at_most_once"
      /\ \A m \in Msgs : Sent(m)' <=> Sent(m)
      /\ \A m \in Msgs : Copies[m] = brPushes[m] /\ Copies'[m] = brPushes'[m]
      /\ \A m \in Msgs : (Gone(m) <=> m \notin Batch /\ m <= brCursor)
      /\ \A m \in Msgs : (Gone(m)' <=> m \notin Batch' /\ m <= brCursor')
  BY DEF TelegramFetch, TelegramMark, TelegramStore, TelegramPush, BrFetched, BrPush, cursorVars,
         keepVars, Promise, Sent, Copies, Gone, Batch, BrForms
<1>2. CASE TelegramFetch
  <2>1. /\ brAt = "idle" /\ brAt' = "mark" /\ brBatch' = BrFrom(brCursor) /\ brBatch' # <<>>
        /\ UNCHANGED <<brCursor, brMem, brStored, brPushes>>
    BY <1>2 DEF TelegramFetch, BrFetched, cursorVars, keepVars
  <2>2. brCursor \in 0..brPosted /\ brPosted \in Nat /\ Batch = {}
    BY <2>1 DEF BrForms, Batch
  <2>3. brCursor < brPosted
    BY <2>1, <2>2 DEF BrFrom
  <2>4. InOrder' /\ Batch' = (brCursor + 1)..brPosted /\ brBatch'[1] = brCursor + 1
    BY <2>1, <2>2, <2>3, BatchFrom
  <2>5. BrForms'
    BY <1>1, <2>1, <2>2, <2>4 DEF BrForms
  <2>6. MarkedFirst'
    BY <1>1, <2>1, <2>2, <2>4 DEF MarkedFirst
  <2>7. ContractStep
    BY <1>1, <2>1, <2>2, <2>4, Rests
  <2> QED BY <1>1, <2>5, <2>6, <2>7 DEF StoredFirst, PushedFirst, AnsweredLast
<1>3. CASE TelegramMark
  <2>1. /\ brAt = "mark" /\ brAt' = "store" /\ brCursor' = brBatch[1] /\ brMem' = brBatch[1]
        /\ UNCHANGED <<brBatch, brStored, brPushes>>
    BY <1>3 DEF TelegramMark, keepVars, Head0
  <2>2. brBatch' # <<>> /\ InOrder' /\ Batch' = Batch /\ brCursor' = brCursor + 1
        /\ brCursor' \in Batch /\ brCursor \in Nat
    BY <2>1, BatchEnds DEF BrForms, MarkedFirst, InOrder, Batch
  <2>3. BrForms'
    BY <1>1, <2>1, <2>2 DEF BrForms
  <2>4. MarkedFirst'
    BY <1>1, <2>1, <2>2 DEF MarkedFirst
  <2>5. \A m \in Msgs : Gone(m)' <=> Gone(m)
    BY <1>1, <2>2
  <2>6. ContractStep
    BY <1>1, <2>1, <2>5, Rests
  <2> QED BY <1>1, <2>3, <2>4, <2>6 DEF StoredFirst, PushedFirst, AnsweredLast
<1>4. CASE TelegramStore
  <2>1. brAt = "store" /\ UNCHANGED <<brCursor, brMem, brPushes>> /\ brBatch # <<>>
    BY <1>4 DEF TelegramStore, cursorVars, BrForms
  <2>2. CASE BrStore /\ brAt' = "push" /\ UNCHANGED brBatch
    <3>1. InOrder' /\ Batch' = Batch
      BY <2>2 DEF BrForms, InOrder, Batch
    <3>2. /\ brStored' \in [Msgs -> Nat]
          /\ \A m \in Msgs : m > brPosted => brStored'[m] = 0
      BY <2>1, <2>2, BatchEnds DEF BrStore, Head0, BrForms
    <3>3. BrForms'
      BY <1>1, <2>1, <2>2, <3>1, <3>2 DEF BrForms
    <3>4. MarkedFirst'
      BY <1>1, <2>1, <2>2, <3>1 DEF MarkedFirst
    <3>5. ContractStep
      BY <1>1, <2>1, <3>1, Rests
    <3> QED BY <1>1, <3>3, <3>4, <3>5 DEF StoredFirst, PushedFirst, AnsweredLast
  <2>3. CASE brBatch' = <<>> /\ brAt' = "idle" /\ UNCHANGED brStored
    <3>1. InOrder' /\ Batch' = {}
      BY <2>3, BatchNone
    <3>2. BrForms'
      BY <1>1, <2>1, <2>3, <3>1 DEF BrForms
    <3>3. MarkedFirst'
      BY <1>1, <2>1, <2>3, <3>1 DEF MarkedFirst
    <3>4. ContractStep
      BY <1>1, <2>1, <3>1, Loses DEF BrForms
    <3> QED BY <1>1, <3>2, <3>3, <3>4 DEF StoredFirst, PushedFirst, AnsweredLast
  <2> QED BY <1>4, <2>2, <2>3 DEF TelegramStore
<1>5. CASE TelegramPush
  <2>1. /\ brAt = "push" /\ brBatch # <<>> /\ UNCHANGED <<brCursor, brMem, brStored>>
        /\ brPushes' = [brPushes EXCEPT ![brBatch[1]] = @ + 1]
        /\ brBatch' = Tail(brBatch)
        /\ brAt' = IF Len(brBatch) > 1 THEN "mark" ELSE "idle"
    BY <1>5 DEF TelegramPush, BrPush, BrNextMsg, Head0, cursorVars, keepVars, BrForms
  <2>2. PushedOne(brBatch[1])
    BY <1>1, <2>1, HeadPushed
  <2>3. /\ InOrder' /\ Batch' = Batch \ {brBatch[1]}
        /\ Len(brBatch) > 1 => brBatch' # <<>> /\ brBatch'[1] = brBatch[1] + 1
        /\ ~(Len(brBatch) > 1) => brBatch' = <<>>
    BY <2>1, BatchTail DEF BrForms
  <2>8. /\ \A m \in Msgs : m > brPosted => brPushes'[m] = 0
        /\ brPushes' \in [Msgs -> Nat] /\ (brBatch' = <<>> <=> brAt' \in {"idle", "checkpoint"})
    BY <2>1, <2>2, <2>3, PushedForms
  <2>4. BrForms'
    BY <1>1, <2>1, <2>3, <2>8 DEF BrForms
  <2>5. brBatch[1] = brCursor /\ brPushes[brBatch[1]] = 0 /\ brBatch[1] \in Batch /\ brBatch[1] \in Msgs
    BY <1>1, <2>1, <2>2, BatchEnds DEF BrForms, MarkedFirst, PushedOne
  <2>6. MarkedFirst'
    BY <1>1, <2>1, <2>2, <2>3, <2>5 DEF MarkedFirst, PushedOne, BrForms
  <2>7. ContractStep
    <3>1. /\ brBatch[1] \in Msgs /\ Sent(brBatch[1]) /\ Copies[brBatch[1]] \in Nat
          /\ Copies'[brBatch[1]] = Copies[brBatch[1]] + 1 /\ Copies[brBatch[1]] = 0
          /\ ~Gone(brBatch[1])
      BY <1>1, <2>2, <2>5 DEF PushedOne, BrForms
    <3>2. \A x \in Msgs \ {brBatch[1]} : Copies'[x] = Copies[x] /\ (Gone(x)' <=> Gone(x))
      BY <1>1, <2>1, <2>2, <2>3 DEF PushedOne
    <3> QED BY <1>1, <3>1, <3>2, Hands
  <2> QED BY <1>1, <2>4, <2>6, <2>7 DEF StoredFirst, PushedFirst, AnsweredLast
<1> QED BY <1>2, <1>3, <1>4, <1>5

-----------------------------------------------------------------------------
(* imap *)

LEMMA ImapSteps ==
  ASSUME BrInv, brKind = "imap", ImapReconcile \/ ImapPush
  PROVE  BrInv' /\ ContractStep
<1> USE MsgNumbers DEF BrInv
<1>1. /\ UNCHANGED <<brKind, brPosted, brSeeded, brPage, brOld, brMissed, brSeen, brSeenDisk,
                     brAcked, brUpto, brStored>>
      /\ Promise' = Promise /\ Promise = "at_most_once"
      /\ \A m \in Msgs : Sent(m)' <=> Sent(m)
      /\ \A m \in Msgs : Copies[m] = brPushes[m] /\ Copies'[m] = brPushes'[m]
      /\ \A m \in Msgs : (Gone(m) <=> m \notin Batch /\ m <= brCursor)
      /\ \A m \in Msgs : (Gone(m)' <=> m \notin Batch' /\ m <= brCursor')
  BY DEF ImapReconcile, ImapPush, BrFetched, BrPush, cursorVars,
         keepVars, Promise, Sent, Copies, Gone, Batch, BrForms
<1>2. CASE ImapReconcile
  <2>1. /\ brAt = "idle" /\ brAt' = "push" /\ brBatch' = BrFrom(brCursor) /\ brBatch' # <<>>
        /\ brCursor' = brPosted /\ brMem' = brPosted /\ UNCHANGED brPushes
    BY <1>2 DEF ImapReconcile, BrFetched, keepVars
  <2>2. brCursor \in 0..brPosted /\ brPosted \in Nat /\ Batch = {}
    BY <2>1 DEF BrForms, Batch
  <2>3. brCursor < brPosted
    BY <2>1, <2>2 DEF BrFrom
  <2>4. InOrder' /\ Batch' = (brCursor + 1)..brPosted
    BY <2>1, <2>2, <2>3, BatchFrom
  <2>5. BrForms'
    BY <1>1, <2>1, <2>2, <2>4 DEF BrForms
  <2>6. MarkedFirst'
    BY <1>1, <2>1, <2>2, <2>4 DEF MarkedFirst
  <2>7. \A m \in Msgs : Sent(m) => (Gone(m)' <=> Gone(m))
    BY <1>1, <2>1, <2>2, <2>4 DEF Sent
  <2>8. ContractStep
    BY <1>1, <2>1, <2>7, Rests
  <2> QED BY <1>1, <2>5, <2>6, <2>8 DEF StoredFirst, PushedFirst, AnsweredLast
<1>3. CASE ImapPush
  <2>1. /\ brAt = "push" /\ brBatch # <<>> /\ UNCHANGED <<brCursor, brMem>>
        /\ brPushes' = [brPushes EXCEPT ![brBatch[1]] = @ + 1]
        /\ brBatch' = Tail(brBatch)
        /\ brAt' = IF Len(brBatch) > 1 THEN "push" ELSE "idle"
    BY <1>3 DEF ImapPush, BrPush, BrNextMsg, Head0, cursorVars, keepVars, BrForms
  <2>2. PushedOne(brBatch[1])
    BY <1>1, <2>1, HeadPushed
  <2>3. /\ InOrder' /\ Batch' = Batch \ {brBatch[1]}
        /\ Len(brBatch) > 1 => brBatch' # <<>>
        /\ ~(Len(brBatch) > 1) => brBatch' = <<>>
    BY <2>1, BatchTail DEF BrForms
  <2>8. /\ \A m \in Msgs : m > brPosted => brPushes'[m] = 0
        /\ brPushes' \in [Msgs -> Nat] /\ (brBatch' = <<>> <=> brAt' \in {"idle", "checkpoint"})
    BY <2>1, <2>2, <2>3, PushedForms
  <2>4. BrForms'
    BY <1>1, <2>1, <2>3, <2>8 DEF BrForms
  <2>5. /\ brPushes[brBatch[1]] = 0 /\ brBatch[1] \in Batch /\ brBatch[1] \in Msgs
        /\ brBatch[1] <= brCursor /\ Batch \subseteq 1..brCursor
    <3>1. brBatch[1] \in Batch /\ brBatch[1] \in Msgs
      BY <2>1, <2>2, BatchEnds DEF BrForms, PushedOne
    <3> QED BY <1>1, <3>1 DEF MarkedFirst
  <2>9. /\ brPushes'[brBatch[1]] = 1 /\ ~(brBatch[1] > brCursor)
        /\ \A m \in Msgs \ {brBatch[1]} : brPushes'[m] = brPushes[m]
    <3>1. brBatch[1] \in Nat /\ brCursor \in Nat
      BY <2>5 DEF BrForms
    <3> QED BY <2>2, <2>5, <3>1 DEF PushedOne
  <2>10. \A m \in Msgs : brPushes'[m] <= 1 /\ (m > brCursor \/ m \in Batch' => brPushes'[m] = 0)
    BY <1>1, <2>3, <2>9 DEF MarkedFirst
  <2>6. MarkedFirst'
    BY <1>1, <2>1, <2>3, <2>5, <2>10 DEF MarkedFirst
  <2>7. ContractStep
    <3>1. /\ brBatch[1] \in Msgs /\ Sent(brBatch[1]) /\ Copies[brBatch[1]] \in Nat
          /\ Copies'[brBatch[1]] = Copies[brBatch[1]] + 1 /\ Copies[brBatch[1]] = 0
          /\ ~Gone(brBatch[1])
      BY <1>1, <2>2, <2>5 DEF PushedOne, BrForms
    <3>2. \A x \in Msgs \ {brBatch[1]} : Copies'[x] = Copies[x] /\ (Gone(x)' <=> Gone(x))
      BY <1>1, <2>1, <2>2, <2>3 DEF PushedOne
    <3> QED BY <1>1, <3>1, <3>2, Hands
  <2> QED BY <1>1, <2>4, <2>6, <2>7 DEF StoredFirst, PushedFirst, AnsweredLast
<1> QED BY <1>2, <1>3

-----------------------------------------------------------------------------
(* wechat *)

\* What is gone for a wechat server is in its store.
LEMMA WechatFate ==
  ASSUME BrInv, BrInv', brKind = "wechat", UNCHANGED <<brKind, brPosted, brOld, brSeeded>>
  PROVE  /\ Promise' = Promise /\ Promise = "at_least_once"
         /\ \A m \in Msgs : Sent(m)' <=> Sent(m)
         /\ \A m \in Msgs : Copies[m] = brStored[m] /\ Copies'[m] = brStored'[m]
         /\ \A m \in Msgs : brStored[m] = 0 => ~Gone(m)
         /\ \A m \in Msgs : brStored'[m] = 0 => ~Gone(m)'
<1> USE MsgNumbers DEF BrInv
<1>1. \A m \in Msgs : m <= brCursor => brStored[m] > 0
  BY DEF BrForms, StoredFirst
<1>2. \A m \in Msgs : m <= brCursor' => brStored'[m] > 0
  BY DEF BrForms, StoredFirst
<1>3. brMissed = {} /\ brMissed' = {} /\ brStored \in [Msgs -> Nat] /\ brStored' \in [Msgs -> Nat]
  BY DEF BrForms
<1>4. /\ \A m \in Msgs : Gone(m) => m <= brCursor
      /\ \A m \in Msgs : Gone(m)' => m <= brCursor'
  BY <1>3 DEF Gone
<1>5. /\ \A m \in Msgs : Sent(m)' <=> Sent(m)
      /\ \A m \in Msgs : Copies[m] = brStored[m] /\ Copies'[m] = brStored'[m]
      /\ Promise' = Promise /\ Promise = "at_least_once"
  BY DEF Sent, Copies, Promise
<1>6. /\ \A m \in Msgs : brStored[m] = 0 => ~Gone(m)
      /\ \A m \in Msgs : brStored'[m] = 0 => ~Gone(m)'
  BY <1>1, <1>2, <1>3, <1>4
<1> QED BY <1>5, <1>6

LEMMA WechatRests ==
  ASSUME BrInv, BrInv', brKind = "wechat",
         UNCHANGED <<brKind, brPosted, brOld, brSeeded, brStored>>
  PROVE  ContractStep
<1>1. brStored \in [Msgs -> Nat]
  BY DEF BrInv, BrForms
<1> QED BY <1>1, WechatFate, Rests

LEMMA WechatLands ==
  ASSUME BrInv, BrInv', brKind = "wechat", UNCHANGED <<brKind, brPosted, brOld, brSeeded>>,
         NEW m, StoredOne(m)
  PROVE  ContractStep
<1>1. brStored \in [Msgs -> Nat]
  BY DEF BrInv, BrForms
<1>2. m \in Msgs /\ Sent(m) /\ brStored'[m] = brStored[m] + 1
      /\ \A x \in Msgs \ {m} : brStored'[x] = brStored[x]
  BY DEF StoredOne
<1> QED BY <1>1, <1>2, WechatFate, Hands

LEMMA WechatInv ==
  ASSUME BrInv, brKind = "wechat",
         WechatFetch \/ WechatLand \/ WechatRecord \/ WechatPush \/ WechatCheckpoint
  PROVE  /\ BrInv' /\ UNCHANGED <<brKind, brPosted, brOld, brSeeded>>
         /\ UNCHANGED brStored \/ StoredOne(brBatch[1])
<1> USE MsgNumbers DEF BrInv
<1>1. UNCHANGED <<brKind, brPosted, brSeeded, brPage, brOld, brMissed, brAcked>>
  BY DEF WechatFetch, WechatLand, WechatRecord, WechatPush, WechatCheckpoint, BrFetched, BrPush,
         cursorVars, keepVars
<1>2. CASE WechatFetch
  <2>1. /\ brAt = "idle" /\ brAt' = "store" /\ brBatch' = BrFrom(brMem) /\ brBatch' # <<>>
        /\ brUpto' = brPosted
        /\ UNCHANGED <<brCursor, brMem, brPushes, brStored, brSeen, brSeenDisk>>
    BY <1>2 DEF WechatFetch, BrFetched, keepVars
  <2>2. brMem \in 0..brPosted /\ brPosted \in Nat /\ brCursor \in Nat
    BY DEF BrForms
  <2>3. brMem < brPosted
    BY <2>1, <2>2 DEF BrFrom
  <2>4. InOrder' /\ Batch' = (brMem + 1)..brPosted
    BY <2>1, <2>2, <2>3, BatchFrom
  <2>5. BrForms'
    BY <1>1, <2>1, <2>2, <2>4 DEF BrForms
  <2>6. StoredFirst'
    BY <1>1, <2>1, <2>2, <2>4 DEF StoredFirst
  <2> QED BY <1>1, <2>1, <2>5, <2>6 DEF MarkedFirst, PushedFirst, AnsweredLast
<1>3. CASE WechatLand
  <2>1. /\ brAt = "store" /\ brBatch # <<>>
        /\ UNCHANGED <<brCursor, brMem, brUpto, brPushes, brSeen, brSeenDisk>>
    BY <1>3 DEF WechatLand, cursorVars, BrForms
  <2>2. /\ brBatch[1] \in Batch /\ brBatch[1] \in Msgs /\ Sent(brBatch[1])
        /\ brUpto \in Nat /\ InOrder
    BY <2>1, BatchEnds, HeadSent DEF BrForms
  <2>3. CASE IsReplay(Head0) /\ BrNextMsg("store", "checkpoint") /\ UNCHANGED brStored
    <3>1. /\ brBatch[1] \in brSeen /\ brBatch' = Tail(brBatch)
          /\ brAt' = IF Len(brBatch) > 1 THEN "store" ELSE "checkpoint"
      BY <2>3 DEF IsReplay, BrNextMsg, Head0
    <3>2. /\ InOrder' /\ Batch' = Batch \ {brBatch[1]}
          /\ Len(brBatch) > 1 => brBatch' # <<>>
          /\ ~(Len(brBatch) > 1) => brBatch' = <<>>
      BY <2>1, <2>2, <3>1, BatchTail
    <3>3. BrForms'
      BY <1>1, <2>1, <2>3, <3>1, <3>2 DEF BrForms
    <3>4. brStored[brBatch[1]] > 0
      BY <1>1, <3>1 DEF StoredFirst
    <3>5. StoredFirst'
      BY <1>1, <2>1, <2>2, <2>3, <3>1, <3>2, <3>4 DEF StoredFirst
    <3> QED BY <1>1, <2>3, <3>3, <3>5 DEF MarkedFirst, PushedFirst, AnsweredLast
  <2>4. CASE ~IsReplay(Head0) /\ BrStore /\ brAt' = "seen" /\ UNCHANGED brBatch
    <3>1. StoredOne(brBatch[1])
      BY <2>1, <2>4, HeadStored
    <3>2. InOrder' /\ Batch' = Batch /\ brBatch[1] \notin brSeen
      BY <2>2, <2>4 DEF InOrder, Batch, IsReplay, Head0
    <3>3. /\ \A m \in Msgs : m > brPosted => brStored'[m] = 0
          /\ brStored' \in [Msgs -> Nat]
      BY <3>1 DEF BrForms, StoredOne
    <3>4. BrForms'
      BY <1>1, <2>1, <2>4, <3>2, <3>3 DEF BrForms
    <3>5. \A m \in Msgs : brStored[m] > 0 => brStored'[m] > 0
      <4>1. brStored[brBatch[1]] \in Nat
        BY <2>2 DEF BrForms
      <4>2. brStored'[brBatch[1]] > 0
        BY <3>1, <4>1 DEF StoredOne
      <4> QED BY <3>1, <4>2 DEF StoredOne
    <3>6. /\ brStored'[brBatch[1]] > 0 /\ brPushes[brBatch[1]] = 0
      <4>1. brStored[brBatch[1]] \in Nat /\ brPushes[brBatch[1]] \in Nat
        BY <2>2 DEF BrForms
      <4>2. brPushes[brBatch[1]] <= 1 /\ brPushes[brBatch[1]] # 1
        BY <1>1, <2>2, <3>2 DEF StoredFirst, BrForms
      <4> QED BY <3>1, <4>1, <4>2 DEF StoredOne
    <3>9. brPosted \in Nat /\ brMem \in Nat /\ brUpto \in Nat /\ 1..brUpto \subseteq Msgs /\ 1..brMem \subseteq Msgs
          /\ brSeen \subseteq Msgs
      BY DEF BrForms
    <3>7. StoredFirst'
      BY <1>1, <2>1, <2>2, <2>4, <3>2, <3>5, <3>6, <3>9 DEF StoredFirst
    <3> QED BY <1>1, <3>1, <3>4, <3>7 DEF MarkedFirst, PushedFirst, AnsweredLast
  <2>5. CASE brBatch' = <<>> /\ brAt' = "idle" /\ UNCHANGED brStored
    <3>1. InOrder' /\ Batch' = {}
      BY <2>5, BatchNone
    <3>2. BrForms'
      BY <1>1, <2>1, <2>5, <3>1 DEF BrForms
    <3>3. StoredFirst'
      BY <1>1, <2>1, <2>5, <3>1 DEF StoredFirst
    <3> QED BY <1>1, <2>5, <3>2, <3>3 DEF MarkedFirst, PushedFirst, AnsweredLast
  <2> QED BY <1>3, <2>3, <2>4, <2>5 DEF WechatLand
<1>4. CASE WechatRecord
  <2>1. /\ brAt = "seen" /\ brBatch # <<>> /\ brSeen' = brSeen \cup {brBatch[1]}
        /\ UNCHANGED <<brCursor, brMem, brUpto, brPushes, brStored>>
    BY <1>4 DEF WechatRecord, cursorVars, BrForms, Head0
  <2>2. /\ brBatch[1] \in Batch /\ brBatch[1] \in Msgs /\ brBatch[1] \in 1..brPosted /\ InOrder
        /\ brStored[brBatch[1]] > 0 /\ brPushes[brBatch[1]] = 0
    <3>1. brBatch[1] \in Batch /\ brBatch[1] \in Msgs /\ brBatch[1] \in 1..brPosted /\ InOrder
      BY <2>1, BatchEnds, HeadSent DEF BrForms
    <3> QED BY <1>1, <2>1, <3>1 DEF StoredFirst
  <2>3. CASE brSeenDisk' = brSeen' /\ brAt' = "push" /\ UNCHANGED brBatch
    <3>1. InOrder' /\ Batch' = Batch
      BY <2>2, <2>3 DEF InOrder, Batch
    <3>2. BrForms'
      BY <1>1, <2>1, <2>2, <2>3, <3>1 DEF BrForms
    <3>3. brSeenDisk \subseteq brSeenDisk'
      BY <2>1, <2>3 DEF BrForms
    <3>4. StoredFirst'
      BY <1>1, <2>1, <2>2, <2>3, <3>1, <3>3 DEF StoredFirst
    <3> QED BY <1>1, <2>1, <3>2, <3>4 DEF MarkedFirst, PushedFirst, AnsweredLast
  <2>4. CASE brBatch' = <<>> /\ brAt' = "idle" /\ UNCHANGED brSeenDisk
    <3>1. InOrder' /\ Batch' = {}
      BY <2>4, BatchNone
    <3>2. BrForms'
      BY <1>1, <2>1, <2>2, <2>4, <3>1 DEF BrForms
    <3>3. StoredFirst'
      BY <1>1, <2>1, <2>2, <2>4, <3>1 DEF StoredFirst
    <3> QED BY <1>1, <2>1, <3>2, <3>3 DEF MarkedFirst, PushedFirst, AnsweredLast
  <2> QED BY <1>4, <2>3, <2>4 DEF WechatRecord
<1>5. CASE WechatPush
  <2>1. /\ brAt = "push" /\ brBatch # <<>>
        /\ UNCHANGED <<brCursor, brMem, brUpto, brStored, brSeen, brSeenDisk>>
        /\ brPushes' = [brPushes EXCEPT ![brBatch[1]] = @ + 1]
        /\ brBatch' = Tail(brBatch)
        /\ brAt' = IF Len(brBatch) > 1 THEN "store" ELSE "checkpoint"
    BY <1>5 DEF WechatPush, BrPush, BrNextMsg, Head0, cursorVars, keepVars, BrForms
  <2>2. PushedOne(brBatch[1])
    BY <1>1, <2>1, HeadPushed
  <2>3. /\ InOrder' /\ Batch' = Batch \ {brBatch[1]}
        /\ Len(brBatch) > 1 => brBatch' # <<>>
        /\ ~(Len(brBatch) > 1) => brBatch' = <<>>
    BY <2>1, BatchTail DEF BrForms
  <2>4. /\ \A m \in Msgs : m > brPosted => brPushes'[m] = 0
        /\ brPushes' \in [Msgs -> Nat] /\ (brBatch' = <<>> <=> brAt' \in {"idle", "checkpoint"})
    BY <2>1, <2>2, <2>3, PushedForms
  <2>5. BrForms'
    BY <1>1, <2>1, <2>3, <2>4 DEF BrForms
  <2>6. /\ brStored[brBatch[1]] > 0 /\ brPushes[brBatch[1]] = 0 /\ brBatch[1] \in brSeenDisk
    BY <1>1, <2>1 DEF StoredFirst
  <2>7. \A m \in Msgs : brPushes'[m] <= 1 /\ (brPushes'[m] = 1 => m \in brSeenDisk)
    BY <1>1, <2>2, <2>6 DEF PushedOne, StoredFirst, BrForms
  <2>8. StoredFirst'
    BY <1>1, <2>1, <2>3, <2>6, <2>7 DEF StoredFirst
  <2> QED BY <1>1, <2>1, <2>5, <2>8 DEF MarkedFirst, PushedFirst, AnsweredLast
<1>6. CASE WechatCheckpoint
  <2>1. /\ brAt = "checkpoint" /\ brBatch = <<>> /\ brMem' = brUpto /\ brAt' = "idle"
        /\ brCursor' = brUpto \/ brCursor' = brCursor
        /\ UNCHANGED <<brUpto, brBatch, brPushes, brStored, brSeen, brSeenDisk>>
    BY <1>6 DEF WechatCheckpoint, keepVars, BrForms
  <2>2. Batch = {} /\ Batch' = {} /\ InOrder'
    BY <2>1, BatchNone DEF Batch
  <2>3. brMem <= brUpto /\ brUpto \in 0..brPosted /\ brMem \in brCursor..brPosted
        /\ brCursor \in 0..brPosted
    BY <1>1, <2>1 DEF StoredFirst, BrForms
  <2>6. brCursor' \in 0..brPosted /\ brMem' \in brCursor'..brPosted
    BY <2>1, <2>3
  <2>4. BrForms'
    BY <1>1, <2>1, <2>2, <2>6 DEF BrForms
  <2>5. StoredFirst'
    BY <1>1, <2>1, <2>2 DEF StoredFirst
  <2> QED BY <1>1, <2>1, <2>4, <2>5 DEF MarkedFirst, PushedFirst, AnsweredLast
<1> QED BY <1>2, <1>3, <1>4, <1>5, <1>6

LEMMA WechatSteps ==
  ASSUME BrInv, brKind = "wechat",
         WechatFetch \/ WechatLand \/ WechatRecord \/ WechatPush \/ WechatCheckpoint
  PROVE  BrInv' /\ ContractStep
BY WechatInv, WechatRests, WechatLands

-----------------------------------------------------------------------------
(* cloud_mail *)

LEMMA CloudSteps ==
  ASSUME BrInv, brKind = "cloud_mail", CloudSeed \/ CloudPoll \/ CloudPush \/ CloudCheckpoint
  PROVE  BrInv' /\ ContractStep
<1> USE MsgNumbers DEF BrInv
<1>1. /\ UNCHANGED <<brKind, brPosted, brPage, brSeen, brSeenDisk, brAcked, brStored>>
      /\ Promise' = Promise /\ Promise # "at_most_once"
      /\ Promise = "at_least_once" => brPage >= Cardinality(Msgs)
      /\ \A m \in Msgs : Copies[m] = brPushes[m] /\ Copies'[m] = brPushes'[m]
      /\ \A m \in Msgs : (Sent(m) <=> m <= brPosted /\ m \notin brOld /\ brSeeded)
      /\ \A m \in Msgs : (Sent(m)' <=> m <= brPosted /\ m \notin brOld' /\ brSeeded')
      /\ \A m \in Msgs : (Gone(m) <=> m \notin Batch /\ (m <= brCursor \/ m \in brMissed))
      /\ \A m \in Msgs : (Gone(m)' <=> m \notin Batch' /\ (m <= brCursor' \/ m \in brMissed'))
  BY DEF CloudSeed, CloudPoll, CloudPush, CloudCheckpoint, BrPush, cursorVars,
         keepVars, Promise, Sent, Copies, Gone, Batch
<1>2. /\ brPosted \in Nat /\ brCursor \in 0..brPosted /\ brUpto \in 0..brPosted
      /\ brPage \in Nat \ {0} /\ brPosted <= Cardinality(Msgs)
      /\ brPushes \in [Msgs -> Nat] /\ brMissed \subseteq 1..brPosted
  BY DEF BrForms
<1>3. CASE CloudSeed
  <2>1. /\ brAt = "idle" /\ brAt' = "idle" /\ brBatch = <<>> /\ brBatch' = <<>> /\ ~brSeeded
        /\ brSeeded' = TRUE /\ brCursor' = brPosted /\ brMem' = brPosted /\ brOld' = 1..brPosted
        /\ UNCHANGED <<brUpto, brPushes, brMissed>>
    BY <1>3 DEF CloudSeed, BrForms
  <2>2. Batch = {} /\ Batch' = {} /\ InOrder' /\ brMissed = {}
    BY <1>1, <2>1, BatchNone DEF Batch, PushedFirst
  <2>3. BrForms'
    BY <1>1, <2>1, <2>2 DEF BrForms
  <2>4. PushedFirst'
    BY <1>1, <1>2, <2>1, <2>2 DEF PushedFirst
  <2>5. \A m \in Msgs : ~Sent(m) /\ ~Sent(m)'
    BY <1>1, <1>2, <2>1
  <2>6. ContractStep
    BY <1>1, <2>1, <2>5, Rests
  <2> QED BY <1>1, <2>3, <2>4, <2>6 DEF StoredFirst, MarkedFirst, AnsweredLast
<1>4. CASE CloudPoll
  <2> DEFINE oldest == IF brPosted - brCursor > brPage THEN brPosted - brPage ELSE brCursor
  <2>1. /\ brAt = "idle" /\ brAt' = "push" /\ brSeeded /\ oldest < brPosted
        /\ brBatch' = BrFrom(oldest) /\ brUpto' = brPosted
        /\ brMissed' = brMissed \cup (brCursor + 1)..oldest
        /\ UNCHANGED <<brSeeded, brCursor, brMem, brPushes, brOld>>
    BY <1>4 DEF CloudPoll
  <2>2. /\ oldest \in 0..brPosted /\ brCursor <= oldest /\ Batch = {}
        /\ oldest = brCursor \/ (oldest = brPosted - brPage /\ brPage < brPosted)
        /\ oldest >= brPosted - brPage
    <3>1. Batch = {}
      BY <2>1 DEF BrForms, Batch
    <3>2. CASE brPosted - brCursor > brPage
      <4>1. oldest = brPosted - brPage
        BY <3>2
      <4> QED BY <1>2, <3>1, <3>2, <4>1
    <3>3. CASE ~(brPosted - brCursor > brPage)
      <4>1. oldest = brCursor
        BY <3>3
      <4>2. brCursor >= brPosted - brPage
        <5>1. brCursor \in Int /\ brPosted \in Int /\ brPage \in Int
          BY <1>2
        <5> QED BY <3>3, <5>1
      <4>3. oldest \in 0..brPosted /\ brCursor <= oldest
        BY <1>2, <4>1
      <4>4. oldest >= brPosted - brPage
        BY <4>1, <4>2
      <4>5. oldest = brCursor \/ (oldest = brPosted - brPage /\ brPage < brPosted)
        BY <4>1
      <4> QED BY <3>1, <4>3, <4>4, <4>5
    <3> QED BY <3>2, <3>3
  <2> HIDE DEF oldest
  <2>3. /\ InOrder' /\ brBatch' # <<>> /\ Batch' = (oldest + 1)..brPosted
    BY <1>2, <2>1, <2>2, BatchFrom
  <2>4. \A m \in brMissed : m <= oldest
    BY <1>1, <1>2, <2>2 DEF PushedFirst
  <2>5. /\ brMissed' \subseteq 1..brPosted /\ \A m \in brMissed' : m <= oldest
        /\ \A m \in (brCursor + 1)..oldest : m \in brMissed'
    BY <1>2, <2>1, <2>2, <2>4
  <2>6. BrForms'
    <3>1. Batch' \subseteq 1..brPosted
      BY <1>2, <2>2, <2>3
    <3> QED BY <1>1, <1>2, <2>1, <2>3, <2>5, <3>1 DEF BrForms
  <2>7. \A m \in brMissed' : m <= brCursor \/ m <= brPosted - brPage
    <3>1. \A m \in brMissed : m <= brCursor \/ m <= brPosted - brPage
      BY <1>1 DEF PushedFirst
    <3>2. \A m \in (brCursor + 1)..oldest : m <= brCursor \/ m <= brPosted - brPage
      BY <1>2, <2>2
    <3> QED BY <2>1, <3>1, <3>2
  <2>8. brPage >= Cardinality(Msgs) => oldest = brCursor /\ brMissed' = {} /\ brMissed = {}
    BY <1>1, <1>2, <2>1, <2>2 DEF PushedFirst
  <2>9. \A m \in 1..oldest : brPushes[m] > 0 \/ m \in brMissed' \cup brOld
    BY <1>1, <1>2, <2>1, <2>2 DEF PushedFirst
  <2>10. /\ \A m \in Batch' : m > brCursor /\ m \notin brMissed'
         /\ Batch' \subseteq 1..brPosted /\ (1..brPosted) \ Batch' = 1..oldest
    BY <1>2, <2>2, <2>3, <2>5
  <2>13. 1..brCursor \subseteq 1..oldest /\ brCursor <= brUpto'
    BY <1>2, <2>1, <2>2
  <2>14. brOld' \subseteq 1..brCursor' /\ brSeeded'
    BY <1>1, <2>1 DEF PushedFirst
  <2>11. PushedFirst'
    BY <1>1, <2>1, <2>7, <2>8, <2>9, <2>10, <2>13, <2>14 DEF PushedFirst
  <2>12. ContractStep
    <3>1. CASE brPage >= Cardinality(Msgs)
      <4>1. \A m \in Msgs : Gone(m)' <=> Gone(m)
        BY <1>1, <1>2, <2>1, <2>2, <2>3, <2>8, <3>1
      <4> QED BY <1>1, <2>1, <4>1, Rests
    <3>2. CASE ~(brPage >= Cardinality(Msgs))
      <4>1. \A m \in Msgs : Gone(m) => Gone(m)'
        BY <1>1, <1>2, <2>1, <2>2, <2>3, <2>4
      <4> QED BY <1>1, <1>2, <2>1, <3>2, <4>1, Loses
    <3> QED BY <3>1, <3>2
  <2> QED BY <1>1, <2>6, <2>11, <2>12 DEF StoredFirst, MarkedFirst, AnsweredLast
<1>5. CASE CloudPush
  <2>1. /\ brAt = "push" /\ brBatch # <<>>
        /\ UNCHANGED <<brCursor, brMem, brUpto, brSeeded, brOld, brMissed>>
        /\ brPushes' = [brPushes EXCEPT ![brBatch[1]] = @ + 1]
        /\ brBatch' = Tail(brBatch)
        /\ brAt' = IF Len(brBatch) > 1 THEN "push" ELSE "checkpoint"
    BY <1>5 DEF CloudPush, BrPush, BrNextMsg, Head0, cursorVars, keepVars, BrForms
  <2>2. PushedOne(brBatch[1])
    BY <1>1, <2>1, HeadPushed
  <2>3. /\ InOrder' /\ Batch' = Batch \ {brBatch[1]}
        /\ Len(brBatch) > 1 => brBatch' # <<>>
        /\ ~(Len(brBatch) > 1) => brBatch' = <<>>
    BY <2>1, BatchTail DEF BrForms
  <2>4. /\ \A m \in Msgs : m > brPosted => brPushes'[m] = 0
        /\ brPushes' \in [Msgs -> Nat] /\ (brBatch' = <<>> <=> brAt' \in {"idle", "checkpoint"})
    <3>1. \A m \in Msgs : m > brPosted => brPushes'[m] = 0
      BY <1>2, <2>2 DEF BrForms, PushedOne
    <3>2. brBatch' = <<>> <=> brAt' \in {"idle", "checkpoint"}
      BY <2>1, <2>3
    <3> QED BY <2>2, <3>1, <3>2 DEF PushedOne
  <2>5. BrForms'
    BY <1>1, <2>1, <2>3, <2>4 DEF BrForms
  <2>6. /\ brBatch[1] \in Batch /\ brBatch[1] \in Msgs /\ brPushes'[brBatch[1]] > 0
        /\ \A m \in Msgs : brPushes[m] > 0 => brPushes'[m] > 0
    <3>1. brBatch[1] \in Batch /\ brBatch[1] \in Msgs /\ brPushes[brBatch[1]] \in Nat
      BY <1>2, <2>1, <2>2, BatchEnds DEF BrForms, PushedOne
    <3>2. brPushes'[brBatch[1]] > 0
      BY <2>2, <3>1 DEF PushedOne
    <3> QED BY <2>2, <3>1, <3>2 DEF PushedOne
  <2>7. 1..brCursor \subseteq Msgs /\ 1..brUpto \subseteq Msgs
    BY <1>2
  <2>8. PushedFirst'
    BY <1>1, <2>1, <2>3, <2>6, <2>7 DEF PushedFirst
  <2>9. ContractStep
    <3>1. /\ brBatch[1] \in Msgs /\ Sent(brBatch[1]) /\ Copies[brBatch[1]] \in Nat
          /\ Copies'[brBatch[1]] = Copies[brBatch[1]] + 1
          /\ ~Gone(brBatch[1])
      BY <1>1, <1>2, <2>2, <2>6 DEF PushedOne
    <3>2. \A x \in Msgs \ {brBatch[1]} : Copies'[x] = Copies[x] /\ (Gone(x)' <=> Gone(x))
      BY <1>1, <2>1, <2>2, <2>3 DEF PushedOne
    <3>3. \A x \in Msgs : Sent(x)' <=> Sent(x)
      BY <1>1, <2>1
    <3> QED BY <1>1, <3>1, <3>2, <3>3, Hands
  <2> QED BY <1>1, <2>5, <2>8, <2>9 DEF StoredFirst, MarkedFirst, AnsweredLast
<1>6. CASE CloudCheckpoint
  <2>1. /\ brAt = "checkpoint" /\ brBatch = <<>> /\ brAt' = "idle"
        /\ \/ brCursor' = brUpto /\ brMem' = brUpto
           \/ brCursor' = brCursor /\ brMem' = brMem
        /\ UNCHANGED <<brUpto, brBatch, brSeeded, brOld, brMissed, brPushes>>
    BY <1>6 DEF CloudCheckpoint, keepVars, BrForms
  <2>2. Batch = {} /\ Batch' = {} /\ InOrder'
    BY <2>1, BatchNone DEF Batch
  <2>3. /\ brCursor <= brCursor' /\ brCursor' <= brUpto /\ brCursor' \in 0..brPosted
        /\ brMem' \in brCursor'..brPosted
    <3>1. brCursor <= brUpto
      BY <1>1, <2>1 DEF PushedFirst
    <3> QED BY <1>2, <2>1, <3>1 DEF BrForms
  <2>4. BrForms'
    BY <1>1, <2>1, <2>2, <2>3 DEF BrForms
  <2>5. \A m \in 1..brUpto : brPushes[m] > 0 \/ m \in brMissed \cup brOld
    BY <1>1, <2>1, <2>2 DEF PushedFirst
  <2>6. brSeeded
    BY <1>1, <2>1 DEF PushedFirst
  <2>9. \A m \in brMissed : m <= brCursor' \/ m <= brPosted - brPage
    BY <1>1, <1>2, <2>3 DEF PushedFirst
  <2>10. brOld \subseteq 1..brCursor'
    BY <1>1, <1>2, <2>3 DEF PushedFirst
  <2>11. 1..brCursor' \subseteq 1..brUpto
    BY <1>2, <2>3
  <2>12. brPage >= Cardinality(Msgs) => brMissed = {}
    BY <1>1 DEF PushedFirst
  <2>7. PushedFirst'
    BY <1>1, <2>1, <2>2, <2>5, <2>6, <2>9, <2>10, <2>11, <2>12 DEF PushedFirst
  <2>8. \A m \in Msgs : Sent(m) /\ ~(brPushes[m] > 0) => (Gone(m)' <=> Gone(m))
    <3> SUFFICES ASSUME NEW m \in Msgs, Sent(m), ~(brPushes[m] > 0) PROVE Gone(m)' <=> Gone(m)
      OBVIOUS
    <3>1. m \in Nat \ {0} /\ m \notin brOld
      BY <1>1
    <3>2. m <= brUpto => m \in brMissed
      BY <1>2, <2>5, <3>1
    <3>3. m <= brCursor' => m \in brMissed
      BY <1>2, <2>3, <3>1, <3>2
    <3>4. m <= brCursor => m \in brMissed
      BY <1>2, <2>3, <3>1, <3>3
    <3> QED BY <1>1, <2>1, <2>2, <3>3, <3>4
  <2>13. ContractStep
    BY <1>1, <2>1, <2>8, Rests
  <2> QED BY <1>1, <2>4, <2>7, <2>13 DEF StoredFirst, MarkedFirst, AnsweredLast
<1> QED BY <1>3, <1>4, <1>5, <1>6

-----------------------------------------------------------------------------
(* feishu and whatsapp *)

LEMMA HookInv ==
  ASSUME BrInv, brKind \in {"feishu", "whatsapp"},
         \/ brKind = "feishu" /\ (FeishuReceive \/ FeishuStore)
         \/ brKind = "whatsapp" /\ (WhatsappReceive \/ WhatsappStore)
         \/ HookPush \/ HookAck
  PROVE  /\ BrInv' /\ UNCHANGED <<brKind, brPosted, brSeeded, brOld, brPage>>
         /\ \/ UNCHANGED brStored /\ (\A m \in Msgs : Gone(m) => Gone(m)')
            \/ StoredOne(brBatch[1]) /\ (\A m \in Msgs : Gone(m)' <=> Gone(m))
               /\ ~Gone(brBatch[1])
<1> USE MsgNumbers DEF BrInv
<1>1. /\ UNCHANGED <<brKind, brPosted, brSeeded, brPage, brOld, brMissed, brCursor, brMem, brUpto,
                     brSeenDisk>>
      /\ brPosted \in Nat /\ 1..brPosted \subseteq Msgs
      /\ \A m \in Msgs : (Gone(m) <=> m \notin Batch /\ m \in brAcked)
      /\ \A m \in Msgs : (Gone(m)' <=> m \notin Batch' /\ m \in brAcked')
  <2>1. UNCHANGED <<brKind, brPosted, brSeeded, brPage, brOld, brMissed, brCursor, brMem, brUpto,
                    brSeenDisk>>
    BY DEF FeishuReceive, FeishuStore, WhatsappReceive, WhatsappStore, HookPush, HookAck,
           cursorVars, keepVars
  <2>2. brPosted \in Nat /\ 1..brPosted \subseteq Msgs
    BY DEF BrForms
  <2> QED BY <2>1, <2>2 DEF Gone, Batch
<1>2. ASSUME NEW m \in (1..brPosted) \ brAcked, brAt = "idle", brBatch' = <<m>>, brAt' = "store",
             UNCHANGED <<brAcked, brStored, brPushes>>, brSeen \subseteq brSeen', brSeen' \subseteq 1..brPosted
      PROVE  BrInv' /\ (\A x \in Msgs : Gone(x) => Gone(x)')
  <2>1. InOrder' /\ Batch' = {m} /\ Len(brBatch') = 1 /\ brBatch' # <<>> /\ m \in Nat
    BY <1>2, BatchOne
  <2>2. BrForms'
    BY <1>1, <1>2, <2>1 DEF BrForms
  <2>3. AnsweredLast'
    BY <1>1, <1>2, <2>1 DEF AnsweredLast
  <2>4. \A x \in Msgs : Gone(x) => Gone(x)'
    BY <1>1, <1>2, <2>1
  <2> QED BY <1>1, <2>2, <2>3, <2>4 DEF StoredFirst, MarkedFirst, PushedFirst
<1>3. ASSUME brBatch' = <<>>, brAt' = "idle", UNCHANGED <<brStored, brPushes>>,
             brSeen \subseteq brSeen', brSeen' \subseteq 1..brPosted, brAcked \subseteq brAcked',
             brAcked' \subseteq 1..brPosted,
             brKind = "whatsapp" => \A m \in brAcked' : brStored[m] > 0
      PROVE  BrInv' /\ (\A x \in Msgs : Gone(x) => Gone(x)')
  <2>1. InOrder' /\ Batch' = {} /\ Len(brBatch') = 0
    BY <1>3, BatchNone
  <2>2. BrForms'
    BY <1>1, <1>3, <2>1 DEF BrForms
  <2>3. AnsweredLast'
    BY <1>1, <1>3, <2>1 DEF AnsweredLast
  <2>4. \A x \in Msgs : Gone(x) => Gone(x)'
    BY <1>1, <1>3, <2>1
  <2> QED BY <1>1, <2>2, <2>3, <2>4 DEF StoredFirst, MarkedFirst, PushedFirst
<1>4. ASSUME brBatch # <<>>, BrStore, brAt' = "push", UNCHANGED <<brBatch, brAcked, brSeen, brPushes>>
      PROVE  /\ BrInv' /\ StoredOne(brBatch[1]) /\ (\A m \in Msgs : Gone(m)' <=> Gone(m))
             /\ ~Gone(brBatch[1])
  <2>1. StoredOne(brBatch[1])
    BY <1>4, HeadStored
  <2>2. InOrder' /\ Batch' = Batch /\ brBatch[1] \in Batch /\ brBatch[1] \in Msgs
    BY <1>4, <2>1, BatchEnds DEF BrForms, InOrder, Batch, StoredOne
  <2>3. /\ \A m \in Msgs : m > brPosted => brStored'[m] = 0
        /\ brStored' \in [Msgs -> Nat]
    BY <2>1 DEF BrForms, StoredOne
  <2>4. BrForms'
    BY <1>1, <1>4, <2>2, <2>3 DEF BrForms
  <2>5. brStored'[brBatch[1]] > 0 /\ \A m \in Msgs : brStored[m] > 0 => brStored'[m] > 0
    <3>1. brStored[brBatch[1]] \in Nat
      BY <2>2 DEF BrForms
    <3>2. brStored'[brBatch[1]] > 0
      BY <2>1, <3>1 DEF StoredOne
    <3> QED BY <2>1, <3>2 DEF StoredOne
  <2>6. brAcked \subseteq Msgs
    BY <1>1 DEF BrForms
  <2>7. AnsweredLast'
    BY <1>1, <1>4, <2>2, <2>5, <2>6 DEF AnsweredLast
  <2>8. (\A m \in Msgs : Gone(m)' <=> Gone(m)) /\ ~Gone(brBatch[1])
    BY <1>1, <1>4, <2>2
  <2> QED BY <1>1, <2>1, <2>4, <2>7, <2>8 DEF StoredFirst, MarkedFirst, PushedFirst
<1>5. ASSUME brBatch # <<>>, brAt' = "ack", UNCHANGED <<brBatch, brAcked, brSeen, brStored>>,
             brAt = "push" \/ brKind = "feishu",
             brPushes' = brPushes \/ brPushes' = [brPushes EXCEPT ![brBatch[1]] = @ + 1]
      PROVE  BrInv' /\ (\A m \in Msgs : Gone(m) => Gone(m)')
  <2>1. InOrder' /\ Batch' = Batch
    BY <1>5 DEF BrForms, InOrder, Batch
  <2>2. /\ \A m \in Msgs : m > brPosted => brPushes'[m] = 0
        /\ brPushes' \in [Msgs -> Nat]
    <3>1. CASE brPushes' = brPushes
      BY <3>1 DEF BrForms
    <3>2. CASE brPushes' = [brPushes EXCEPT ![brBatch[1]] = @ + 1]
      BY <1>5, <3>2, HeadPushed DEF BrForms, PushedOne
    <3> QED BY <1>5, <3>1, <3>2
  <2>3. BrForms'
    BY <1>1, <1>5, <2>1, <2>2 DEF BrForms
  <2>4. AnsweredLast'
    BY <1>1, <1>5, <2>1 DEF AnsweredLast
  <2>5. \A m \in Msgs : Gone(m) => Gone(m)'
    BY <1>1, <1>5, <2>1
  <2> QED BY <1>1, <2>3, <2>4, <2>5 DEF StoredFirst, MarkedFirst, PushedFirst
<1>10. brSeen \subseteq 1..brPosted /\ brAcked \subseteq 1..brPosted
  BY DEF BrForms
<1>11. brKind = "whatsapp" => \A m \in brAcked : brStored[m] > 0
  BY DEF AnsweredLast
<1>12. brAt \notin {"idle", "checkpoint"} => brBatch # <<>>
  BY DEF BrForms
<1>6. CASE FeishuReceive
  <2>1. brAt = "idle" /\ UNCHANGED <<brStored, brPushes>>
    BY <1>6 DEF FeishuReceive
  <2>2. PICK m \in (1..brPosted) \ brAcked :
          IF IsReplay(m)
          THEN brAcked' = brAcked \cup {m} /\ UNCHANGED <<brSeen, brBatch, brAt>>
          ELSE /\ brSeen' = brSeen \cup {m}
               /\ brBatch' = <<m>> /\ brAt' = "store" /\ UNCHANGED brAcked
    BY <1>6 DEF FeishuReceive
  <2>3. CASE IsReplay(m)
    <3>1. brBatch' = <<>> /\ brAt' = "idle"
      BY <2>1, <2>2, <2>3 DEF BrForms
    <3>2. brKind # "whatsapp"
      BY <1>6 DEF FeishuReceive
    <3> QED BY <1>1, <1>3, <1>10, <2>1, <2>2, <2>3, <3>1, <3>2
  <2>4. CASE ~IsReplay(m)
    <3>1. brSeen \subseteq brSeen' /\ brSeen' \subseteq 1..brPosted
      BY <1>10, <2>2, <2>4
    <3> QED BY <1>1, <1>2, <2>1, <2>2, <2>4, <3>1
  <2> QED BY <2>3, <2>4
<1>7. CASE FeishuStore
  <2>1. brBatch # <<>> /\ brKind = "feishu" /\ UNCHANGED <<brAcked, brSeen, brPushes>>
    BY <1>7, <1>12 DEF FeishuStore
  <2>2. CASE BrStore /\ brAt' = "push" /\ UNCHANGED brBatch
    BY <1>1, <1>4, <2>1, <2>2
  <2>3. CASE brAt' = "ack" /\ UNCHANGED <<brBatch, brStored>>
    BY <1>1, <1>5, <2>1, <2>3
  <2> QED BY <1>7, <2>2, <2>3 DEF FeishuStore
<1>8. CASE WhatsappReceive
  <2>1. /\ brAt = "idle" /\ brAt' = "store" /\ UNCHANGED <<brStored, brPushes, brSeen, brAcked>>
        /\ \E m \in (1..brPosted) \ brAcked : brBatch' = <<m>>
    BY <1>8 DEF WhatsappReceive, keepVars
  <2> QED BY <1>1, <1>2, <1>10, <2>1
<1>9. CASE WhatsappStore
  <2>1. brBatch # <<>> /\ UNCHANGED <<brAcked, brSeen, brPushes>>
    BY <1>9, <1>12 DEF WhatsappStore
  <2>2. CASE BrStore /\ brAt' = "push" /\ UNCHANGED brBatch
    BY <1>1, <1>4, <2>1, <2>2
  <2>3. CASE brBatch' = <<>> /\ brAt' = "idle" /\ UNCHANGED brStored
    BY <1>1, <1>3, <1>10, <1>11, <2>1, <2>3
  <2> QED BY <1>9, <2>2, <2>3 DEF WhatsappStore
<1>13. CASE HookPush
  <2>1. brBatch # <<>> /\ brAt = "push" /\ brAt' = "ack"
        /\ UNCHANGED <<brBatch, brAcked, brSeen, brStored>>
        /\ brPushes' = [brPushes EXCEPT ![brBatch[1]] = @ + 1]
    BY <1>12, <1>13 DEF HookPush, keepVars, Head0
  <2> QED BY <1>1, <1>5, <2>1
<1>14. CASE HookAck
  <2>1. /\ brBatch # <<>> /\ brAt = "ack" /\ brAt' = "idle" /\ brBatch' = <<>>
        /\ UNCHANGED <<brSeen, brStored, brPushes>>
        /\ brAcked' = brAcked \/ brAcked' = brAcked \cup {brBatch[1]}
    BY <1>12, <1>14 DEF HookAck, Head0
  <2>2. brBatch[1] \in 1..brPosted
    BY <2>1, HeadSent
  <2>3. brKind = "whatsapp" => brStored[brBatch[1]] > 0
    BY <2>1 DEF AnsweredLast
  <2>4. /\ brAcked \subseteq brAcked' /\ brAcked' \subseteq 1..brPosted
        /\ brKind = "whatsapp" => \A m \in brAcked' : brStored[m] > 0
    BY <1>10, <1>11, <2>1, <2>2, <2>3
  <2> QED BY <1>1, <1>3, <1>10, <2>1, <2>4
<1> QED BY <1>6, <1>7, <1>8, <1>9, <1>13, <1>14

LEMMA HookSteps ==
  ASSUME BrInv, brKind \in {"feishu", "whatsapp"},
         \/ brKind = "feishu" /\ (FeishuReceive \/ FeishuStore)
         \/ brKind = "whatsapp" /\ (WhatsappReceive \/ WhatsappStore)
         \/ HookPush \/ HookAck
  PROVE  BrInv' /\ ContractStep
<1>1. /\ BrInv' /\ UNCHANGED <<brKind, brPosted, brSeeded, brOld, brPage>>
      /\ \/ UNCHANGED brStored /\ (\A m \in Msgs : Gone(m) => Gone(m)')
         \/ StoredOne(brBatch[1]) /\ (\A m \in Msgs : Gone(m)' <=> Gone(m))
            /\ ~Gone(brBatch[1])
  BY HookInv
<1>2. /\ \A m \in Msgs : Sent(m)' <=> Sent(m)
      /\ \A m \in Msgs : Copies[m] = brStored[m] /\ Copies'[m] = brStored'[m]
      /\ Promise' = Promise /\ Promise # "at_most_once"
      /\ brKind = "feishu" => Promise # "at_least_once"
  BY <1>1 DEF Sent, Copies, Promise
<1>3. brStored \in [Msgs -> Nat] /\ brStored' \in [Msgs -> Nat]
  BY <1>1 DEF BrInv, BrForms
<1>4. CASE UNCHANGED brStored /\ (\A m \in Msgs : Gone(m) => Gone(m)') /\ brKind = "feishu"
  <2>1. \A m \in Msgs : Copies'[m] = Copies[m] /\ Copies[m] \in Nat
    BY <1>2, <1>3, <1>4
  <2>2. Promise # "at_least_once"
    BY <1>2, <1>4
  <2> QED BY <1>1, <1>2, <1>4, <2>1, <2>2, Loses
<1>5. CASE UNCHANGED brStored /\ brKind = "whatsapp"
  <2>1. \A m \in Msgs : Gone(m) => brStored[m] > 0
    BY <1>5 DEF BrInv, AnsweredLast, Gone
  <2>2. \A m \in Msgs : Gone(m)' => brStored'[m] > 0
    BY <1>1, <1>5 DEF BrInv, AnsweredLast, Gone
  <2>3. \A m \in Msgs : /\ Copies'[m] = Copies[m]
                        /\ ~(Copies[m] > 0) => (Gone(m)' <=> Gone(m))
    BY <1>2, <1>5, <2>1, <2>2
  <2> QED BY <1>1, <1>2, <2>3, Rests
<1>6. CASE StoredOne(brBatch[1]) /\ (\A m \in Msgs : Gone(m)' <=> Gone(m)) /\ ~Gone(brBatch[1])
  <2>1. /\ brBatch[1] \in Msgs /\ Sent(brBatch[1])
        /\ brStored'[brBatch[1]] = brStored[brBatch[1]] + 1 /\ brStored[brBatch[1]] \in Nat
        /\ \A x \in Msgs \ {brBatch[1]} : brStored'[x] = brStored[x]
    BY <1>3, <1>6 DEF StoredOne
  <2>2. /\ Copies'[brBatch[1]] = Copies[brBatch[1]] + 1 /\ Copies[brBatch[1]] \in Nat
        /\ \A x \in Msgs \ {brBatch[1]} : Copies'[x] = Copies[x]
    BY <1>2, <2>1
  <2> QED BY <1>1, <1>2, <1>6, <2>1, <2>2, Hands
<1> QED BY <1>1, <1>4, <1>5, <1>6

-----------------------------------------------------------------------------
(* A message arrives; the server process goes *)

LEMMA PostStep ==
  ASSUME BrInv, BrPost
  PROVE  BrInv' /\ ContractStep
<1> USE MsgNumbers DEF BrInv
<1>14. PICK n \in Msgs : n = brPosted + 1
  BY DEF BrPost
<1>1. /\ n = brPosted + 1 /\ brPosted' = n /\ brPosted \in Nat
      /\ UNCHANGED <<brKind, cursorVars, brBatch, brAt, keepVars, brPushes>>
  BY <1>14 DEF BrPost, BrForms
<1>2. UNCHANGED <<brCursor, brMem, brSeeded, brUpto, brStored, brSeen, brSeenDisk, brAcked,
                  brPage, brOld, brMissed>>
  BY <1>1 DEF cursorVars, keepVars
<1>3. InOrder' /\ Batch' = Batch
  BY <1>1 DEF BrForms, InOrder, Batch
<1>4. 0..brPosted \subseteq 0..brPosted' /\ 1..brPosted \subseteq 1..brPosted' /\ 1..brPosted \subseteq Msgs
  BY <1>1 DEF BrForms
<1>5. brMem \in brCursor..brPosted'
  BY <1>1 DEF BrForms
<1>6. \A m \in Msgs : m > brPosted' => brStored[m] = 0 /\ brPushes[m] = 0
  BY <1>1 DEF BrForms
<1>7. BrForms'
  BY <1>1, <1>2, <1>3, <1>4, <1>5, <1>6 DEF BrForms
<1>8. MarkedFirst' /\ StoredFirst' /\ AnsweredLast'
  BY <1>1, <1>2, <1>3 DEF MarkedFirst, StoredFirst, AnsweredLast
<1>9. PushedFirst'
  <2>1. CASE brKind # "cloud_mail"
    BY <1>1, <2>1 DEF PushedFirst
  <2>2. CASE brKind = "cloud_mail"
    <3>1. \A m \in brMissed : m <= brCursor \/ m <= brPosted' - brPage
      BY <1>1, <2>2 DEF PushedFirst, BrForms
    <3> QED BY <1>1, <1>2, <1>3, <2>2, <3>1 DEF PushedFirst
  <2> QED BY <2>1, <2>2
<1>10. Promise' = Promise
  BY <1>1, <1>2 DEF Promise
<1>11. /\ \A m \in Msgs : Copies[m] = IF brKind \in {"wechat", "feishu", "whatsapp"}
                                      THEN brStored[m] ELSE brPushes[m]
       /\ \A m \in Msgs : Copies'[m] = Copies[m]
       /\ \A m \in Msgs : Gone(m)' <=> Gone(m)
  BY <1>1, <1>2 DEF Copies, Gone
<1>12. CASE brKind = "cloud_mail" /\ ~brSeeded
  <2>1. \A m \in Msgs : ~Sent(m) /\ ~Sent(m)'
    BY <1>1, <1>2, <1>12 DEF Sent
  <2> QED BY <1>7, <1>8, <1>9, <1>10, <1>11, <2>1, Rests
<1>13. CASE ~(brKind = "cloud_mail" /\ ~brSeeded)
  <2>1. /\ n \notin brOld /\ n \notin brMissed /\ n \notin brAcked /\ ~(n <= brCursor)
        /\ ~(n <= brPosted) /\ n <= brPosted'
    BY <1>1 DEF BrForms
  <2>7. brKind' = brKind /\ brPosted' = n
    BY <1>1
  <2>2. ~Sent(n) /\ Sent(n)'
    BY <1>2, <1>13, <2>1, <2>7 DEF Sent
  <2>3. ~Gone(n)'
    BY <1>2, <2>1, <2>7 DEF Gone
  <2>4. Copies[n] = 0 /\ Copies'[n] = 0
    <3>1. n > brPosted
      BY <1>1
    <3> QED BY <1>11, <2>7, <3>1 DEF BrForms
  <2>5. \A x \in Msgs \ {n} : Sent(x)' <=> Sent(x)
    <3>1. \A x \in Msgs \ {n} : x <= brPosted' <=> x <= brPosted
      BY <1>1
    <3> QED BY <1>1, <1>2, <3>1 DEF Sent
  <2>6. ContractStep
    BY <1>10, <1>11, <2>2, <2>3, <2>4, <2>5, <2>7, Arrives
  <2> QED BY <1>7, <1>8, <1>9, <2>6
<1> QED BY <1>12, <1>13

LEMMA CrashStep ==
  ASSUME BrInv, BrCrash
  PROVE  BrInv' /\ ContractStep
<1> USE MsgNumbers DEF BrInv
<1>1. /\ brBatch' = <<>> /\ brAt' = "idle" /\ brMem' = brCursor /\ brSeen' = brSeenDisk
      /\ UNCHANGED <<brKind, brPosted, brCursor, brSeeded, brUpto, brStored, brSeenDisk, brAcked,
                     brPushes, brPage, brOld, brMissed>>
  BY DEF BrCrash
<1>2. InOrder' /\ Batch' = {} /\ Len(brBatch') = 0
  BY <1>1, BatchNone
<1>3. /\ brCursor \in 0..brPosted /\ brMem \in brCursor..brPosted /\ brPosted \in Nat
      /\ brStored \in [Msgs -> Nat] /\ brPushes \in [Msgs -> Nat]
  BY DEF BrForms
<1>4. BrForms'
  BY <1>1, <1>2, <1>3 DEF BrForms
<1>5. MarkedFirst' /\ AnsweredLast' /\ PushedFirst'
  BY <1>1, <1>2 DEF MarkedFirst, AnsweredLast, PushedFirst
<1>6. StoredFirst'
  <2>1. CASE brKind # "wechat"
    BY <1>1, <2>1 DEF StoredFirst
  <2>2. CASE brKind = "wechat"
    <3>1. \A m \in 1..brCursor : brStored[m] > 0
      BY <1>3, <2>2 DEF StoredFirst
    <3>2. \A m \in brSeenDisk : brStored[m] > 0
      BY <2>2 DEF StoredFirst, BrForms
    <3> QED BY <1>1, <1>2, <2>2, <3>1, <3>2 DEF StoredFirst
  <2> QED BY <2>1, <2>2
<1>7. /\ \A m \in Msgs : Copies'[m] = Copies[m] /\ Copies[m] \in Nat
      /\ \A m \in Msgs : Sent(m)' <=> Sent(m)
      /\ Promise' = Promise
  BY <1>1, <1>3 DEF Copies, Sent, Promise
<1>8. CASE brKind \in {"telegram", "imap"}
  <2>1. \A m \in Msgs : Gone(m) => Gone(m)'
    BY <1>1, <1>2 DEF Gone
  <2>2. Promise = "at_most_once"
    BY <1>8 DEF Promise
  <2> QED BY <1>4, <1>5, <1>6, <1>7, <2>1, <2>2, Loses
<1>9. CASE brKind = "wechat"
  BY <1>1, <1>4, <1>5, <1>6, <1>9, WechatFate, WechatRests
<1>10. CASE brKind = "cloud_mail"
  <2>1. \A m \in Batch : ~(m <= brCursor) /\ m \notin brMissed
    BY <1>3, <1>10 DEF PushedFirst, BrForms
  <2>2. \A m \in Msgs : Gone(m)' <=> Gone(m)
    BY <1>1, <1>2, <1>10, <2>1 DEF Gone, Batch
  <2> QED BY <1>4, <1>5, <1>6, <1>7, <2>2, Rests
<1>11. CASE brKind \in {"feishu", "whatsapp"}
  <2>1. \A m \in Msgs : Gone(m)' <=> Gone(m)
    BY <1>1, <1>2, <1>11 DEF Gone, Batch, AnsweredLast
  <2> QED BY <1>4, <1>5, <1>6, <1>7, <2>1, Rests
<1> QED BY <1>8, <1>9, <1>10, <1>11 DEF BrForms, AllKinds

-----------------------------------------------------------------------------
(* Every step *)

LEMMA ServerStep ==
  ASSUME BrInv, BrServer
  PROVE  BrInv' /\ ContractStep
<1>1. CASE TelegramFetch \/ TelegramMark \/ TelegramStore \/ TelegramPush
  <2>1. brKind = "telegram"
    BY <1>1 DEF TelegramFetch, TelegramMark, TelegramStore, TelegramPush
  <2> QED BY <1>1, <2>1, TelegramSteps
<1>2. CASE WechatFetch \/ WechatLand \/ WechatRecord \/ WechatPush \/ WechatCheckpoint
  <2>1. brKind = "wechat"
    BY <1>2 DEF WechatFetch, WechatLand, WechatRecord, WechatPush, WechatCheckpoint
  <2> QED BY <1>2, <2>1, WechatSteps
<1>3. CASE ImapReconcile \/ ImapPush
  <2>1. brKind = "imap"
    BY <1>3 DEF ImapReconcile, ImapPush
  <2> QED BY <1>3, <2>1, ImapSteps
<1>4. CASE CloudSeed \/ CloudPoll \/ CloudPush \/ CloudCheckpoint
  <2>1. brKind = "cloud_mail"
    BY <1>4 DEF CloudSeed, CloudPoll, CloudPush, CloudCheckpoint
  <2> QED BY <1>4, <2>1, CloudSteps
<1>5. CASE \/ FeishuReceive \/ FeishuStore
           \/ WhatsappReceive \/ WhatsappStore \/ HookPush \/ HookAck
  <2>1. /\ brKind \in {"feishu", "whatsapp"}
        /\ FeishuReceive \/ FeishuStore => brKind = "feishu"
        /\ WhatsappReceive \/ WhatsappStore => brKind = "whatsapp"
    BY <1>5 DEF FeishuReceive, FeishuStore, WhatsappReceive, WhatsappStore, HookPush, HookAck
  <2> QED BY <1>5, <2>1, HookSteps
<1> QED BY <1>1, <1>2, <1>3, <1>4, <1>5 DEF BrServer

LEMMA BridgeStarts ==
  ASSUME ChInit
  PROVE  BrInv /\ Contract!Init
<1> USE MsgNumbers
<1>1. /\ brKind \in Kinds /\ brPosted = 0 /\ brCursor = 0 /\ brMem = 0 /\ brSeeded = FALSE
      /\ brUpto = 0 /\ brBatch = <<>> /\ brAt = "idle"
      /\ brStored = [m \in Msgs |-> 0] /\ brPushes = [m \in Msgs |-> 0]
      /\ brSeen = {} /\ brSeenDisk = {} /\ brAcked = {} /\ brOld = {} /\ brMissed = {}
      /\ brPage \in Nat \ {0}
  BY BridgeAssumption DEF ChInit, BrInit
<1>2. InOrder /\ Batch = {} /\ Len(brBatch) = 0
  BY <1>1 DEF InOrder, Batch
<1>9. /\ brKind \in AllKinds /\ brPosted \in 0..Cardinality(Msgs)
      /\ brCursor \in 0..brPosted /\ brMem \in brCursor..brPosted /\ brUpto \in 0..brPosted
  BY <1>1, BridgeAssumption
<1>10. /\ brStored \in [Msgs -> Nat] /\ brPushes \in [Msgs -> Nat]
       /\ \A m \in Msgs : brStored[m] = 0 /\ brPushes[m] = 0
  BY <1>1
<1>3. BrForms
  BY <1>1, <1>2, <1>9, <1>10 DEF BrForms
<1>4. MarkedFirst /\ StoredFirst /\ PushedFirst /\ AnsweredLast
  BY <1>1, <1>2 DEF MarkedFirst, StoredFirst, PushedFirst, AnsweredLast
<1>5. \A m \in Msgs : ~Sent(m)
  BY <1>1 DEF Sent
<1>6. Fate = [m \in Msgs |-> "unsent"]
  BY <1>5 DEF Fate
<1>7. Copies = [m \in Msgs |-> 0]
  BY <1>1 DEF Copies
<1>8. Promise \in {"at_most_once", "at_least_once", "best_effort"}
  BY DEF Promise
<1> QED BY <1>3, <1>4, <1>6, <1>7, <1>8 DEF BrInv, Contract!Init

LEMMA BridgeKeeps == BrInv /\ [ChNext]_chVars => BrInv' /\ ContractStep
<1> SUFFICES ASSUME BrInv, [ChNext]_chVars PROVE BrInv' /\ ContractStep
  OBVIOUS
<1>1. CASE BrPost
  BY <1>1, PostStep
<1>2. CASE BrServer
  BY <1>2, ServerStep
<1>3. CASE BrCrash
  BY <1>3, CrashStep
<1>4. CASE UNCHANGED brVars
  <2>1. BrInv'
    BY <1>4 DEF brVars, BrInv, BrForms, InOrder, Batch, MarkedFirst, StoredFirst, PushedFirst,
                AnsweredLast
  <2>2. /\ Promise' = Promise
        /\ \A m \in Msgs : (Sent(m)' <=> Sent(m)) /\ Copies'[m] = Copies[m] /\ (Gone(m)' <=> Gone(m))
    BY <1>4 DEF brVars, Promise, Sent, Copies, Gone
  <2> QED BY <2>1, <2>2, Rests
<1> QED BY <1>1, <1>2, <1>3, <1>4 DEF ChNext, chVars

\* Each server starts and steps as the channel of its promise does: no step hands on
\* a message a second time where the promise is at most once, loses one where it is
\* at least once, or hands on what is lost (the order of mark, store, push and
\* answer in the servers' poll loops and webhook handlers).
THEOREM StepsKeepPromise == ChSpec => Contract!Init /\ [][Contract!Next]_(Contract!vars)
<1>1. ChInit => BrInv /\ Contract!Init
  BY BridgeStarts
<1>2. BrInv /\ [ChNext]_chVars => BrInv' /\ [Contract!Next]_(Contract!vars)
  BY BridgeKeeps DEF ContractStep
<1> QED BY <1>1, <1>2, PTL DEF ChSpec

\* telegram and imap announce a message once since the mark is saved first, wechat
\* since the replay key is on disk before the push (_record_seen, _is_replay).
THEOREM Announced == ChSpec => []AnnouncedOnce
<1>1. ChInit => BrInv
  BY BridgeStarts
<1>2. BrInv /\ [ChNext]_chVars => BrInv'
  BY BridgeKeeps
<1>3. BrInv => AnnouncedOnce
  BY DEF BrInv, MarkedFirst, StoredFirst, AnnouncedOnce
<1> QED BY <1>1, <1>2, <1>3, PTL DEF ChSpec

-----------------------------------------------------------------------------
(* Announcements and events *)

FilesOf(m) == {e \in ibFiles : e.msg = m}
Shown(m)   == IF m \in ibPreviews THEN 1 ELSE 0

\* An event that is in its file and in the previews, or was announced and is still
\* there, is there because a deletion failed.
IbInv == /\ ibTold \in [Msgs -> Nat] /\ ibFaults \in Nat
         /\ \A m \in Msgs :
              /\ IsFiniteSet(FilesOf(m))
              /\ ibTold[m] + Cardinality(FilesOf(m)) + Shown(m) <= brPushes[m] + ibFaults

LEMMA Counted ==
  ASSUME BrInv, IbInv, NEW m \in Msgs
  PROVE  /\ brPushes[m] \in Nat /\ ibTold[m] \in Nat /\ ibFaults \in Nat
         /\ IsFiniteSet(FilesOf(m)) /\ Cardinality(FilesOf(m)) \in Nat /\ Shown(m) \in {0, 1}
         /\ ibTold[m] + Cardinality(FilesOf(m)) + Shown(m) <= brPushes[m] + ibFaults
BY FS_CardinalityType DEF BrInv, BrForms, IbInv, Shown

LEMMA FewerFiles ==
  ASSUME NEW m, IsFiniteSet(FilesOf(m)), ibFiles' \subseteq ibFiles
  PROVE  /\ IsFiniteSet(FilesOf(m)') /\ Cardinality(FilesOf(m)') \in Nat
         /\ Cardinality(FilesOf(m)') <= Cardinality(FilesOf(m))
<1>1. FilesOf(m)' \subseteq FilesOf(m)
  BY DEF FilesOf
<1> QED BY <1>1, FS_Subset, FS_CardinalityType

\* What only takes files and previews away, or counts a push or a fault, is no matter.
LEMMA EventsRest ==
  ASSUME BrInv, IbInv, ibFiles' \subseteq ibFiles, ibPreviews' \subseteq ibPreviews,
         ibTold' = ibTold, ibFaults' \in Nat, ibFaults' >= ibFaults,
         \A m \in Msgs : brPushes'[m] \in Nat /\ brPushes'[m] >= brPushes[m]
  PROVE  IbInv'
<1> SUFFICES ASSUME NEW m \in Msgs
             PROVE  /\ IsFiniteSet(FilesOf(m)')
                    /\ ibTold[m] + Cardinality(FilesOf(m)') + Shown(m)' <= brPushes'[m] + ibFaults'
  BY DEF IbInv
<1>1. Shown(m)' \in {0, 1} /\ Shown(m)' <= Shown(m)
  BY DEF Shown
<1> QED BY <1>1, Counted, FewerFiles

LEMMA EventPushed ==
  ASSUME BrInv, IbInv, NEW m, PushedOne(m), NEW c, IbPush([msg |-> m, copy |-> c])
  PROVE  IbInv'
<1> DEFINE e == [msg |-> m, copy |-> c]
<1>1. /\ ibFiles' = ibFiles \cup {e} /\ e.msg = m
      /\ UNCHANGED <<ibPreviews, ibTold, ibFaults>>
  BY DEF IbPush
<1> HIDE DEF e
<1> SUFFICES ASSUME NEW x \in Msgs
             PROVE  /\ IsFiniteSet(FilesOf(x)')
                    /\ ibTold[x] + Cardinality(FilesOf(x)') + Shown(x) <= brPushes'[x] + ibFaults
  BY <1>1 DEF IbInv, Shown
<1>2. CASE x = m
  <2>1. FilesOf(x)' = FilesOf(x) \cup {e}
    BY <1>1, <1>2 DEF FilesOf
  <2>2. /\ IsFiniteSet(FilesOf(x)') /\ Cardinality(FilesOf(x)') \in Nat
        /\ Cardinality(FilesOf(x)') <= Cardinality(FilesOf(x)) + 1
    <3>1. IsFiniteSet(FilesOf(x)) /\ Cardinality(FilesOf(x)) \in Nat
      BY Counted
    <3>2. /\ IsFiniteSet(FilesOf(x) \cup {e})
          /\ Cardinality(FilesOf(x) \cup {e}) \in {Cardinality(FilesOf(x)), Cardinality(FilesOf(x)) + 1}
      BY <3>1, FS_AddElement
    <3> QED BY <2>1, <3>1, <3>2
  <2>3. brPushes'[x] = brPushes[x] + 1
    BY <1>2 DEF PushedOne
  <2> QED BY <2>2, <2>3, Counted
<1>3. CASE x # m
  <2>1. FilesOf(x)' = FilesOf(x)
    BY <1>1, <1>3 DEF FilesOf
  <2>2. brPushes'[x] = brPushes[x]
    BY <1>3 DEF PushedOne
  <2> QED BY <2>1, <2>2, Counted
<1> QED BY <1>2, <1>3

LEMMA EventConsumed ==
  ASSUME BrInv, IbInv, UNCHANGED brVars, NEW e \in IbEvent, IbConsume(e)
  PROVE  IbInv'
<1>1. /\ e \in ibFiles /\ e.msg \in Msgs /\ ibPreviews' = ibPreviews \cup {e.msg}
      /\ UNCHANGED <<ibTold, brPushes>>
      /\ \/ ibFiles' = ibFiles \ {e} /\ ibFaults' = ibFaults
         \/ ibFiles' = ibFiles /\ ibFaults' = ibFaults + 1
  BY DEF IbConsume, IbPending, IbPreviewed, IbEvent, brVars
<1>2. ibFaults' \in Nat
  BY <1>1 DEF IbInv
<1> SUFFICES ASSUME NEW m \in Msgs
             PROVE  /\ IsFiniteSet(FilesOf(m)')
                    /\ ibTold[m] + Cardinality(FilesOf(m)') + Shown(m)' <= brPushes[m] + ibFaults'
  BY <1>1, <1>2 DEF IbInv
<1>3. ibFiles' \subseteq ibFiles /\ Shown(m)' \in {0, 1}
  BY <1>1 DEF Shown
<1>4. CASE m # e.msg
  <2>1. Shown(m)' = Shown(m)
    BY <1>1, <1>4 DEF Shown
  <2>2. ibFaults' >= ibFaults
    BY <1>1, Counted
  <2> QED BY <1>2, <1>3, <2>1, <2>2, Counted, FewerFiles
<1>5. CASE m = e.msg /\ ibFiles' = ibFiles \ {e} /\ ibFaults' = ibFaults
  <2>1. FilesOf(m)' = FilesOf(m) \ {e} /\ e \in FilesOf(m)
    BY <1>1, <1>5 DEF FilesOf
  <2>2. /\ IsFiniteSet(FilesOf(m)') /\ Cardinality(FilesOf(m)') \in Nat
        /\ Cardinality(FilesOf(m)') = Cardinality(FilesOf(m)) - 1
    BY <2>1, Counted, FS_RemoveElement, FS_CardinalityType
  <2> QED BY <1>3, <1>5, <2>2, Counted
<1>6. CASE m = e.msg /\ ibFiles' = ibFiles /\ ibFaults' = ibFaults + 1
  <2>1. FilesOf(m)' = FilesOf(m)
    BY <1>6 DEF FilesOf
  <2> QED BY <1>3, <1>6, <2>1, Counted
<1> QED BY <1>1, <1>4, <1>5, <1>6

LEMMA EventsAnnounced ==
  ASSUME BrInv, IbInv, UNCHANGED brVars, IbDispatch
  PROVE  IbInv'
<1>1. /\ ibFiles' = ibFiles /\ ibPreviews' = {} /\ brPushes' = brPushes
      /\ \/ /\ ibTold' = [m \in Msgs |-> ibTold[m] + (IF m \in ibPreviews THEN 1 ELSE 0)]
            /\ ibFaults' = ibFaults
         \/ ibTold' = ibTold /\ ibFaults' = ibFaults + 1
  BY DEF IbDispatch, IbAnnounces, brVars
<1>2. CASE ibTold' = ibTold /\ ibFaults' = ibFaults + 1
  <2>1. ibFaults' \in Nat /\ ibFaults' >= ibFaults
    BY <1>2 DEF IbInv
  <2> QED BY <1>1, <1>2, <2>1, EventsRest, Counted
<1>3. CASE /\ ibTold' = [m \in Msgs |-> ibTold[m] + (IF m \in ibPreviews THEN 1 ELSE 0)]
           /\ ibFaults' = ibFaults
  <2>1. ibTold' = [m \in Msgs |-> ibTold[m] + Shown(m)]
    BY <1>3 DEF Shown
  <2>2. ibTold' \in [Msgs -> Nat]
    BY <2>1, Counted
  <2>3. ASSUME NEW m \in Msgs
        PROVE  /\ IsFiniteSet(FilesOf(m)')
               /\ ibTold'[m] + Cardinality(FilesOf(m)') + Shown(m)' <= brPushes'[m] + ibFaults'
    <3>1. FilesOf(m)' = FilesOf(m) /\ Shown(m)' = 0 /\ ibTold'[m] = ibTold[m] + Shown(m)
      BY <1>1, <2>1 DEF FilesOf, Shown
    <3> QED BY <1>1, <1>3, <3>1, Counted
  <2> QED BY <1>3, <2>2, <2>3, Counted DEF IbInv
<1> QED BY <1>1, <1>2, <1>3

\* A step of the server pushes the head of its batch, or leaves the inbox alone.
LEMMA ServerPushes ==
  ASSUME BrInv, BrServer
  PROVE  \/ /\ PushedOne(brBatch[1])
            /\ \/ \E c : IbPush([msg |-> brBatch[1], copy |-> c])
               \/ ibFaults' = ibFaults + 1 /\ UNCHANGED <<ibFiles, ibPreviews, ibTold>>
         \/ /\ brPushes' = brPushes
            /\ UNCHANGED <<ibFiles, ibPreviews, ibTold>>
            /\ ibFaults' \in {ibFaults, ibFaults + 1}
<1>1. CASE TelegramPush \/ WechatPush \/ ImapPush \/ CloudPush \/ HookPush
  <2>1. /\ brPushes' = [brPushes EXCEPT ![brBatch[1]] = @ + 1] /\ brAt = "push"
        /\ \/ IbPush([msg |-> brBatch[1], copy |-> brPushes[brBatch[1]] + 1])
           \/ ibFaults' = ibFaults + 1 /\ UNCHANGED <<ibFiles, ibPreviews, ibTold>>
    BY <1>1 DEF TelegramPush, WechatPush, ImapPush, CloudPush, HookPush, BrPush, Head0, BrFault,
                OnlyFaults
  <2>2. brBatch # <<>>
    BY <2>1 DEF BrInv, BrForms
  <2> QED BY <2>1, <2>2, HeadPushed
<1>2. CASE \/ TelegramFetch \/ TelegramMark \/ WechatFetch \/ ImapReconcile
           \/ CloudSeed \/ CloudPoll \/ FeishuReceive \/ WhatsappReceive
  BY <1>2 DEF TelegramFetch, TelegramMark, WechatFetch, ImapReconcile, CloudSeed, CloudPoll,
              FeishuReceive, WhatsappReceive, BrFetched, ibVars
<1>3. CASE \/ TelegramStore \/ WechatLand \/ WechatRecord \/ WechatCheckpoint
           \/ CloudCheckpoint \/ FeishuStore \/ WhatsappStore \/ HookAck
  BY <1>3 DEF TelegramStore, WechatLand, WechatRecord, WechatCheckpoint, CloudCheckpoint,
              FeishuStore, WhatsappStore, HookAck, BrFault, OnlyFaults, ibVars
<1> QED BY <1>1, <1>2, <1>3 DEF BrServer

LEMMA InboxKeeps == BrInv /\ IbInv /\ [ChNext]_chVars => IbInv'
<1> SUFFICES ASSUME BrInv, IbInv, [ChNext]_chVars PROVE IbInv'
  OBVIOUS
<1>1. /\ ibFaults \in Nat /\ ibFaults + 1 \in Nat /\ ibFaults + 1 >= ibFaults
      /\ \A m \in Msgs : brPushes[m] \in Nat
  BY DEF IbInv, BrInv, BrForms
<1>2. ASSUME brPushes' = brPushes, ibTold' = ibTold, ibFaults' \in {ibFaults, ibFaults + 1},
             ibFiles' \subseteq ibFiles, ibPreviews' \subseteq ibPreviews
      PROVE  IbInv'
  BY <1>1, <1>2, EventsRest
<1>3. CASE BrPost
  BY <1>2, <1>3 DEF BrPost, ibVars
<1>4. CASE BrServer
  <2>1. CASE PushedOne(brBatch[1]) /\ \E c : IbPush([msg |-> brBatch[1], copy |-> c])
    BY <2>1, EventPushed
  <2>2. CASE /\ PushedOne(brBatch[1]) /\ ibFaults' = ibFaults + 1
             /\ UNCHANGED <<ibFiles, ibPreviews, ibTold>>
    <3>1. \A m \in Msgs : brPushes'[m] \in Nat /\ brPushes'[m] >= brPushes[m]
      BY <1>1, <2>2 DEF PushedOne
    <3> QED BY <1>1, <2>2, <3>1, EventsRest
  <2> QED BY <1>2, <1>4, <2>1, <2>2, ServerPushes
<1>5. CASE BrCrash
  BY <1>2, <1>5 DEF BrCrash
<1>6. CASE IbAgent /\ UNCHANGED brVars
  <2>1. brPushes' = brPushes
    BY <1>6 DEF brVars
  <2>2. CASE IbDispatch
    BY <1>6, <2>2, EventsAnnounced
  <2>3. CASE \E e \in IbEvent : IbConsume(e)
    BY <1>6, <2>3, EventConsumed
  <2>4. CASE \E e \in IbEvent : IbDeadLetter(e)
    BY <1>2, <2>1, <2>4 DEF IbDeadLetter
  <2>5. CASE IbPass \/ IbDismiss \/ IbCrash
    BY <1>2, <2>1, <2>5 DEF IbPass, IbDismiss, IbCrash
  <2> QED BY <1>6, <2>2, <2>3, <2>4, <2>5 DEF IbAgent, IbSweep
<1>7. CASE UNCHANGED chVars
  BY <1>2, <1>7 DEF chVars, brVars, ibVars
<1> QED BY <1>3, <1>4, <1>5, <1>6, <1>7 DEF ChNext

\* A message is announced to the agent at most once for each event a server wrote for
\* it, plus once for each deletion or write that failed (inbox.py:_scan_once).
THEOREM ToldOnce == ChSpec => []ToldPerEvent
<1>1. ChInit => BrInv /\ IbInv
  <2> SUFFICES ASSUME ChInit PROVE IbInv
    BY BridgeStarts
  <2>1. /\ ibFiles = {} /\ ibPreviews = {} /\ ibTold = [m \in Msgs |-> 0] /\ ibFaults = 0
        /\ brPushes = [m \in Msgs |-> 0]
    BY DEF ChInit, IbInit, BrInit
  <2>2. \A m \in Msgs : FilesOf(m) = {} /\ Shown(m) = 0
    BY <2>1 DEF FilesOf, Shown
  <2>3. IsFiniteSet({}) /\ Cardinality({}) = 0
    BY FS_EmptySet
  <2> QED BY <2>1, <2>2, <2>3 DEF IbInv
<1>2. BrInv /\ IbInv /\ [ChNext]_chVars => BrInv' /\ IbInv'
  BY BridgeKeeps, InboxKeeps
<1>3. BrInv /\ IbInv => ToldPerEvent
  <2> SUFFICES ASSUME BrInv, IbInv, NEW m \in Msgs PROVE ibTold[m] <= brPushes[m] + ibFaults
    BY DEF ToldPerEvent
  <2> QED BY Counted
<1> QED BY <1>1, <1>2, <1>3, PTL DEF ChSpec

-----------------------------------------------------------------------------
(* Types of mail *)

\* What of the types is not in MlInv.
MlRest ==
  /\ mlDigest \in [Agents -> SUBSET Mails] /\ mlBounced \subseteq Letters
  /\ mlFaults \in Nat /\ mlCrashes \in Nat /\ mlFaults + mlCrashes <= MaxMailTrouble

LEMMA TroubleCounts ==
  ASSUME MlRest
  PROVE  /\ MlTrouble => mlCrashes + 1 \in Nat /\ mlFaults + (mlCrashes + 1) <= MaxMailTrouble
         /\ \A n \in Nat : MlFaulty(n) => mlFaults' \in Nat /\ mlFaults' + mlCrashes <= MaxMailTrouble
BY MailAssumption DEF MlRest, MlTrouble, MlFaulty

LEMMA MlRestKept == MlInv /\ MlRest /\ [MlNext]_mlVars => MlRest'
<1> SUFFICES ASSUME MlInv, MlRest, [MlNext]_mlVars PROVE MlRest'
  OBVIOUS
<1>a. ASSUME mlDigest' = mlDigest, mlBounced' \subseteq Letters,
             \/ UNCHANGED <<mlFaults, mlCrashes>>
             \/ (\E n \in Nat : MlFaulty(n)) /\ UNCHANGED mlCrashes
             \/ MlTrouble /\ mlCrashes' = mlCrashes + 1 /\ UNCHANGED mlFaults
      PROVE  MlRest'
  BY <1>a, TroubleCounts DEF MlRest
<1>b. mlBounced \subseteq Letters
  BY DEF MlRest
<1>1. CASE UNCHANGED mlVars
  BY <1>1, <1>a, <1>b DEF mlVars
<1>2. CASE MlActor
  BY <1>2, <1>a, <1>b DEF MlActor, MlSend, MlReadMail, MlArchive, MlDelete, MlToolStep, MlPersonWrites,
                          postVars
<1>3. ASSUME NEW m \in Letters, MlMailman(m) PROVE MlRest'
  BY <1>3, <1>a, <1>b DEF MlMailman, MlDeliver, MlSelfOpen, MlSelfWrite, MlCleanUp, MlBounce, MlDies, MlFault
<1>4. ASSUME NEW a \in Agents, NEW m \in Mails, MlPollInbox(a, m) PROVE MlRest'
  BY <1>4, <1>a, <1>b DEF MlPollInbox, postVars
<1>5. ASSUME NEW a \in Agents, NEW p \in PseudoMails,
             MlClaim(a, p) \/ MlClaimWrite(a, p) \/ MlClaimCommit(a, p) PROVE MlRest'
  <2>1. \A folder, place :
          1 + Cardinality({folder} \cap {"inbox"}) + Cardinality({place} \cap {"claim"}) \in Nat
    <3>1. \A x, y : IsFiniteSet({x} \cap {y})
      BY FS_Singleton, FS_Subset
    <3>2. \A x, y : Cardinality({x} \cap {y}) \in Nat
      BY <3>1, FS_CardinalityType
    <3> QED BY <3>2
  <2>2. MlRollback(a, p) => \E n \in Nat : MlFaulty(n)
    BY <2>1 DEF MlRollback
  <2> QED BY <1>5, <1>a, <1>b, <2>2 DEF MlClaim, MlClaimWrite, MlClaimCommit, postVars
<1>6. ASSUME NEW a \in Agents, NEW t \in MailThreads, MlCompute(a, t) \/ MlPublish(a, t) PROVE MlRest'
  <2>1. CASE MlCompute(a, t)
    BY <2>1, <1>a, <1>b DEF MlCompute, postVars
  <2>2. CASE MlPublish(a, t)
    <3>1. mlThread[a][t].digest \subseteq Mails
      BY DEF MlInv, MlKinds, ThreadStates
    <3>2. mlDigest' \in [Agents -> SUBSET Mails]
      BY <2>2, <3>1 DEF MlPublish, MlRest
    <3>3. UNCHANGED <<mlBounced, mlCrashes>> /\ (mlFaults' = mlFaults \/ MlFault)
      BY <2>2 DEF MlPublish, postVars
    <3> QED BY <3>2, <3>3, TroubleCounts DEF MlRest, MlFault
  <2> QED BY <1>6, <2>1, <2>2
<1>7. ASSUME NEW a \in Agents, MlCrash(a) \/ MlBoot(a) PROVE MlRest'
  BY <1>7, <1>a, <1>b DEF MlCrash, MlBoot, postVars
<1>8. ASSUME NEW a \in Agents, MlPoller(a) \/ MlTool(a) PROVE MlRest'
  <2>1. "poller" \in MailThreads /\ "tool" \in MailThreads
    BY DEF MailThreads
  <2> QED BY <1>8, <2>1, <1>4, <1>5, <1>6 DEF MlPoller, MlTool
<1> QED BY <1>1, <1>2, <1>3, <1>7, <1>8 DEF MlNext

\* Every value of the mail is of its type.
THEOREM MailTyped == MlSpec => []MlTypeOK
<1>1. MlInit => MlRest
  <2> SUFFICES ASSUME MlInit PROVE MlRest
    OBVIOUS
  <2>1. mlDigest = [a \in Agents |-> {}] /\ mlBounced = {} /\ mlFaults = 0 /\ mlCrashes = 0
    BY DEF MlInit
  <2>2. mlDigest \in [Agents -> SUBSET Mails]
    BY <2>1
  <2> QED BY <2>1, <2>2, MailAssumption DEF MlRest
<1>2. MlInv /\ MlRest => MlTypeOK
  <2> SUFFICES ASSUME MlInv, MlRest PROVE MlTypeOK
    OBVIOUS
  <2>1. MlKinds
    BY DEF MlInv
  <2>2. \A a \in Agents : mlRead[a] \cup mlSeen[a] \cup mlDigest[a] \subseteq Mails
    BY <2>1 DEF MlKinds, MlRest
  <2>3. \A a \in Agents, t \in MailThreads :
          /\ mlThread[a][t].at \in {"idle", "compute", "publish", "claimed", "written"}
          /\ mlThread[a][t].mail \cup mlThread[a][t].digest \subseteq Mails
    BY <2>1 DEF MlKinds, ThreadStates
  <2>4. \A m \in mlMailman : mlStep[m] # "over"
    BY DEF MlInv, StepsWell
  <2>5. \A a \in Agents : mlKept[a] \subseteq PseudoMails
    BY <2>1 DEF MlKinds
  <2> QED BY <2>1, <2>2, <2>3, <2>4, <2>5 DEF MlKinds, MlRest, MlTypeOK
<1> QED BY <1>1, <1>2, MlInitInv, MlNextInv, MlRestKept, PTL DEF MlSpec

-----------------------------------------------------------------------------
(* Repeats *)

Trouble == ibFaults + ibCrashes


\* The server may still push it: cloud_mail what the watermark has not passed and
\* the poll at hand has not pushed yet, the others what is not answered.
MayPush(m) ==
  \/ /\ brKind = "cloud_mail" /\ m > brCursor
     /\ brAt = "idle" \/ m \in Batch \/ m > brUpto
  \/ /\ brKind \in {"feishu", "whatsapp"} /\ m \notin brAcked
     /\ ~(brAt = "ack" /\ m \in Batch)

\* A message is pushed once, and once more for each fault or crash so far; one that
\* may still be pushed has that push left.
Again ==
  /\ ibFaults \in 0..MaxFaults /\ ibCrashes \in 0..MaxCrashes
  /\ \A m \in Msgs : /\ brPushes[m] <= 1 + Trouble
                     /\ MayPush(m) => brPushes[m] <= Trouble

\* What a step of the server does to the counts of faults and crashes.
Counts(more) ==
  /\ ibFaults' \in 0..MaxFaults /\ ibCrashes' \in 0..MaxCrashes
  /\ Trouble' = Trouble + more

LEMMA TroubleIs ==
  ASSUME Again PROVE Trouble \in Nat /\ MaxFaults \in Nat /\ MaxCrashes \in Nat
                     /\ ibFaults \in Nat /\ ibCrashes \in Nat
BY InboxAssumption DEF Again, Trouble

LEMMA CountsSame == ASSUME Again, UNCHANGED <<ibFaults, ibCrashes>> PROVE Counts(0)
BY TroubleIs DEF Again, Counts, Trouble

LEMMA CountsFault == ASSUME Again, BrFault, OnlyFaults PROVE Counts(1)
BY TroubleIs DEF Again, Counts, Trouble, BrFault, OnlyFaults

\* A step that pushes nothing, and makes no message one to push; or has a fault.
LEMMA AgainRests ==
  ASSUME BrInv, Again, brPushes' = brPushes,
         \/ Counts(0) /\ \A m \in Msgs : MayPush(m)' => MayPush(m)
         \/ Counts(1)
  PROVE  Again'
<1> SUFFICES ASSUME NEW m \in Msgs
             PROVE  brPushes[m] <= 1 + Trouble' /\ (MayPush(m)' => brPushes[m] <= Trouble')
  BY DEF Again, Counts
<1>1. brPushes[m] \in Nat /\ Trouble \in Nat
  BY TroubleIs DEF BrInv, BrForms
<1>2. brPushes[m] <= 1 + Trouble /\ (MayPush(m) => brPushes[m] <= Trouble)
  BY DEF Again
<1>3. CASE Counts(0) /\ \A x \in Msgs : MayPush(x)' => MayPush(x)
  BY <1>1, <1>2, <1>3 DEF Counts
<1>4. CASE Counts(1)
  BY <1>1, <1>2, <1>4 DEF Counts
<1> QED BY <1>3, <1>4

\* The head is pushed, which may be pushed before and not after.
LEMMA AgainPushes ==
  ASSUME BrInv, Again, NEW h, PushedOne(h), MayPush(h), Counts(0) \/ Counts(1),
         \A m \in Msgs : MayPush(m)' => MayPush(m) /\ m # h
  PROVE  Again'
<1> SUFFICES ASSUME NEW m \in Msgs
             PROVE  brPushes'[m] <= 1 + Trouble' /\ (MayPush(m)' => brPushes'[m] <= Trouble')
  BY DEF Again, Counts
<1>1. brPushes[m] \in Nat /\ Trouble \in Nat /\ Trouble' \in Nat /\ Trouble' >= Trouble
  <2>1. Trouble \in Nat /\ Trouble + 0 \in Nat /\ Trouble + 1 \in Nat
    BY TroubleIs
  <2> QED BY <2>1 DEF BrInv, BrForms, Counts
<1>2. brPushes[m] <= 1 + Trouble /\ (MayPush(m) => brPushes[m] <= Trouble)
  BY DEF Again
<1>3. CASE m = h
  <2>1. brPushes'[m] = brPushes[m] + 1 /\ ~MayPush(m)'
    BY <1>3 DEF PushedOne
  <2> QED BY <1>1, <1>2, <1>3, <2>1
<1>4. CASE m # h
  <2>1. brPushes'[m] = brPushes[m]
    BY <1>4 DEF PushedOne
  <2> QED BY <1>1, <1>2, <2>1
<1> QED BY <1>3, <1>4

\* telegram, imap and wechat push a message once in all.
LEMMA AgainOnce ==
  ASSUME Again, BrInv', brKind' \in {"telegram", "imap", "wechat"}, Counts(0) \/ Counts(1)
  PROVE  Again'
<1>1. \A m \in Msgs : ~MayPush(m)'
  BY DEF MayPush
<1>2. \A m \in Msgs : brPushes'[m] \in Nat /\ brPushes'[m] <= 1
  BY DEF BrInv, BrForms, MarkedFirst, StoredFirst
<1>3. Trouble' \in Nat
  <2>1. Trouble \in Nat /\ Trouble + 0 \in Nat /\ Trouble + 1 \in Nat
    BY TroubleIs
  <2> QED BY <2>1 DEF Counts
<1> QED BY <1>1, <1>2, <1>3 DEF Again, Counts

\* What every step of the server is to the counts.
LEMMA ServerCounts ==
  ASSUME Again, BrServer
  PROVE  Counts(0) \/ Counts(1)
<1>1. \/ UNCHANGED <<ibFaults, ibCrashes>>
      \/ BrFault /\ OnlyFaults
  <2>1. CASE TelegramPush \/ WechatPush \/ ImapPush \/ CloudPush \/ HookPush
    BY <2>1 DEF TelegramPush, WechatPush, ImapPush, CloudPush, HookPush, BrPush, IbPush
  <2>2. CASE \/ TelegramFetch \/ TelegramMark \/ WechatFetch \/ ImapReconcile
             \/ CloudSeed \/ CloudPoll \/ FeishuReceive \/ WhatsappReceive
    BY <2>2 DEF TelegramFetch, TelegramMark, WechatFetch, ImapReconcile, CloudSeed, CloudPoll,
                FeishuReceive, WhatsappReceive, BrFetched, ibVars
  <2>3. CASE \/ TelegramStore \/ WechatLand \/ WechatRecord \/ WechatCheckpoint
             \/ CloudCheckpoint \/ FeishuStore \/ WhatsappStore \/ HookAck
    BY <2>3 DEF TelegramStore, WechatLand, WechatRecord, WechatCheckpoint, CloudCheckpoint,
                FeishuStore, WhatsappStore, HookAck, ibVars
  <2> QED BY <2>1, <2>2, <2>3 DEF BrServer
<1> QED BY <1>1, CountsSame, CountsFault

LEMMA CloudAgain ==
  ASSUME BrInv, Again, brKind = "cloud_mail", CloudSeed \/ CloudPoll \/ CloudPush \/ CloudCheckpoint
  PROVE  Again'
<1> USE MsgNumbers
<1>0. /\ brPosted \in Nat /\ brCursor \in 0..brPosted /\ brUpto \in 0..brPosted
      /\ \A m \in Msgs : m \in Nat
  BY DEF BrInv, BrForms
<1>s. Counts(0) \/ Counts(1)
  BY ServerCounts DEF BrServer
<1>1. CASE CloudSeed
  <2>1. Counts(0)
    BY <1>1, CountsSame DEF CloudSeed, ibVars
  <2>2. /\ brCursor' = brPosted /\ brAt = "idle" /\ UNCHANGED <<brKind, brAt, brBatch, brPushes>>
    BY <1>1 DEF CloudSeed
  <2>3. \A m \in Msgs : MayPush(m)' => MayPush(m)
    BY <1>0, <2>2 DEF MayPush
  <2> QED BY <2>1, <2>2, <2>3, AgainRests
<1>2. CASE CloudPoll
  <2>1. Counts(0)
    BY <1>2, CountsSame DEF CloudPoll, ibVars
  <2>2. brAt = "idle" /\ UNCHANGED <<brKind, brCursor, brPushes>>
    BY <1>2 DEF CloudPoll
  <2>3. \A m \in Msgs : MayPush(m)' => MayPush(m)
    BY <2>2 DEF MayPush
  <2> QED BY <2>1, <2>2, <2>3, AgainRests
<1>3. CASE CloudPush
  <2> DEFINE h == brBatch[1]
  <2>1. /\ brPushes' = [brPushes EXCEPT ![h] = @ + 1] /\ brAt = "push"
        /\ brBatch' = Tail(brBatch) /\ UNCHANGED <<brKind, brCursor, brUpto>>
        /\ brAt' \in {"push", "checkpoint"}
    BY <1>3 DEF CloudPush, BrPush, BrNextMsg, Head0, cursorVars
  <2>2. brBatch # <<>>
    BY <2>1 DEF BrInv, BrForms
  <2>3. PushedOne(h)
    BY <2>1, <2>2, HeadPushed
  <2>4. Batch' = Batch \ {h} /\ h \in Batch
    BY <2>1, <2>2, BatchTail, BatchEnds DEF BrInv, BrForms
  <2>5. h > brCursor /\ h \in 1..brUpto /\ h \in Nat
    BY <1>0, <2>1, <2>4 DEF BrInv, PushedFirst
  <2> HIDE DEF h
  <2>6. MayPush(h)
    BY <2>4, <2>5 DEF MayPush
  <2>7. \A m \in Msgs : MayPush(m)' => MayPush(m) /\ m # h
    BY <1>0, <2>1, <2>4, <2>5 DEF MayPush
  <2> QED BY <1>s, <2>3, <2>6, <2>7, AgainPushes
<1>4. CASE CloudCheckpoint
  <2>1. brAt = "checkpoint" /\ UNCHANGED <<brKind, brPushes, brUpto>> /\ brAt' = "idle"
    BY <1>4 DEF CloudCheckpoint
  <2>2. CASE brCursor' = brUpto /\ UNCHANGED ibVars
    <3>1. brCursor <= brUpto
      BY <2>1 DEF BrInv, PushedFirst
    <3>2. \A m \in Msgs : MayPush(m)' => MayPush(m)
      BY <1>0, <2>1, <2>2, <3>1 DEF MayPush
    <3> QED BY <2>1, <2>2, <3>2, CountsSame, AgainRests DEF ibVars
  <2>3. CASE BrFault /\ OnlyFaults
    BY <2>1, <2>3, CountsFault, AgainRests
  <2> QED BY <1>4, <2>2, <2>3 DEF CloudCheckpoint
<1> QED BY <1>1, <1>2, <1>3, <1>4

LEMMA HookAgain ==
  ASSUME BrInv, Again, brKind \in {"feishu", "whatsapp"},
         \/ FeishuReceive \/ FeishuStore
         \/ WhatsappReceive \/ WhatsappStore \/ HookPush \/ HookAck
  PROVE  Again'
<1> USE MsgNumbers
<1>s. Counts(0) \/ Counts(1)
  BY ServerCounts DEF BrServer
<1>k. brKind # "cloud_mail"
  OBVIOUS
<1>1. CASE FeishuReceive \/ WhatsappReceive
  <2>1. /\ UNCHANGED <<brKind, brPushes, ibVars>> /\ brAt = "idle"
        /\ brAcked \subseteq brAcked'
    BY <1>1 DEF FeishuReceive, WhatsappReceive, keepVars
  <2>2. \A m \in Msgs : MayPush(m)' => MayPush(m)
    BY <1>k, <2>1 DEF MayPush
  <2> QED BY <2>1, <2>2, CountsSame, AgainRests DEF ibVars
<1>2. CASE FeishuStore \/ WhatsappStore
  <2>1. UNCHANGED <<brKind, brPushes, brAcked>> /\ brAt = "store"
    BY <1>2 DEF FeishuStore, WhatsappStore
  <2>2. CASE UNCHANGED ibVars
    <3>1. \A m \in Msgs : MayPush(m)' => MayPush(m)
      BY <1>k, <2>1 DEF MayPush
    <3> QED BY <2>1, <2>2, <3>1, CountsSame, AgainRests DEF ibVars
  <2>3. CASE BrFault /\ OnlyFaults
    BY <2>1, <2>3, CountsFault, AgainRests
  <2> QED BY <1>2, <2>2, <2>3 DEF FeishuStore, WhatsappStore
<1>3. CASE HookPush
  <2> DEFINE h == brBatch[1]
  <2>1. /\ brPushes' = [brPushes EXCEPT ![h] = @ + 1] /\ brAt = "push" /\ brAt' = "ack"
        /\ UNCHANGED <<brKind, brBatch, brAcked>>
    BY <1>3 DEF HookPush, Head0, keepVars
  <2>2. brBatch # <<>>
    BY <2>1 DEF BrInv, BrForms
  <2>3. PushedOne(h)
    BY <2>1, <2>2, HeadPushed
  <2>4. h \in Batch /\ Batch' = Batch /\ h \notin brAcked
    BY <2>1, <2>2, BatchEnds DEF BrInv, BrForms, Batch, AnsweredLast
  <2> HIDE DEF h
  <2>5. MayPush(h)
    BY <2>1, <2>4 DEF MayPush
  <2>6. \A m \in Msgs : MayPush(m)' => MayPush(m) /\ m # h
    BY <1>k, <2>1, <2>4 DEF MayPush
  <2> QED BY <1>s, <2>3, <2>5, <2>6, AgainPushes
<1>4. CASE HookAck
  <2>1. /\ UNCHANGED <<brKind, brPushes>> /\ brAt = "ack" /\ brAt' = "idle"
    BY <1>4 DEF HookAck
  <2>2. CASE brAcked' = brAcked \cup {brBatch[1]} /\ UNCHANGED ibVars
    <3>1. brBatch # <<>> /\ Len(brBatch) <= 1
      BY <2>1 DEF BrInv, BrForms, AnsweredLast
    <3>2. Batch = {brBatch[1]}
      <4>1. /\ Batch = brBatch[1]..(brBatch[1] + Len(brBatch) - 1)
            /\ brBatch[1] \in Nat /\ Len(brBatch) \in Nat \ {0}
        BY <3>1, BatchEnds DEF BrInv, BrForms
      <4> QED BY <3>1, <4>1
    <3>3. \A m \in Msgs : MayPush(m)' => MayPush(m)
      BY <1>k, <2>1, <2>2, <3>2 DEF MayPush
    <3> QED BY <2>1, <2>2, <3>3, CountsSame, AgainRests DEF ibVars
  <2>3. CASE BrFault /\ OnlyFaults
    BY <2>1, <2>3, CountsFault, AgainRests
  <2> QED BY <1>4, <2>2, <2>3 DEF HookAck, Head0
<1> QED BY <1>1, <1>2, <1>3, <1>4

LEMMA AgainKept == BrInv /\ Again /\ [ChNext]_chVars => Again'
<1> SUFFICES ASSUME BrInv, Again, [ChNext]_chVars PROVE Again'
  OBVIOUS
<1>0. BrInv'
  BY BridgeKeeps
<1>1. CASE BrPost
  <2>1. UNCHANGED <<brKind, brCursor, brUpto, brBatch, brAt, brAcked, brPushes, ibVars>>
    BY <1>1 DEF BrPost, cursorVars, keepVars
  <2>2. \A m \in Msgs : MayPush(m)' => MayPush(m)
    BY <2>1 DEF MayPush, Batch
  <2> QED BY <2>1, <2>2, CountsSame, AgainRests DEF ibVars
<1>2. CASE BrServer
  <2>1. CASE brKind \in {"telegram", "imap", "wechat"}
    <3>1. brKind' = brKind
      BY <1>2 DEF BrServer, TelegramFetch, TelegramMark, TelegramStore, TelegramPush, WechatFetch,
                  WechatLand, WechatRecord, WechatPush, WechatCheckpoint, ImapReconcile, ImapPush,
                  CloudSeed, CloudPoll, CloudPush, CloudCheckpoint, FeishuReceive, FeishuStore,
                  WhatsappReceive, WhatsappStore, HookPush, HookAck, BrFetched, BrPush
    <3> QED BY <1>0, <1>2, <2>1, <3>1, ServerCounts, AgainOnce
  <2>2. CASE brKind = "cloud_mail"
    <3>1. CloudSeed \/ CloudPoll \/ CloudPush \/ CloudCheckpoint
      BY <1>2, <2>2 DEF BrServer, TelegramFetch, TelegramMark, TelegramStore, TelegramPush,
                  WechatFetch, WechatLand, WechatRecord, WechatPush, WechatCheckpoint, ImapReconcile,
                  ImapPush, FeishuReceive, FeishuStore, WhatsappReceive, WhatsappStore, HookPush,
                  HookAck
    <3> QED BY <2>2, <3>1, CloudAgain
  <2>3. CASE brKind \in {"feishu", "whatsapp"}
    <3>1. \/ FeishuReceive \/ FeishuStore
          \/ WhatsappReceive \/ WhatsappStore \/ HookPush \/ HookAck
      BY <1>2, <2>3 DEF BrServer, TelegramFetch, TelegramMark, TelegramStore, TelegramPush,
                  WechatFetch, WechatLand, WechatRecord, WechatPush, WechatCheckpoint, ImapReconcile,
                  ImapPush, CloudSeed, CloudPoll, CloudPush, CloudCheckpoint
    <3> QED BY <2>3, <3>1, HookAgain
  <2> QED BY <2>1, <2>2, <2>3 DEF BrInv, BrForms, AllKinds
<1>3. CASE BrCrash
  <2>1. /\ ibCrashes < MaxCrashes /\ ibCrashes' = ibCrashes + 1 /\ UNCHANGED <<ibFaults, brPushes>>
    BY <1>3 DEF BrCrash
  <2>2. Counts(1)
    BY <2>1, TroubleIs DEF Again, Counts, Trouble
  <2> QED BY <2>1, <2>2, AgainRests
<1>4. CASE UNCHANGED brVars
  <2>1. \A m \in Msgs : MayPush(m)' <=> MayPush(m)
    BY <1>4 DEF brVars, MayPush, Batch
  <2>2. Counts(0) \/ Counts(1)
    <3>1. CASE UNCHANGED <<ibFaults, ibCrashes>>
      BY <3>1, CountsSame
    <3>2. CASE ibFaults < MaxFaults /\ ibFaults' = ibFaults + 1 /\ UNCHANGED ibCrashes
      BY <3>2, TroubleIs DEF Again, Counts, Trouble
    <3>3. CASE ibCrashes < MaxCrashes /\ ibCrashes' = ibCrashes + 1 /\ UNCHANGED ibFaults
      BY <3>3, TroubleIs DEF Again, Counts, Trouble
    <3>4. CASE \E e \in IbEvent : IbDeadLetter(e) \/ IbConsume(e)
      BY <3>4, <3>1, <3>2 DEF IbDeadLetter, IbConsume
    <3>5. CASE IbDispatch
      BY <3>5, <3>1, <3>2 DEF IbDispatch
    <3>6. CASE IbPass \/ IbDismiss \/ IbCrash
      BY <3>6, <3>1, <3>3 DEF IbPass, IbDismiss, IbCrash
    <3>7. CASE UNCHANGED ibVars
      BY <3>1, <3>7 DEF ibVars
    <3>8. CASE BrPost \/ BrServer \/ BrCrash
      <4>1. BrPost \/ BrCrash => UNCHANGED <<ibFaults, ibCrashes>> \/ (ibCrashes < MaxCrashes /\ ibCrashes' = ibCrashes + 1 /\ UNCHANGED ibFaults)
        BY DEF BrPost, BrCrash, ibVars
      <4> QED BY <3>1, <3>3, <3>8, <4>1, ServerCounts
    <3> QED BY <3>4, <3>5, <3>6, <3>7, <3>8 DEF ChNext, chVars, IbAgent, IbSweep
  <2>3. brPushes' = brPushes
    BY <1>4 DEF brVars
  <2> QED BY <2>1, <2>2, <2>3, AgainRests
<1> QED BY <1>1, <1>2, <1>3, <1>4 DEF ChNext, chVars

LEMMA AgainHolds == ChSpec => [](BrInv /\ Again)
<1>1. ChInit => BrInv /\ Again
  <2> SUFFICES ASSUME ChInit PROVE Again
    BY BridgeStarts
  <2>1. ibFaults = 0 /\ ibCrashes = 0 /\ \A m \in Msgs : brPushes[m] = 0
    BY DEF ChInit, IbInit, BrInit
  <2> QED BY <2>1, InboxAssumption DEF Again, Trouble
<1> QED BY <1>1, BridgeKeeps, AgainKept, PTL DEF ChSpec

-----------------------------------------------------------------------------
(* Types of the bridge *)

\* What is previewed was announced.
IbTypes == IbTypeOK /\ ibMirror \subseteq ibAnnounced

LEMMA IbTypesKept ==
  BrInv /\ Again /\ IbTypes /\ [ChNext]_chVars => IbTypes'
<1> SUFFICES ASSUME BrInv, Again, IbTypes, [ChNext]_chVars PROVE IbTypes'
  OBVIOUS
<1> USE DEF IbTypes
<1>0. ibFaults' \in 0..MaxFaults /\ ibCrashes' \in 0..MaxCrashes
  BY AgainKept DEF Again
<1>a. ASSUME UNCHANGED <<ibBad, ibDead, ibVisited, ibPreviews, ibMirror, ibAnnounced, ibShown, ibTold,
                         ibExcused>>,
             ibFiles' \subseteq IbEvent
      PROVE  IbTypes'
  BY <1>0, <1>a DEF IbTypeOK
<1>1. CASE BrPost \/ BrCrash \/ UNCHANGED chVars
  BY <1>1, <1>a DEF BrPost, BrCrash, chVars, ibVars, IbTypeOK
<1>2. CASE BrServer
  <2>1. CASE TelegramPush \/ WechatPush \/ ImapPush \/ CloudPush \/ HookPush
    <3>1. /\ brAt = "push"
          /\ \/ IbPush([msg |-> brBatch[1], copy |-> brPushes[brBatch[1]] + 1])
             \/ BrFault /\ OnlyFaults
      BY <2>1 DEF TelegramPush, WechatPush, ImapPush, CloudPush, HookPush, BrPush, Head0
    <3>2. brPushes[brBatch[1]] \in Nat /\ brBatch[1] \in Msgs
          /\ brPushes[brBatch[1]] + 1 <= 1 + MaxFaults + MaxCrashes
      <4>1. brBatch # <<>>
        BY <3>1 DEF BrInv, BrForms
      <4>2. brBatch[1] \in Msgs /\ brBatch[1] \in Batch
        BY <4>1, HeadSent, BatchEnds DEF BrInv, BrForms
      <4>3. brPushes[brBatch[1]] <= Trouble
        <5>1. CASE brKind \in {"telegram", "imap", "wechat"}
          <6>1. brPushes[brBatch[1]] = 0
            BY <3>1, <4>2, <5>1 DEF BrInv, MarkedFirst, StoredFirst
          <6> QED BY <6>1, TroubleIs
        <5>2. CASE brKind \in {"cloud_mail", "feishu", "whatsapp"}
          <6>1. MayPush(brBatch[1])
            BY <3>1, <4>2, <5>2 DEF MayPush, BrInv, PushedFirst, AnsweredLast
          <6> QED BY <4>2, <6>1 DEF Again
        <5> QED BY <5>1, <5>2 DEF BrInv, BrForms, AllKinds
      <4>4. Trouble <= MaxFaults + MaxCrashes
        BY InboxAssumption DEF Again, Trouble
      <4>5. brPushes[brBatch[1]] \in Nat
        BY <4>2 DEF BrInv, BrForms
      <4> QED BY <4>2, <4>3, <4>4, <4>5, TroubleIs
    <3>3. [msg |-> brBatch[1], copy |-> brPushes[brBatch[1]] + 1] \in IbEvent
      BY <3>2, InboxAssumption DEF IbEvent
    <3> QED BY <3>1, <3>3, <1>a DEF IbPush, OnlyFaults, IbTypeOK
  <2>2. CASE ~(TelegramPush \/ WechatPush \/ ImapPush \/ CloudPush \/ HookPush)
    <3>1. UNCHANGED ibVars \/ OnlyFaults
      BY <1>2, <2>2 DEF BrServer, TelegramFetch, TelegramMark, TelegramStore, WechatFetch,
              WechatLand, WechatRecord, WechatCheckpoint, ImapReconcile,
              CloudSeed, CloudPoll, CloudCheckpoint, FeishuReceive, FeishuStore,
              WhatsappReceive, WhatsappStore, HookAck, BrFetched
    <3> QED BY <3>1, <1>a DEF ibVars, OnlyFaults, IbTypeOK
  <2> QED BY <2>1, <2>2
<1>3. CASE IbAgent /\ UNCHANGED brVars
  <2>1. CASE \E e \in IbEvent : IbDeadLetter(e)
    BY <1>0, <2>1 DEF IbDeadLetter, IbValid, IbPending, IbEvent, IbTypeOK
  <2>2. CASE \E e \in IbEvent : IbConsume(e)
    <3>1. PICK e \in IbEvent : IbConsume(e)
      BY <2>2
    <3>2. /\ e.msg \in Msgs \ ibBad /\ ibPreviews' = ibPreviews \cup {e.msg}
          /\ ibVisited' = ibVisited \cup {e} /\ ibFiles' \subseteq ibFiles
          /\ UNCHANGED <<ibBad, ibDead, ibMirror, ibShown, ibAnnounced, ibTold, ibExcused>>
      BY <3>1 DEF IbConsume, IbValid, IbPreviewed, IbEvent
    <3> QED BY <1>0, <3>2 DEF IbTypeOK
  <2>3. CASE IbDispatch
    <3>1. [m \in Msgs |-> ibTold[m] + (IF m \in ibPreviews THEN 1 ELSE 0)] \in [Msgs -> Nat]
      BY DEF IbTypeOK
    <3>2. /\ ibPreviews' = {} /\ ibVisited' = {} /\ UNCHANGED <<ibBad, ibFiles, ibDead, ibShown>>
          /\ \/ IbAnnounces /\ UNCHANGED ibExcused
             \/ ibExcused' = ibExcused \cup ibPreviews /\ UNCHANGED <<ibMirror, ibAnnounced, ibTold>>
      BY <2>3 DEF IbDispatch
    <3> QED BY <1>0, <3>1, <3>2 DEF IbAnnounces, IbTypeOK
  <2>4. CASE IbPass \/ IbDismiss
    BY <1>0, <2>4 DEF IbPass, IbDismiss, IbTypeOK
  <2>5. CASE IbCrash
    BY <1>0, <2>5 DEF IbCrash, IbTypeOK
  <2> QED BY <1>3, <2>1, <2>2, <2>3, <2>4, <2>5 DEF IbAgent, IbSweep
<1> QED BY <1>1, <1>2, <1>3 DEF ChNext

LEMMA SeqFrom ==
  ASSUME NEW S, NEW n \in Nat, NEW f \in [1..n -> S] PROVE f \in Seq(S)
OBVIOUS

LEMMA PageStays == [ChNext]_chVars => brPage' = brPage
BY DEF ChNext, chVars, brVars, BrPost, BrCrash, BrServer, TelegramFetch, TelegramMark, TelegramStore,
       TelegramPush, WechatFetch, WechatLand, WechatRecord, WechatPush, WechatCheckpoint,
       ImapReconcile, ImapPush, CloudSeed, CloudPoll, CloudPush, CloudCheckpoint, FeishuReceive,
       FeishuStore, WhatsappReceive, WhatsappStore, HookPush, HookAck, BrFetched, keepVars

\* Every value of a bridge and of the inbox is of its type: an event file is one of
\* the first push of its message or of one repeated for a fault or a crash.
THEOREM BridgeTyped == ChSpec => []ChTypeOK
<1>1. ChInit => BrInv /\ Again /\ IbTypes /\ brPage \in PageSizes \cup {1}
  <2> SUFFICES ASSUME ChInit PROVE Again /\ IbTypes /\ brPage \in PageSizes \cup {1}
    BY BridgeStarts
  <2>1. ibFaults = 0 /\ ibCrashes = 0 /\ \A m \in Msgs : brPushes[m] = 0
    BY DEF ChInit, IbInit, BrInit
  <2>2. Again
    BY <2>1, InboxAssumption DEF Again, Trouble
  <2>3. IbTypes
    BY <2>1, InboxAssumption DEF ChInit, IbInit, IbTypes, IbTypeOK
  <2> QED BY <2>2, <2>3 DEF ChInit, BrInit
<1>2. /\ BrInv /\ Again /\ IbTypes /\ brPage \in PageSizes \cup {1}
      /\ [ChNext]_chVars
      => (BrInv /\ Again /\ IbTypes /\ brPage \in PageSizes \cup {1})'
  BY BridgeKeeps, AgainKept, IbTypesKept, PageStays
<1>3. BrInv /\ Again /\ IbTypes /\ brPage \in PageSizes \cup {1} => ChTypeOK
  <2> SUFFICES ASSUME BrInv, IbTypes, brPage \in PageSizes \cup {1} PROVE ChTypeOK
    OBVIOUS
  <2>1. BrForms
    BY DEF BrInv
  <2>2. /\ brPosted \in Nat /\ brCursor \in 0..brPosted /\ brMem \in 0..brPosted
        /\ brCursor <= brMem /\ brUpto \in 0..brPosted
    BY <2>1, MsgNumbers DEF BrForms
  <2>3. brBatch \in Seq(1..brPosted)
    <3>1. brBatch \in Seq(Nat) /\ \A i \in DOMAIN brBatch : brBatch[i] \in 1..brPosted
      BY <2>1 DEF BrForms, InOrder, Batch
    <3>2. brBatch \in [1..Len(brBatch) -> 1..brPosted] /\ Len(brBatch) \in Nat
      BY <3>1
    <3> QED BY <3>2, SeqFrom
  <2>4. brAt \in {"idle", "mark", "store", "seen", "push", "checkpoint", "ack"}
    BY <2>1 DEF BrInv, BrForms, AllKinds, MarkedFirst, StoredFirst, PushedFirst, AnsweredLast
  <2> QED BY <2>1, <2>2, <2>3, <2>4 DEF BrForms, ChTypeOK, IbTypes
<1> QED BY <1>1, <1>2, <1>3, PTL DEF ChSpec

\* A message is pushed to the host once, and once more at most for each fault or
\* crash so far (push_inbox_event, as the servers call it).
THEOREM PushedOnce == ChSpec => [](\A m \in Msgs : brPushes[m] <= 1 + ibFaults + ibCrashes)
<1>1. Again => \A m \in Msgs : brPushes[m] <= 1 + ibFaults + ibCrashes
  BY TroubleIs DEF Again, Trouble
<1> QED BY <1>1, AgainHolds, PTL

-----------------------------------------------------------------------------
(* The two together *)

\* Every value of mail and bridge is of its type, as a behaviour of both is one of
\* each.
THEOREM ChannelsTyped == Spec => []TypeOK
<1>1. Init => ChInit /\ MlInit
  BY DEF Init
<1>2. [Next]_vars => [ChNext]_chVars
  BY DEF Next, vars, Bridge, Post, Letter, Claim
<1>3. [Next]_vars => [MlNext]_mlVars
  BY DEF Next, vars, Bridge, Post, Letter, Claim
<1>4. ChTypeOK /\ MlTypeOK => TypeOK
  BY DEF TypeOK
<1> QED BY <1>1, <1>2, <1>3, <1>4, BridgeTyped, MailTyped, PTL DEF Spec, ChSpec, MlSpec
=============================================================================
