------------------------------ MODULE MCSessions ------------------------------
(***************************************************************************)
(* What an agent keeps between and around its requests: the history and    *)
(* what its providers, its molts and its logs make of it, the settings and *)
(* rules it starts with, its soul, and the desks and mailboxes it answers  *)
(* from.  They share no variable, so `part` picks the one that moves and   *)
(* the others stay in an initial state: TLC explores their sum, not their  *)
(* product.                                                                *)
(***************************************************************************)
EXTENDS ChatInterface, CodexSession, ProviderTurn, Consultation, TimedCalls,
        SessionLog, LiveMeta, Pressure, AgentSetup, Avatars, SoulFlow, ChatDesk, Mailbox,
        McpRegistry, FileSearch

CONSTANT Parts

VARIABLE part

historyVars == <<vars, cxVars, ptVars, csVars, tcVars>>
noticeVars  == <<lgVars, lmVars, psVars>>
lifeVars    == <<asVars, avVars, sfVars, rgVars>>
deskVars    == <<dkVars, mbVars, fsVars>>
allVars     == <<part, historyVars, noticeVars, lifeVars, deskVars>>

\* Bounds of a desk, a tree of avatars, a soul and a mailbox, which two parts share
DeskIn  == [desk_in |-> 2, desk_out |-> 0, desk_both |-> 1]
DeskOut == [desk_in |-> 0, desk_out |-> 3, desk_both |-> 1]
Family  == [rules |-> {1, 2, 3}, family |-> {1, 2}]
Rules   == [rules |-> 1, family |-> 2]
Trouble == [rules |-> 0, family |-> 1]
Asked   == [voices |-> 0, asks |-> 2]
Fired   == [voices |-> SfFires, asks |-> 2]
MailOps == [mailbox |-> 2, retried |-> 1]
Retries == [mailbox |-> 1, retried |-> 2]

\* What a search finds in a tree of three entries
Found(kind, hits, named) == [kind |-> kind, hits |-> hits, named |-> named]
Tree(x, y, z) == [e \in {"x", "y", "z"} |-> CASE e = "x" -> x [] e = "y" -> y [] e = "z" -> z]
Trees == {Tree(Found("text", 2, TRUE), Found("text", 1, FALSE), Found("text", 1, TRUE)),
          Tree(Found("nul", 2, TRUE), Found("link", 1, TRUE), Found("text", 1, TRUE)),
          Tree(Found("dir", 0, TRUE), Found("big", 1, TRUE), Found("text", 2, TRUE)),
          Tree(Found("pruned", 1, TRUE), Found("bytes", 1, TRUE), Found("text", 2, TRUE))}
AnyAsk == [op |-> "grep", cap |-> 1, visits |-> 1, filter |-> FALSE, select |-> "auto",
           binary |-> FALSE]

AnyTree == CHOOSE t \in Trees : TRUE

DeskParts == DOMAIN DeskIn
Families  == DOMAIN Family
Souls     == DOMAIN Asked
Mailboxes == DOMAIN MailOps

ASSUME PartsAssumption ==
  Parts \subseteq {"chat", "codex", "provider", "consult", "timed", "log", "meta", "pressure",
                   "setup", "registry", "search", "pages"}
                  \cup Families \cup Souls \cup DeskParts \cup Mailboxes

SessionsInit ==
  /\ part \in Parts
  /\ FsInit /\ (part # "search" => fsAsk = AnyAsk /\ fsTree = AnyTree)
  /\ FrInit /\ (part # "pages" => frFile = <<1>> /\ frAsk = [limit |-> 1, cap |-> 1])
  /\ Init /\ TcInit /\ LgInit /\ LmInit /\ PsInit /\ AvInit /\ SfInit
  /\ CxInit /\ (part # "codex" => cxTransport = "rest")
  /\ PtInit /\ (part # "provider" => ptKind = "openai")
  /\ CsInit /\ (part # "consult" => csChat = <<>> /\ csTarget = 0)
  /\ AsInit /\ (part # "setup" => asInit.active = "home")
  /\ RgInit /\ rgInit.mcp = {"imap", "mine"}
  /\ rgInit.addons \in {<<"telegram", "imap">>} \cup (IF part = "registry" THEN {<<"mine", "imap">>} ELSE {})
  /\ DkInit /\ (part \notin DeskParts => dkKind = "telegram")
  /\ MbInit /\ (part \notin Mailboxes => mbCaps = [move |-> TRUE, uidplus |-> TRUE, trash |-> TRUE])

Desk ==
  /\ part \in DeskParts /\ DkNext
  /\ LET sent == Len(SelectSeq(dkLog', LAMBDA e : e.mine))
     IN sent <= DeskOut[part] /\ dkIds' - sent <= DeskIn[part]
Avatar ==
  /\ part \in Families /\ AvNext
  /\ avDir' \subseteq Family[part] /\ avSet' <= Rules[part] /\ avFaults' <= Trouble[part]
Soul ==
  /\ part \in Souls /\ SfNext
  /\ sfAsked' <= Asked[part] /\ \A i \in (Fired[part] + 1)..SfFires : sfAt'[i] = "none"
Registry ==
  /\ part = "registry" /\ RgNext
  /\ \A n \in RgNames : rgIdentity'[n] # {} => n = "mine"
Account ==
  /\ part \in Mailboxes /\ MbNext
  /\ mbCalls' <= MailOps[part] /\ mbFaults' <= Retries[part]

History ==
  \/ part = "chat" /\ Next /\ UNCHANGED <<cxVars, ptVars, csVars, tcVars>>
  \/ part = "codex" /\ CxNext /\ UNCHANGED <<vars, ptVars, csVars, tcVars>>
  \/ part = "provider" /\ PtNext /\ UNCHANGED <<vars, cxVars, csVars, tcVars>>
  \/ part = "consult" /\ CsNext /\ UNCHANGED <<vars, cxVars, ptVars, tcVars>>
  \/ part = "timed" /\ TcNext /\ UNCHANGED <<vars, cxVars, ptVars, csVars>>
Notice ==
  \/ part = "log" /\ LgNext /\ UNCHANGED <<lmVars, psVars>>
  \/ part = "meta" /\ LmNext /\ UNCHANGED <<lgVars, psVars>>
  \/ part = "pressure" /\ PsNext /\ UNCHANGED <<lgVars, lmVars>>
Life ==
  \/ part = "setup" /\ AsNext /\ UNCHANGED <<avVars, sfVars, rgVars>>
  \/ Avatar /\ UNCHANGED <<asVars, sfVars, rgVars>>
  \/ Soul /\ UNCHANGED <<asVars, avVars, rgVars>>
  \/ Registry /\ UNCHANGED <<asVars, avVars, sfVars>>
Desks ==
  \/ Desk /\ UNCHANGED <<mbVars, fsVars>>
  \/ Account /\ UNCHANGED <<dkVars, fsVars>>
  \/ part = "search" /\ FsNext /\ UNCHANGED <<dkVars, mbVars>>
  \/ part = "pages" /\ FrRead /\ UNCHANGED <<dkVars, mbVars>>

SessionsNext ==
  /\ UNCHANGED part
  /\ \/ History /\ UNCHANGED <<noticeVars, lifeVars, deskVars>>
     \/ Notice /\ UNCHANGED <<historyVars, lifeVars, deskVars>>
     \/ Life /\ UNCHANGED <<historyVars, noticeVars, deskVars>>
     \/ Desks /\ UNCHANGED <<historyVars, noticeVars, lifeVars>>

SessionsSpec == SessionsInit /\ [][SessionsNext]_allVars

-----------------------------------------------------------------------------
(* Properties *)

\* Every value is of the type its module gives it.
SessionTypes ==
  CASE part = "chat"      -> TypeOK
    [] part = "codex"     -> CxTypeOK
    [] part = "provider"  -> PtTypeOK
    [] part = "consult"   -> CsTypeOK
    [] part = "timed"     -> TcTypeOK
    [] part = "log"       -> LgTypeOK
    [] part = "meta"      -> LmTypeOK
    [] part = "pressure"  -> PsTypeOK
    [] part = "setup"     -> AsTypeOK
    [] part = "registry"  -> RgTypeOK
    [] part \in {"search", "pages"} -> FsTypeOK
    [] part \in Families  -> AvTypeOK
    [] part \in Souls     -> SfTypeOK
    [] part \in DeskParts -> DkTypeOK
    [] part \in Mailboxes -> MbTypeOK

\* The model is shown what happened, whole and once: a message, however often the
\* request is made again, by whichever adapter; what the timed-call inbox splices
\* in; the chat a consultation cuts out of the history, in legal pairs; and it is
\* told when a search or a page of a file left something out.
ShownOnce ==
  OnceShown /\ ResultsShown /\ OnePairEach /\ ConsultsLegally /\ SearchHonest /\ PagesCover

\* A notice is neither lost with the entry that carried it nor made twice:
\* the live payload, the pressure event, the voices of the last fire.
NoticesKept == PayloadKept /\ ToldOnce /\ VoicesAreLast

\* What is derived again agrees with what was derived before: the totals of
\* the session from its log, the prompt from its files at a molt, the registry
\* of servers from the add-ons at a boot.
DerivedAgrees == RebuildsAgree /\ MoltAgrees /\ RecordsStay

\* A desk lets an identical answer go out no oftener than it should, does not
\* mark what the agent was not told, and a mailbox keeps its messages.
DesksKeep == RepeatsBounded /\ MarkedWasTold /\ MailKept

\* What an agent starts from is there and true: the preset it chose, the
\* avatars its ledger says booted, the rules its ancestors set, the servers of
\* the add-ons it declares.
StartsWell == ChoiceBoots /\ BootIsTrue /\ RulesReach /\ AddonsServed
=============================================================================
